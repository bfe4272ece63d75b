---------------------------- MODULE ToggleProofs ----------------------------
(***************************************************************************)
(* Theorems about Toggle, for every number of switches, all widths and     *)
(* options, and as many lost releases as one likes.                        *)
(***************************************************************************)
EXTENDS Toggle, FiniteSetTheorems, TLAPS

\* A drag is of a switch that is pressed, and with no release lost it has gone
\* beyond the threshold since the press.
DragHasReason == dragging => currentlyClicking # None /\ (lost \/ moved)

\* No animation is of a box that is not a switch yet.
Unanimated == \A b \in Box \ styled : target[b] = -1

\* A switch that is dragged is under the mouse, unless a script or the end of
\* an animation has interfered.
Carried ==
  dragging /\ ~lost /\ ~touched /\ mouse > 0 /\ currentlyClicking \in listening \ disabled =>
    left[currentlyClicking] = Clamp(mouse + handleLeftOffset - dragStartPosition)

Agrees(b) ==
  IF target[b] = -1 THEN left[b] = End(checked[b]) ELSE target[b] = End(checked[b])

IInv ==
  /\ TypeOK /\ Rest /\ Agreeing
  /\ DragHasReason /\ Unanimated /\ Carried

LEMMA Sides ==
  /\ RightSide \in Nat \ {0}
  /\ \A on \in BOOLEAN : End(on) \in {0, RightSide} /\ End(on) # -1
  /\ \A p \in Int : Clamp(p) \in 0..RightSide
<1>1. Wider(OnLabel, OffLabel) \in Nat
  BY ToggleAssumption DEF Wider
<1>2. RightSide = Wider(OnLabel, OffLabel) + HandleMargin - (ContainerRadius + 1)
  BY <1>1, ToggleAssumption DEF RightSide, ContainerWidth, HandleWidth
<1>3. RightSide \in Nat \ {0}
  BY <1>1, <1>2, ToggleAssumption
<1>4. \A on \in BOOLEAN : End(on) \in {0, RightSide} /\ End(on) # -1
  BY <1>3 DEF End
<1>5. \A p \in Int : Clamp(p) \in 0..RightSide
  BY <1>3 DEF Clamp
<1> QED BY <1>3, <1>4, <1>5

LEMMA AgreesIs == Agreeing <=> \A b \in styled \ (disabled \cup stray) : ~Held(b) => Agrees(b)
BY DEF Agreeing, Agrees

LEMMA Initially == Init => IInv
<1> SUFFICES ASSUME Init PROVE IInv
  OBVIOUS
<1>1. ClassOK
  <2>1. dragging = FALSE /\ dragging \in BOOLEAN
    BY DEF Init
  <2>2. currentlyClicking = None /\ dragStartPosition = 0 /\ handleLeftOffset = 0
    BY DEF Init
  <2>3. 0 \in 0..PageWidth /\ 0 \in 0..RightSide
    BY Sides, ToggleAssumption
  <2> QED BY <2>1, <2>2, <2>3 DEF ClassOK
<1>2. SwitchOK
  BY Sides DEF Init, SwitchOK
<1>3. HistoryOK
  <2>1. touched \in BOOLEAN /\ moved \in BOOLEAN /\ lost \in BOOLEAN
    BY DEF Init
  <2>2. mouse = 1 /\ down = None /\ losses = 0 /\ stray = {}
    BY DEF Init
  <2>3. 1 \in 0..PageWidth /\ 0 \in 0..MaxLost
    BY ToggleAssumption
  <2> QED BY <2>1, <2>2, <2>3 DEF HistoryOK
<1>4. Rest /\ Agreeing /\ DragHasReason /\ Unanimated /\ Carried
  BY DEF Init, Rest, Agreeing, DragHasReason, Unanimated, Carried
<1> QED BY <1>1, <1>2, <1>3, <1>4 DEF IInv, TypeOK

-----------------------------------------------------------------------------
(***************************************************************************)
(* The actions.                                                            *)
(***************************************************************************)

LEMMA StyleKeeps ==
  ASSUME IInv, NEW b \in Box, Style(b)
  PROVE  IInv'
<1>1. /\ UNCHANGED <<class, checked, disabled, target, listening, mouse, down, history>>
      /\ b \notin styled /\ styled' = styled \cup {b}
  BY DEF Style
<1>2. left' = [left EXCEPT ![b] = End(checked[b])]
  BY DEF Style
<1>3. b \notin listening /\ target[b] = -1 /\ End(checked[b]) \in 0..RightSide
  <2>1. b \notin listening /\ target[b] = -1
    BY <1>1 DEF IInv, TypeOK, SwitchOK, Unanimated
  <2>2. checked[b] \in BOOLEAN
    BY DEF IInv, TypeOK, SwitchOK
  <2>3. End(checked[b]) \in {0, RightSide}
    BY <2>2, Sides
  <2>4. {0, RightSide} \subseteq 0..RightSide
    BY Sides
  <2> QED BY <2>1, <2>3, <2>4
<1>4. left'[b] = End(checked[b]) /\ \A c \in Box \ {b} : left'[c] = left[c]
  BY <1>2 DEF IInv, TypeOK, SwitchOK
<1>5. ClassOK'
  BY <1>1 DEF IInv, TypeOK, ClassOK, class
<1>6. SwitchOK'
  BY <1>1, <1>2, <1>3 DEF IInv, TypeOK, SwitchOK
<1>7. HistoryOK'
  BY <1>1 DEF IInv, TypeOK, HistoryOK, history
<1>8. Rest'
  BY <1>1 DEF IInv, Rest, class, history
<1>9. Agreeing'
  <2>1. Agrees(b)'
    BY <1>1, <1>3, <1>4 DEF Agrees
  <2>2. \A c \in styled \ (disabled \cup stray) : ~Held(c)' => Agrees(c)'
    BY <1>1, <1>4, AgreesIs DEF IInv, TypeOK, SwitchOK, Held, Agrees, class
  <2> QED BY <1>1, <2>1, <2>2 DEF Agreeing, Agrees, history
<1>10. DragHasReason' /\ Unanimated'
  BY <1>1 DEF IInv, DragHasReason, Unanimated, class, history
<1>11. Carried'
  BY <1>1, <1>3, <1>4 DEF IInv, TypeOK, SwitchOK, Carried, class, history
<1> QED BY <1>5, <1>6, <1>7, <1>8, <1>9, <1>10, <1>11 DEF IInv, TypeOK

LEMMA PressDisabledKeeps ==
  ASSUME IInv, NEW b \in Box, PressDisabled(b)
  PROVE  IInv'
<1>1. /\ UNCHANGED <<class, styled, checked, disabled, left, target, mouse, history>>
      /\ b \in styled \cap disabled /\ down' = b /\ listening' = listening \cup {b}
  BY DEF PressDisabled
<1>2. ClassOK'
  BY <1>1 DEF IInv, TypeOK, ClassOK, class
<1>3. SwitchOK'
  BY <1>1 DEF IInv, TypeOK, SwitchOK
<1>4. HistoryOK'
  BY <1>1 DEF IInv, TypeOK, HistoryOK, history
<1>5. Rest'
  BY <1>1, ToggleAssumption DEF Rest
<1>6. Agreeing'
  BY <1>1 DEF IInv, Agreeing, Held, class, history
<1>7. DragHasReason' /\ Unanimated'
  BY <1>1 DEF IInv, DragHasReason, Unanimated, class, history
<1>8. Carried'
  BY <1>1 DEF IInv, Carried, class, history
<1> QED BY <1>2, <1>3, <1>4, <1>5, <1>6, <1>7, <1>8 DEF IInv, TypeOK

LEMMA PressKeeps ==
  ASSUME IInv, NEW b \in Box, Press(b)
  PROVE  IInv'
<1>1. /\ UNCHANGED <<dragging, styled, checked, disabled, left, target, mouse, lost, losses>>
      /\ down = None /\ b \in styled \ disabled /\ down' = b
      /\ listening' = listening \cup {b} /\ currentlyClicking' = b
      /\ dragStartPosition' = mouse
      /\ touched' = FALSE /\ moved' = FALSE
      /\ stray' = stray \cup ((listening \cap {currentlyClicking}) \ {b})
  BY DEF Press
<1>2. handleLeftOffset' \in 0..RightSide
  <2>1. LeftValues(b) \subseteq 0..RightSide
    BY DEF LeftValues, IInv, TypeOK, SwitchOK
  <2> QED BY <2>1 DEF Press
<1>3. ~lost => ~dragging
  BY <1>1 DEF IInv, Rest
<1>4. ClassOK'
  BY <1>1, <1>2 DEF IInv, TypeOK, ClassOK, HistoryOK
<1>5. SwitchOK'
  BY <1>1 DEF IInv, TypeOK, SwitchOK
<1>6. HistoryOK'
  BY <1>1 DEF IInv, TypeOK, HistoryOK, SwitchOK
<1>7. Rest'
  BY <1>1, ToggleAssumption DEF Rest
<1>8. Agreeing'
  BY <1>1 DEF IInv, Agreeing, Held
<1>9. DragHasReason' /\ Unanimated'
  BY <1>1, <1>3, ToggleAssumption DEF IInv, DragHasReason, Unanimated
<1>10. Carried'
  BY <1>1, <1>3 DEF Carried
<1> QED BY <1>4, <1>5, <1>6, <1>7, <1>8, <1>9, <1>10 DEF IInv, TypeOK

LEMMA MoveKeeps ==
  ASSUME IInv, NEW x \in 0..PageWidth, Move(x)
  PROVE  IInv'
<1> DEFINE p == x + handleLeftOffset - dragStartPosition
<1>1. /\ UNCHANGED <<currentlyClicking, dragStartPosition, handleLeftOffset, styled, checked,
                     disabled, target, listening, down, touched, lost, losses, stray>>
      /\ mouse' = x
  BY DEF Move
<1>2. /\ left' = [b \in Box |-> IF Followed(x) /\ b = currentlyClicking THEN Clamp(p) ELSE left[b]]
      /\ moved' = (moved \/ (currentlyClicking # None /\ Far(x)))
  BY DEF Move
<1>3. /\ dragging' \in BOOLEAN /\ (dragging => dragging')
      /\ dragging' /\ ~dragging => currentlyClicking # None /\ Far(x)
  <2>1. dragging' = (\/ dragging
                     \/ x > 0 /\ currentlyClicking # None /\ listening \ disabled # {} /\ Far(x))
    BY DEF Move
  <2>2. dragging \in BOOLEAN
    BY DEF IInv, TypeOK, ClassOK
  <2> HIDE DEF p
  <2> QED BY <2>1, <2>2, Zenon
<1>4. moved' \in BOOLEAN /\ (moved => moved') /\ (currentlyClicking # None /\ Far(x) => moved')
  <2>1. moved \in BOOLEAN
    BY DEF IInv, TypeOK, HistoryOK
  <2> QED BY <1>2, <2>1, Zenon
<1>5. p \in Int /\ Clamp(p) \in 0..RightSide
  BY Sides DEF IInv, TypeOK, ClassOK
<1> HIDE DEF p
<1>6. ClassOK'
  <2>1. dragging' \in BOOLEAN
    BY <1>3, Zenon
  <2>2. /\ currentlyClicking \in Box \cup {None}
        /\ dragStartPosition \in 0..PageWidth /\ handleLeftOffset \in 0..RightSide
    BY DEF IInv, TypeOK, ClassOK
  <2>3. /\ currentlyClicking' \in Box \cup {None}
        /\ dragStartPosition' \in 0..PageWidth /\ handleLeftOffset' \in 0..RightSide
    BY <1>1, <2>2
  <2> QED BY <2>1, <2>3, Zenon DEF ClassOK
<1>7. SwitchOK'
  BY <1>1, <1>2, <1>5 DEF IInv, TypeOK, SwitchOK
<1>8. HistoryOK'
  BY <1>1, <1>4 DEF IInv, TypeOK, HistoryOK
<1>9. Rest'
  BY <1>1, <1>3 DEF IInv, Rest
<1>10. Agreeing'
  <2>1. \A b \in Box : ~Held(b) => left'[b] = left[b]
    BY <1>2 DEF Held, Followed
  <2> QED BY <1>1, <2>1 DEF IInv, TypeOK, SwitchOK, Agreeing, Held
<1>11. DragHasReason' /\ Unanimated'
  BY <1>1, <1>3, <1>4 DEF IInv, DragHasReason, Unanimated
<1>12. Carried'
  <2>1. x > 0 /\ currentlyClicking \in listening \ disabled => left'[currentlyClicking] = Clamp(p)
    BY <1>2 DEF Followed, IInv, TypeOK, SwitchOK
  <2> QED BY <1>1, <2>1 DEF Carried, p
<1> QED BY <1>6, <1>7, <1>8, <1>9, <1>10, <1>11, <1>12 DEF IInv, TypeOK

-----------------------------------------------------------------------------
(***************************************************************************)
(* Releases.                                                               *)
(***************************************************************************)

LEMMA ReleaseHeardKeeps ==
  ASSUME IInv, ReleaseHeard, NEW b, b = currentlyClicking
  PROVE  IInv'
<1> DEFINE on == IF dragging THEN 2 * (mouse - dragStartPosition) >= RightSide ELSE ~checked[b]
<1>1. /\ listening' = {} /\ down' = None /\ UNCHANGED <<styled, disabled, left, mouse, losses>>
      /\ b \in listening \ disabled /\ checked' = [checked EXCEPT ![b] = on] /\ DidChange(b, on)
      /\ currentlyClicking' = None /\ dragStartPosition' = 0 /\ handleLeftOffset' = 0
  BY DEF ReleaseHeard, Release
<1>2. dragging' = FALSE /\ touched' = FALSE /\ moved' = FALSE /\ lost' = FALSE
  BY DEF ReleaseHeard, Release
<1>3. b \in styled /\ b \in Box
  BY <1>1 DEF IInv, TypeOK, SwitchOK
<1>4. on \in BOOLEAN
  <2>1. checked[b] \in BOOLEAN
    BY <1>3 DEF IInv, TypeOK, SwitchOK
  <2>2. (~checked[b]) \in BOOLEAN
    BY <2>1, Zenon
  <2>3. (2 * (mouse - dragStartPosition) >= RightSide) \in BOOLEAN
    OBVIOUS
  <2>4. CASE dragging
    BY <2>3, <2>4
  <2>5. CASE ~dragging
    BY <2>2, <2>5
  <2> QED BY <2>4, <2>5
<1> HIDE DEF on
<1>5. /\ target' = [target EXCEPT ![b] = End(on)] /\ stray' = stray \ {b}
      /\ End(on) \in {0, RightSide} /\ End(on) # -1
  BY <1>1, <1>3, <1>4, Sides DEF DidChange
<1>6. /\ target'[b] = End(on) /\ checked'[b] = on
      /\ \A c \in Box \ {b} : target'[c] = target[c] /\ checked'[c] = checked[c]
  BY <1>1, <1>3, <1>5 DEF IInv, TypeOK, SwitchOK
<1>7. ClassOK'
  <2>1. 0 \in 0..PageWidth /\ 0 \in 0..RightSide
    BY Sides, ToggleAssumption
  <2>2. dragging' \in BOOLEAN
    BY <1>2
  <2> QED BY <1>1, <2>1, <2>2 DEF ClassOK
<1>8. SwitchOK'
  <2>1. checked' \in [Box -> BOOLEAN]
    BY <1>1, <1>4 DEF IInv, TypeOK, SwitchOK
  <2>2. target' \in [Box -> {-1, 0, RightSide}]
    BY <1>5 DEF IInv, TypeOK, SwitchOK
  <2> QED BY <1>1, <2>1, <2>2 DEF IInv, TypeOK, SwitchOK
<1>9. HistoryOK'
  <2>1. touched' \in BOOLEAN /\ moved' \in BOOLEAN /\ lost' \in BOOLEAN
    BY <1>2
  <2> QED BY <1>1, <1>5, <2>1 DEF IInv, TypeOK, HistoryOK
<1>10. Rest' /\ DragHasReason' /\ Carried'
  BY <1>1, <1>2 DEF Rest, DragHasReason, Carried
<1>11. Agreeing'
  <2>1. Agrees(b)'
    BY <1>5, <1>6 DEF Agrees
  <2>2. \A c \in styled \ (disabled \cup stray) : c # b => ~Held(c) /\ Agrees(c)
    BY AgreesIs DEF IInv, Held
  <2>3. \A c \in styled \ (disabled \cup stray) : c # b => Agrees(c)'
    BY <1>1, <1>6, <2>2 DEF Agrees, IInv, TypeOK, SwitchOK
  <2>4. \A c \in styled \ (disabled \cup stray') : Agrees(c)'
    BY <1>5, <2>1, <2>3
  <2> QED BY <1>1, <2>4 DEF Agreeing, Agrees
<1>12. Unanimated'
  BY <1>1, <1>3, <1>6 DEF IInv, Unanimated
<1> QED BY <1>7, <1>8, <1>9, <1>10, <1>11, <1>12 DEF IInv, TypeOK

LEMMA ReleaseUnheardKeeps ==
  ASSUME IInv, ReleaseUnheard
  PROVE  IInv'
<1>1. /\ listening' = {} /\ down' = None
      /\ UNCHANGED <<class, styled, disabled, left, mouse, losses, checked, target, stray>>
      /\ currentlyClicking \notin listening \ disabled
  BY DEF ReleaseUnheard, Release
<1>2. touched' = FALSE /\ moved' = FALSE /\ lost' = (currentlyClicking # None)
  BY DEF ReleaseUnheard, Release
<1>3. ClassOK'
  BY <1>1 DEF IInv, TypeOK, ClassOK, class
<1>4. SwitchOK'
  BY <1>1 DEF IInv, TypeOK, SwitchOK
<1>5. HistoryOK'
  <2>1. touched' \in BOOLEAN /\ moved' \in BOOLEAN /\ lost' \in BOOLEAN
    BY <1>2
  <2> QED BY <1>1, <2>1 DEF IInv, TypeOK, HistoryOK
<1>6. Rest' /\ DragHasReason' /\ Carried'
  BY <1>1, <1>2 DEF IInv, Rest, DragHasReason, Carried, class
<1>7. Agreeing'
  <2>1. \A b \in styled \ (disabled \cup stray) : ~Held(b)
    BY <1>1 DEF Held
  <2> QED BY <1>1, <2>1 DEF IInv, Agreeing
<1>8. Unanimated'
  BY <1>1 DEF IInv, Unanimated
<1> QED BY <1>3, <1>4, <1>5, <1>6, <1>7, <1>8 DEF IInv, TypeOK

\* A release that no handler sees.
LEMMA LostKeeps ==
  ASSUME IInv, losses < MaxLost, losses' = losses + 1, down' = None, lost' = TRUE,
         UNCHANGED <<class, switch, mouse, touched, moved, stray>>
  PROVE  IInv'
<1>1. /\ currentlyClicking' = currentlyClicking /\ dragging' = dragging
      /\ dragStartPosition' = dragStartPosition /\ handleLeftOffset' = handleLeftOffset
      /\ styled' = styled /\ checked' = checked /\ disabled' = disabled
      /\ left' = left /\ target' = target /\ listening' = listening
      /\ mouse' = mouse /\ touched' = touched /\ moved' = moved /\ stray' = stray
  BY DEF class, switch
<1>2. ClassOK' /\ SwitchOK'
  BY <1>1 DEF IInv, TypeOK, ClassOK, SwitchOK
<1>3. HistoryOK'
  <2>1. losses' \in 0..MaxLost
    BY ToggleAssumption DEF IInv, TypeOK, HistoryOK
  <2>2. lost' \in BOOLEAN
    OBVIOUS
  <2> QED BY <1>1, <2>1, <2>2 DEF IInv, TypeOK, HistoryOK
<1>4. Rest' /\ Agreeing' /\ DragHasReason' /\ Unanimated' /\ Carried'
  BY <1>1 DEF IInv, Rest, Agreeing, Held, DragHasReason, Unanimated, Carried
<1> QED BY <1>2, <1>3, <1>4 DEF IInv, TypeOK

LEMMA ReleaseFailsKeeps == IInv /\ ReleaseFails => IInv'
BY LostKeeps DEF ReleaseFails

LEMMA CancelKeeps == IInv /\ Cancel => IInv'
BY LostKeeps DEF Cancel

-----------------------------------------------------------------------------
(***************************************************************************)
(* Scripts, and the ends of animations: what is pressed stays, but notes   *)
(* that it has been touched.                                               *)
(***************************************************************************)

LEMMA TouchKeeps ==
  ASSUME IInv, touched' = (currentlyClicking # None),
         UNCHANGED <<class, styled, listening, mouse, down, moved, lost, losses>>,
         SwitchOK', stray' \subseteq stray
  PROVE  ClassOK' /\ HistoryOK' /\ Rest' /\ DragHasReason' /\ Carried'
<1>1. ClassOK'
  BY DEF IInv, TypeOK, ClassOK, class
<1>2. HistoryOK'
  <2>1. touched' \in BOOLEAN
    OBVIOUS
  <2> QED BY <2>1 DEF IInv, TypeOK, HistoryOK
<1>3. Rest' /\ DragHasReason'
  BY DEF IInv, Rest, DragHasReason, class
<1>4. Carried'
  BY DEF IInv, DragHasReason, Carried, class
<1> QED BY <1>1, <1>2, <1>3, <1>4

LEMMA AnimationEndsKeeps ==
  ASSUME IInv, NEW b \in Box, AnimationEnds(b)
  PROVE  IInv'
<1>1. /\ UNCHANGED <<class, styled, checked, disabled, listening, mouse, down, moved, lost, losses, stray>>
      /\ target[b] # -1 /\ touched' = (currentlyClicking # None)
      /\ left' = [left EXCEPT ![b] = target[b]] /\ target' = [target EXCEPT ![b] = -1]
  BY DEF AnimationEnds
<1>2. /\ left'[b] = target[b] /\ target'[b] = -1
      /\ \A c \in Box \ {b} : left'[c] = left[c] /\ target'[c] = target[c]
  BY <1>1 DEF IInv, TypeOK, SwitchOK
<1>3. target[b] \in 0..RightSide
  BY <1>1, Sides DEF IInv, TypeOK, SwitchOK
<1>4. SwitchOK'
  BY <1>1, <1>3 DEF IInv, TypeOK, SwitchOK
<1>5. Agreeing'
  <2>1. \A c \in Box : Agrees(c) => Agrees(c)'
    BY <1>1, <1>2 DEF Agrees
  <2>2. \A c \in styled \ (disabled \cup stray) : ~Held(c)' => Agrees(c)'
    BY <1>1, <2>1, AgreesIs DEF IInv, TypeOK, SwitchOK, Held, class
  <2> QED BY <1>1, <2>2 DEF Agreeing, Agrees
<1>6. Unanimated'
  BY <1>1, <1>2 DEF IInv, Unanimated
<1> QED BY <1>1, <1>4, <1>5, <1>6, TouchKeeps DEF IInv, TypeOK

LEMMA ChangeKeeps ==
  ASSUME IInv, NEW b \in Box, Change(b)
  PROVE  IInv'
<1>1. /\ UNCHANGED <<class, styled, disabled, left, listening, mouse, down, moved, lost, losses>>
      /\ checked' = [checked EXCEPT ![b] = ~@] /\ DidChange(b, ~checked[b])
      /\ touched' = (currentlyClicking # None)
  BY DEF Change
<1>2. checked[b] \in BOOLEAN /\ (~checked[b]) \in BOOLEAN
  <2>1. checked[b] \in BOOLEAN
    BY DEF IInv, TypeOK, SwitchOK
  <2>2. (~checked[b]) \in BOOLEAN
    BY <2>1, Zenon
  <2> QED BY <2>1, <2>2
<1>3. /\ checked' \in [Box -> BOOLEAN]
      /\ checked'[b] = ~checked[b] /\ \A c \in Box \ {b} : checked'[c] = checked[c]
  BY <1>1, <1>2 DEF IInv, TypeOK, SwitchOK
<1>4. End(~checked[b]) \in {0, RightSide} /\ End(~checked[b]) # -1
  BY <1>2, Sides
<1>5. CASE b \in styled \ disabled
  <2>1. target' = [target EXCEPT ![b] = End(~checked[b])] /\ stray' = stray \ {b}
    BY <1>1, <1>5 DEF DidChange
  <2>2. SwitchOK'
    BY <1>1, <1>3, <1>4, <2>1 DEF IInv, TypeOK, SwitchOK
  <2>3. target'[b] = End(checked'[b]) /\ \A c \in Box \ {b} : target'[c] = target[c]
    BY <1>3, <2>1 DEF IInv, TypeOK, SwitchOK
  <2>4. Agreeing'
    <3>1. Agrees(b)'
      BY <1>3, <1>4, <2>3 DEF Agrees
    <3>2. \A c \in Box \ {b} : Agrees(c) => Agrees(c)'
      BY <1>1, <1>3, <2>3 DEF Agrees
    <3>3. \A c \in styled \ (disabled \cup stray') : ~Held(c)' => Agrees(c)'
      BY <1>1, <2>1, <3>1, <3>2, AgreesIs DEF IInv, TypeOK, SwitchOK, Held, class
    <3> QED BY <1>1, <3>3 DEF Agreeing, Agrees
  <2>5. Unanimated'
    BY <1>1, <1>5, <2>3 DEF IInv, Unanimated
  <2> QED BY <1>1, <2>1, <2>2, <2>4, <2>5, TouchKeeps DEF IInv, TypeOK
<1>6. CASE b \notin styled \ disabled
  <2>1. target' = target /\ stray' = stray
    BY <1>1, <1>6 DEF DidChange
  <2>2. SwitchOK'
    BY <1>1, <1>3, <2>1 DEF IInv, TypeOK, SwitchOK
  <2>3. Agreeing'
    <3>1. \A c \in Box \ {b} : Agrees(c) => Agrees(c)'
      BY <1>1, <1>3, <2>1 DEF Agrees
    <3>2. \A c \in styled \ (disabled \cup stray) : ~Held(c)' => Agrees(c)'
      BY <1>1, <1>6, <3>1, AgreesIs DEF IInv, TypeOK, SwitchOK, Held, class
    <3> QED BY <1>1, <2>1, <3>2 DEF Agreeing, Agrees
  <2>4. Unanimated'
    BY <1>1, <2>1 DEF IInv, Unanimated
  <2> QED BY <1>1, <2>1, <2>2, <2>3, <2>4, TouchKeeps DEF IInv, TypeOK
<1> QED BY <1>5, <1>6

LEMMA DisableKeeps ==
  ASSUME IInv, NEW b \in Box, Disable(b)
  PROVE  IInv'
<1>1. /\ UNCHANGED <<class, styled, checked, left, target, listening, mouse, down, moved, lost, losses, stray>>
      /\ disabled' = disabled \cup {b} /\ touched' = (currentlyClicking # None)
  BY DEF Disable
<1>2. SwitchOK'
  BY <1>1 DEF IInv, TypeOK, SwitchOK
<1>3. Agreeing' /\ Unanimated'
  BY <1>1 DEF IInv, Agreeing, Unanimated, Held, class
<1> QED BY <1>1, <1>2, <1>3, TouchKeeps DEF IInv, TypeOK

LEMMA EnableKeeps ==
  ASSUME IInv, NEW b \in Box, Enable(b)
  PROVE  IInv'
<1>1. /\ UNCHANGED <<class, styled, checked, left, listening, mouse, down, moved, lost, losses>>
      /\ disabled' = disabled \ {b} /\ touched' = (currentlyClicking # None)
  BY DEF Enable
<1>2. End(checked[b]) \in {0, RightSide} /\ End(checked[b]) # -1
  <2>1. checked[b] \in BOOLEAN
    BY DEF IInv, TypeOK, SwitchOK
  <2> QED BY <2>1, Sides
<1>3. CASE b \in styled
  <2>1. target' = [target EXCEPT ![b] = End(checked[b])] /\ stray' = stray \ {b}
    BY <1>3 DEF Enable
  <2>2. SwitchOK'
    BY <1>1, <1>2, <2>1 DEF IInv, TypeOK, SwitchOK
  <2>3. target'[b] = End(checked[b]) /\ \A c \in Box \ {b} : target'[c] = target[c]
    BY <2>1 DEF IInv, TypeOK, SwitchOK
  <2>4. Agreeing'
    <3>1. Agrees(b)' /\ \A c \in Box \ {b} : Agrees(c) => Agrees(c)'
      BY <1>1, <1>2, <2>3 DEF Agrees
    <3>2. \A c \in styled \ (disabled' \cup stray') : ~Held(c)' => Agrees(c)'
      BY <1>1, <2>1, <3>1, AgreesIs DEF IInv, TypeOK, SwitchOK, Held, class
    <3> QED BY <1>1, <3>2 DEF Agreeing, Agrees
  <2>5. Unanimated'
    BY <1>1, <1>3, <2>3 DEF IInv, Unanimated
  <2> QED BY <1>1, <2>1, <2>2, <2>4, <2>5, TouchKeeps DEF IInv, TypeOK
<1>4. CASE b \notin styled
  <2>1. target' = target /\ stray' = stray
    BY <1>4 DEF Enable
  <2>2. SwitchOK'
    BY <1>1, <2>1 DEF IInv, TypeOK, SwitchOK
  <2>3. Agreeing' /\ Unanimated'
    BY <1>1, <1>4, <2>1 DEF IInv, Agreeing, Unanimated, Held, class
  <2> QED BY <1>1, <2>1, <2>2, <2>3, TouchKeeps DEF IInv, TypeOK
<1> QED BY <1>3, <1>4

-----------------------------------------------------------------------------

LEMMA NextKeeps == IInv /\ [Next]_vars => IInv'
<1> SUFFICES ASSUME IInv, [Next]_vars PROVE IInv'
  OBVIOUS
<1>1. ASSUME NEW b \in Box, \/ Style(b) \/ Press(b) \/ PressDisabled(b)
                            \/ AnimationEnds(b) \/ Change(b) \/ Disable(b) \/ Enable(b)
      PROVE  IInv'
  BY <1>1, StyleKeeps, PressKeeps, PressDisabledKeeps, AnimationEndsKeeps, ChangeKeeps,
     DisableKeeps, EnableKeeps
<1>2. ASSUME NEW x \in 0..PageWidth, Move(x) PROVE IInv'
  BY <1>2, MoveKeeps
<1>3. CASE ReleaseHeard \/ ReleaseUnheard
  BY <1>3, ReleaseHeardKeeps, ReleaseUnheardKeeps
<1>4. CASE ReleaseFails \/ Cancel
  BY <1>4, ReleaseFailsKeeps, CancelKeeps
<1>5. CASE UNCHANGED vars
  <2>1. UNCHANGED class /\ UNCHANGED switch /\ UNCHANGED mouse /\ UNCHANGED down /\ UNCHANGED history
    BY <1>5 DEF vars
  <2>2. ClassOK' /\ SwitchOK' /\ HistoryOK'
    BY <2>1 DEF IInv, TypeOK, ClassOK, SwitchOK, HistoryOK, class, switch, history
  <2>3. Rest' /\ Agreeing' /\ DragHasReason' /\ Unanimated' /\ Carried'
    BY <2>1 DEF IInv, Rest, Agreeing, Held, DragHasReason, Unanimated, Carried,
                class, switch, history
  <2> QED BY <2>2, <2>3 DEF IInv, TypeOK
<1> QED BY <1>1, <1>2, <1>3, <1>4, <1>5 DEF Next

LEMMA Always == Spec => []IInv
<1>1. Init => IInv
  BY Initially
<1>2. IInv /\ [Next]_vars => IInv'
  BY NextKeeps
<1> QED BY <1>1, <1>2, PTL DEF Spec

\* The handlers for moves and releases go only with a release that is heard of
\* by the switch that was pressed, or by others.
LEMMA HandlersGo ==
  ASSUME IInv, [Next]_vars, listening # {}, listening' = {}
  PROVE  ReleaseHeard \/ ReleaseUnheard
<1>1. ASSUME NEW b \in Box, \/ Style(b) \/ Press(b) \/ PressDisabled(b)
                            \/ AnimationEnds(b) \/ Change(b) \/ Disable(b) \/ Enable(b)
      PROVE  FALSE
  BY <1>1 DEF Style, Press, PressDisabled, AnimationEnds, Change, Disable, Enable
<1>2. ASSUME NEW x \in 0..PageWidth, Move(x) PROVE FALSE
  BY <1>2 DEF Move
<1>3. CASE ReleaseFails \/ Cancel
  BY <1>3 DEF ReleaseFails, Cancel, switch
<1>4. CASE UNCHANGED vars
  BY <1>4 DEF vars, switch
<1> QED BY <1>1, <1>2, <1>3, <1>4 DEF Next

\* What a release makes of the switch that hears of it.
LEMMA HeardSets ==
  ASSUME IInv, [Next]_vars, NEW b \in Box, Heard(b)
  PROVE  /\ ~dragging => checked'[b] = ~checked[b]
         /\ dragging => checked'[b] = (2 * (mouse - dragStartPosition) >= RightSide)
         /\ mouse > 0
<1>1. listening # {} /\ listening' = {} /\ b = currentlyClicking /\ b \in listening \ disabled
  BY DEF Heard
<1>2. ReleaseHeard
  BY <1>1, HandlersGo DEF ReleaseUnheard
<1>3. mouse > 0
  BY <1>1, <1>2, ToggleAssumption DEF ReleaseHeard, Release
<1>4. checked' = [checked EXCEPT ![b] = IF dragging THEN 2 * (mouse - dragStartPosition) >= RightSide
                                        ELSE ~checked[b]]
  BY <1>1, <1>2 DEF ReleaseHeard
<1>5. checked'[b] = IF dragging THEN 2 * (mouse - dragStartPosition) >= RightSide ELSE ~checked[b]
  BY <1>4 DEF IInv, TypeOK, SwitchOK
<1> QED BY <1>3, <1>5

-----------------------------------------------------------------------------
(***************************************************************************)
(* The theorems.                                                           *)
(***************************************************************************)

\* Types; handles stay in their containers.
THEOREM TypeCorrect == Spec => []TypeOK
<1>1. IInv => TypeOK
  BY DEF IInv
<1> QED BY <1>1, Always, PTL

-----------------------------------------------------------------------------
(***************************************************************************)
(* What lost releases leave behind.                                        *)
(***************************************************************************)

Costs == IsFiniteSet(Midway) /\ Cardinality(Midway) <= losses

\* Only a lost release leaves a switch midway: the one that was pressed.
LEMMA MidwayStep ==
  ASSUME TypeOK, [Next]_vars
  PROVE  \/ Midway' \subseteq Midway /\ losses' = losses
         \/ Midway' \subseteq Midway \cup {currentlyClicking} /\ losses' = losses + 1
<1> USE DEF Midway, Held
<1>0. stray \subseteq Box /\ currentlyClicking \in Box \cup {None} /\ None \notin Box
  BY ToggleAssumption DEF TypeOK, HistoryOK, ClassOK
<1>1. ASSUME UNCHANGED <<currentlyClicking, listening, down, losses>>, stray' \subseteq stray
      PROVE  Midway' \subseteq Midway /\ losses' = losses
  BY <1>1
<1>2. ASSUME NEW b \in Box, Press(b)
      PROVE  Midway' \subseteq Midway /\ losses' = losses
  <2>1. \A c \in Box : ~(Held(c)' /\ down' # c)
    BY <1>2 DEF Press
  <2>2. listening \cap {currentlyClicking} \subseteq Midway
    BY <1>0, <1>2 DEF Press, TypeOK, SwitchOK
  <2>3. stray' \subseteq stray \cup (listening \cap {currentlyClicking}) /\ losses' = losses
    BY <1>2 DEF Press
  <2> QED BY <2>1, <2>2, <2>3
<1>3. ASSUME NEW b \in Box, PressDisabled(b)
      PROVE  Midway' \subseteq Midway /\ losses' = losses
  BY <1>0, <1>3 DEF PressDisabled, class, history
<1>4. ASSUME NEW b \in Box, NEW on, DidChange(b, on)
      PROVE  stray' \subseteq stray
  BY <1>4 DEF DidChange
<1>5. CASE ReleaseHeard \/ ReleaseUnheard
  <2>1. listening' = {} /\ losses' = losses
    BY <1>5 DEF ReleaseHeard, ReleaseUnheard, Release
  <2>2. stray' \subseteq stray
    <3>1. CASE ReleaseHeard
      <4>1. currentlyClicking \in Box
        BY <3>1 DEF ReleaseHeard, TypeOK, SwitchOK
      <4> QED BY <1>4, <3>1, <4>1 DEF ReleaseHeard
    <3>2. CASE ReleaseUnheard
      BY <3>2 DEF ReleaseUnheard
    <3> QED BY <1>5, <3>1, <3>2
  <2> QED BY <2>1, <2>2
<1>6. CASE ReleaseFails \/ Cancel
  BY <1>0, <1>6 DEF ReleaseFails, Cancel, class, switch
<1>7. ASSUME NEW b \in Box, Style(b) \/ AnimationEnds(b) \/ Change(b) \/ Disable(b) \/ Enable(b)
      PROVE  Midway' \subseteq Midway /\ losses' = losses
  <2>1. UNCHANGED <<currentlyClicking, listening, down, losses>>
    BY <1>7 DEF Style, AnimationEnds, Change, Disable, Enable, class, history
  <2>2. stray' \subseteq stray
    BY <1>4, <1>7 DEF Style, AnimationEnds, Change, Disable, Enable, history
  <2> QED BY <1>1, <2>1, <2>2
<1>8. ASSUME NEW x \in 0..PageWidth, Move(x)
      PROVE  Midway' \subseteq Midway /\ losses' = losses
  BY <1>1, <1>8 DEF Move
<1>9. CASE UNCHANGED vars
  BY <1>1, <1>9 DEF vars, class, switch, history
<1> QED BY <1>2, <1>3, <1>5, <1>6, <1>7, <1>8, <1>9 DEF Next

LEMMA CostsStep == TypeOK /\ Costs /\ [Next]_vars => Costs'
<1> SUFFICES ASSUME TypeOK, Costs, [Next]_vars PROVE Costs'
  OBVIOUS
<1>0. losses \in Nat /\ Cardinality(Midway) \in Nat
  BY ToggleAssumption, FS_CardinalityType DEF TypeOK, HistoryOK, Costs
<1>1. CASE Midway' \subseteq Midway /\ losses' = losses
  <2>1. IsFiniteSet(Midway') /\ Cardinality(Midway') <= Cardinality(Midway)
    BY <1>1, FS_Subset DEF Costs
  <2>2. Cardinality(Midway') \in Nat
    BY <2>1, FS_CardinalityType
  <2> QED BY <1>0, <1>1, <2>1, <2>2 DEF Costs
<1>2. CASE Midway' \subseteq Midway \cup {currentlyClicking} /\ losses' = losses + 1
  <2> DEFINE more == Midway \cup {currentlyClicking}
  <2>1. IsFiniteSet(more) /\ Cardinality(more) <= Cardinality(Midway) + 1
    BY <1>0, FS_AddElement DEF Costs
  <2>2. IsFiniteSet(Midway') /\ Cardinality(Midway') <= Cardinality(more)
    BY <1>2, <2>1, FS_Subset
  <2>3. Cardinality(Midway') \in Nat /\ Cardinality(more) \in Nat
    BY <2>1, <2>2, FS_CardinalityType
  <2> QED BY <1>0, <1>2, <2>1, <2>2, <2>3 DEF Costs
<1> QED BY <1>1, <1>2, MidwayStep

\* A switch nobody holds agrees with its checkbox unless it is disabled or was left
\* midway, and no more are left midway than releases have been lost: for any number of
\* switches, and of lost releases.
THEOREM HandlesAgree == Spec => []HandleAgrees
<1>1. Init => Costs
  <2> SUFFICES ASSUME Init PROVE Costs
    OBVIOUS
  <2>1. Midway = {} /\ losses = 0
    BY DEF Init, Midway, Held
  <2> QED BY <2>1, FS_EmptySet DEF Costs
<1>2. IInv => TypeOK /\ Agreeing
  BY DEF IInv
<1>3. TypeOK /\ Costs /\ [Next]_vars => Costs'
  BY CostsStep
<1>4. Agreeing /\ Costs => HandleAgrees
  BY DEF HandleAgrees, Costs
<1> QED BY <1>1, <1>2, <1>3, <1>4, Always, PTL DEF Spec

\* Nothing is left of a press whose release was not lost.
THEOREM NothingIsLeft == Spec => []Rest
<1>1. IInv => Rest
  BY DEF IInv
<1> QED BY <1>1, Always, PTL

\* A click toggles.
THEOREM ClicksToggle == Spec => ClickToggles
<1>1. ASSUME IInv, [Next]_vars, NEW b \in Box, Heard(b), ~moved, ~lost
      PROVE  checked'[b] = ~checked[b]
  <2>1. ~dragging
    BY <1>1 DEF IInv, DragHasReason
  <2> QED BY <1>1, <2>1, HeardSets
<1>2. IInv /\ [Next]_vars =>
        [\A b \in Box : Heard(b) /\ ~moved /\ ~lost => checked'[b] = ~checked[b]]_vars
  BY <1>1
<1> QED BY <1>2, Always, PTL DEF Spec, ClickToggles

\* The mouse changes only what was pressed.
THEOREM OnlyPressedChange == Spec => PressedOnly
<1>1. ASSUME IInv, [Next]_vars, listening # {}, listening' = {}, NEW b \in Box, checked'[b] # checked[b]
      PROVE  Heard(b)
  <2>1. ReleaseHeard
    BY <1>1, HandlersGo DEF ReleaseUnheard
  <2>2. currentlyClicking \in listening \ disabled
    BY <2>1 DEF ReleaseHeard
  <2>3. \A c \in Box : c # currentlyClicking => checked'[c] = checked[c]
    BY <2>1 DEF ReleaseHeard, IInv, TypeOK, SwitchOK
  <2> QED BY <1>1, <2>2, <2>3 DEF Heard
<1>2. IInv /\ [Next]_vars =>
        [listening # {} /\ listening' = {} =>
           \A b \in Box : checked'[b] # checked[b] => Heard(b)]_vars
  BY <1>1
<1> QED BY <1>2, Always, PTL DEF Spec, PressedOnly

\* The end of a drag decides what the drag has shown.
THEOREM DragsDecide == Spec => DragDecides
<1>1. ASSUME IInv, [Next]_vars, NEW b \in Box, Heard(b), dragging, ~touched, ~lost
      PROVE  /\ checked'[b] => 2 * left[b] >= RightSide
             /\ handleLeftOffset = 0 /\ 2 * left[b] >= RightSide => checked'[b]
  <2>1. mouse > 0 /\ checked'[b] = (2 * (mouse - dragStartPosition) >= RightSide)
    BY <1>1, HeardSets
  <2>2. b = currentlyClicking /\ b \in listening \ disabled
    BY <1>1 DEF Heard
  <2>3. left[b] = Clamp(mouse + handleLeftOffset - dragStartPosition)
    BY <1>1, <2>1, <2>2 DEF IInv, Carried
  <2>4. mouse \in Nat /\ handleLeftOffset \in Nat /\ dragStartPosition \in Nat
    <3>1. handleLeftOffset \in Nat /\ dragStartPosition \in Nat
      BY <1>1, Sides DEF IInv, TypeOK, ClassOK
    <3>2. mouse \in Nat
      BY <1>1 DEF IInv, TypeOK, HistoryOK
    <3> QED BY <3>1, <3>2
  <2>5. 2 * (mouse - dragStartPosition) >= RightSide => 2 * left[b] >= RightSide
    BY <2>3, <2>4, Sides DEF Clamp
  <2>6. handleLeftOffset = 0 /\ 2 * left[b] >= RightSide => 2 * (mouse - dragStartPosition) >= RightSide
    BY <2>3, <2>4, Sides DEF Clamp
  <2> QED BY <2>1, <2>5, <2>6
<1>2. IInv /\ [Next]_vars =>
        [\A b \in Box : Heard(b) /\ dragging /\ target[b] = -1 /\ ~touched /\ ~lost =>
           /\ checked'[b] => 2 * left[b] >= RightSide
           /\ handleLeftOffset = 0 /\ 2 * left[b] >= RightSide => checked'[b]]_vars
  BY <1>1
<1> QED BY <1>2, Always, PTL DEF Spec, DragDecides
=============================================================================
