------------------------------- MODULE Toggle -------------------------------
(***************************************************************************)
(* The switches that a page makes of its checkboxes                        *)
(* (etc/js/jquery.iphone.toggle.js).  Each has a handle that is clicked or *)
(* dragged; the mouse is followed with handlers on the document, and what  *)
(* is pressed is kept in variables of the class that all switches share.   *)
(*                                                                         *)
(* An action is a whole event handler: the page runs one at a time.  A     *)
(* touch screen may cancel a touch, and the code does not listen to that:  *)
(* the release is lost (Cancel).  A mouse event at pageX = 0 is taken for  *)
(* a touch without coordinates, and its handler ends in a TypeError before *)
(* it has done anything: that release is lost as well.  (A touch there has *)
(* its coordinates, and is left out.)  So are all releases that go to a    *)
(* disabled switch, which a script may make of any (Disable).              *)
(*                                                                         *)
(* Labels follow the handle and are left out, as are the picture of the    *)
(* handle between the ends of an animation, and a second finger.           *)
(***************************************************************************)
EXTENDS Integers, FiniteSets

CONSTANTS
  Box,              \* the checkboxes
  None,             \* no box
  OnLabel, OffLabel,\* widths of the two labels
  HandleMargin,     \* the options of the same names
  ContainerRadius,
  DragThreshold,
  PageWidth,        \* bound: the mouse is at 0..PageWidth
  MaxLost           \* bound: releases that no handler sees

ASSUME ToggleAssumption ==
  /\ None \notin Box
  /\ OnLabel \in Nat /\ OffLabel \in Nat /\ PageWidth \in Nat \ {0} /\ MaxLost \in Nat
  /\ HandleMargin \in Nat /\ ContainerRadius \in Nat /\ DragThreshold \in Nat
  /\ HandleMargin > ContainerRadius + 1

VARIABLES
  \* --- of the class
  currentlyClicking, dragging,
  dragStartPosition, handleLeftOffset,  \* 0 when nothing is pressed: of no use
  \* --- of each switch
  styled,      \* it has been made a switch
  checked, disabled,
  left,        \* the position of the handle
  target,      \* where an animation will have put the handle, or -1
  listening,   \* its handlers for moves and releases are on the document
  \* --- of the world
  mouse,       \* where the mouse, or the finger, was last
  down,        \* the box it was pressed on and has not been released from
  \* --- history
  touched,     \* since the press a script or an animation has set a switch
  moved,       \* since the press it has been further away than the threshold
  lost,        \* the last release has not reached the switch that was pressed
  losses,      \* releases that no handler has seen
  stray        \* switches pressed, given up for another without a release, and
               \*   not set since

class   == <<currentlyClicking, dragging, dragStartPosition, handleLeftOffset>>
switch  == <<styled, checked, disabled, left, target, listening>>
history == <<touched, moved, lost, losses, stray>>
vars    == <<class, switch, mouse, down, history>>

-----------------------------------------------------------------------------
(***************************************************************************)
(* optionallyResize and initialPosition: the way of the handle.            *)
(***************************************************************************)
Wider(a, b) == IF a > b THEN a ELSE b

HandleWidth == Wider(OnLabel, OffLabel)

ContainerWidth == Wider(OnLabel, OffLabel) + HandleWidth + HandleMargin

RightSide == ContainerWidth - HandleWidth - (ContainerRadius + 1)

End(on) == IF on THEN RightSide ELSE 0

Init ==
  /\ currentlyClicking = None /\ dragging = FALSE
  /\ dragStartPosition = 0 /\ handleLeftOffset = 0
  /\ styled = {}
  /\ checked \in [Box -> BOOLEAN] /\ disabled \in SUBSET Box
  /\ left = [b \in Box |-> 0] /\ target = [b \in Box |-> -1]
  /\ listening = {} /\ mouse = 1 /\ down = None
  /\ touched = FALSE /\ moved = FALSE /\ lost = FALSE /\ losses = 0 /\ stray = {}

\* $.fn.iphoneStyle for a page that has the box for the first time; where it
\* is a switch already, a call without a method's name does nothing.
Style(b) ==
  /\ b \notin styled /\ styled' = styled \cup {b}
  /\ left' = [left EXCEPT ![b] = End(checked[b])]
  /\ UNCHANGED <<class, checked, disabled, target, listening, mouse, down, history>>

-----------------------------------------------------------------------------
Far(x) == x - dragStartPosition > DragThreshold \/ dragStartPosition - x > DragThreshold

\* Mutant: the test p > 1 is gone.
ClampLeft(p) == IF p < 0 THEN 0 ELSE p

Clamp(p) == IF p < 0 THEN 0 ELSE IF p > RightSide THEN RightSide ELSE p

\* The css property left, which may be found in the middle of animations.
LeftValues(b) == IF target[b] = -1 THEN {left[b]} ELSE 0..RightSide

\* didChange, and with it refresh: where the handle has to go.
DidChange(b, on) ==
  \/ /\ b \in disabled \/ b \notin styled
     /\ UNCHANGED <<target, stray>>
  \/ /\ b \in styled \ disabled
     /\ target' = [target EXCEPT ![b] = End(on)] /\ stray' = stray \ {b}

(***************************************************************************)
(* mousedown or touchstart on the container.  The handlers go on the       *)
(* document even if the switch is disabled.                                *)
(***************************************************************************)
PressDisabled(b) ==
  /\ down = None /\ b \in styled \cap disabled
  /\ down' = b /\ listening' = listening \cup {b}
  /\ UNCHANGED <<class, styled, checked, disabled, left, target, mouse, history>>

Press(b) ==
  /\ down = None /\ b \in styled \ disabled /\ mouse > 0
  /\ down' = b /\ listening' = listening \cup {b}
  /\ currentlyClicking' = b /\ dragStartPosition' = mouse
  /\ handleLeftOffset' \in LeftValues(b)
  /\ touched' = FALSE /\ moved' = FALSE
  /\ stray' = stray \cup ((listening \cap {currentlyClicking}) \ {b})
  /\ UNCHANGED <<dragging, styled, checked, disabled, left, target, mouse, lost, losses>>

(***************************************************************************)
(* mousemove or touchmove, for every switch that listens.                  *)
(***************************************************************************)
Followed(x) == x > 0 /\ currentlyClicking \in listening \ disabled

\* Mutant: every switch that listens follows the mouse.
MoveAll(x) ==
  /\ mouse' = x
  /\ dragging' = (\/ dragging
                  \/ x > 0 /\ currentlyClicking # None /\ listening \ disabled # {} /\ Far(x))
  /\ left' = [b \in Box |->
       IF x > 0 /\ b \in listening \ disabled
       THEN Clamp(x + handleLeftOffset - dragStartPosition) ELSE left[b]]
  /\ moved' = (moved \/ (currentlyClicking # None /\ Far(x)))
  /\ UNCHANGED <<currentlyClicking, dragStartPosition, handleLeftOffset, styled, checked,
                 disabled, target, listening, down, touched, lost, losses, stray>>

Move(x) ==
  /\ mouse' = x
  /\ dragging' = (\/ dragging
                  \/ x > 0 /\ currentlyClicking # None /\ listening \ disabled # {} /\ Far(x))
  /\ left' = [b \in Box |->
       IF Followed(x) /\ b = currentlyClicking
       THEN Clamp(x + handleLeftOffset - dragStartPosition) ELSE left[b]]
  /\ moved' = (moved \/ (currentlyClicking # None /\ Far(x)))
  /\ UNCHANGED <<currentlyClicking, dragStartPosition, handleLeftOffset, styled, checked,
                 disabled, target, listening, down, touched, lost, losses, stray>>

(***************************************************************************)
(* mouseup or touchend anywhere in the page.  All that listen take their   *)
(* handlers away, unless the first of them fails at pageX = 0.             *)
(***************************************************************************)
Release ==
  /\ listening # {} /\ listening' = {} /\ down' = None
  /\ mouse > 0 \/ currentlyClicking = None
  /\ touched' = FALSE /\ moved' = FALSE
  /\ UNCHANGED <<styled, disabled, left, mouse, losses>>

\* Mutant: dragging is not reset.
ReleaseHeardDragging ==
  LET b == currentlyClicking
      on == IF dragging THEN 2 * (mouse - dragStartPosition) >= RightSide ELSE ~checked[b]
  IN
  /\ Release /\ b \in listening \ disabled
  /\ checked' = [checked EXCEPT ![b] = on] /\ DidChange(b, on)
  /\ currentlyClicking' = None /\ UNCHANGED dragging
  /\ dragStartPosition' = 0 /\ handleLeftOffset' = 0
  /\ lost' = FALSE

\* Mutant: where the drag began is not taken into account.
ReleaseHeardAbsolute ==
  LET b == currentlyClicking
      on == IF dragging THEN 2 * mouse >= RightSide ELSE ~checked[b]
  IN
  /\ Release /\ b \in listening \ disabled
  /\ checked' = [checked EXCEPT ![b] = on] /\ DidChange(b, on)
  /\ currentlyClicking' = None /\ dragging' = FALSE
  /\ dragStartPosition' = 0 /\ handleLeftOffset' = 0
  /\ lost' = FALSE

\* The switch that was pressed hears of it.
ReleaseHeard ==
  LET b == currentlyClicking
      on == IF dragging THEN 2 * (mouse - dragStartPosition) >= RightSide ELSE ~checked[b]
  IN
  /\ Release /\ b \in listening \ disabled
  /\ checked' = [checked EXCEPT ![b] = on] /\ DidChange(b, on)
  /\ currentlyClicking' = None /\ dragging' = FALSE
  /\ dragStartPosition' = 0 /\ handleLeftOffset' = 0
  /\ lost' = FALSE

\* It does not, or none was.
ReleaseUnheard ==
  /\ Release /\ currentlyClicking \notin listening \ disabled
  /\ lost' = (currentlyClicking # None)
  /\ UNCHANGED <<class, checked, target, stray>>

ReleaseFails ==
  /\ listening # {} /\ mouse = 0 /\ currentlyClicking # None
  /\ losses < MaxLost /\ losses' = losses + 1
  /\ down' = None /\ lost' = TRUE
  /\ UNCHANGED <<class, switch, mouse, touched, moved, stray>>

\* A touch is cancelled: no handler is bound to that.
Cancel ==
  /\ losses < MaxLost /\ losses' = losses + 1
  /\ down # None /\ down' = None /\ lost' = TRUE
  /\ UNCHANGED <<class, switch, mouse, touched, moved, stray>>

AnimationEnds(b) ==
  /\ target[b] # -1
  /\ left' = [left EXCEPT ![b] = target[b]] /\ target' = [target EXCEPT ![b] = -1]
  /\ touched' = (currentlyClicking # None)
  /\ UNCHANGED <<class, styled, checked, disabled, listening, mouse, down, moved, lost, losses, stray>>

-----------------------------------------------------------------------------
(***************************************************************************)
(* The keyboard, or a script that then calls refresh, sets the checkbox,   *)
(* or disables or enables it.                                              *)
(***************************************************************************)
Change(b) ==
  /\ checked' = [checked EXCEPT ![b] = ~@] /\ DidChange(b, ~checked[b])
  /\ touched' = (currentlyClicking # None)
  /\ UNCHANGED <<class, styled, disabled, left, listening, mouse, down, moved, lost, losses>>

Disable(b) ==
  /\ b \notin disabled /\ disabled' = disabled \cup {b} /\ touched' = (currentlyClicking # None)
  /\ UNCHANGED <<class, styled, checked, left, target, listening, mouse, down, moved, lost, losses, stray>>

Enable(b) ==
  /\ b \in disabled /\ disabled' = disabled \ {b} /\ touched' = (currentlyClicking # None)
  /\ \/ /\ b \in styled
        /\ target' = [target EXCEPT ![b] = End(checked[b])] /\ stray' = stray \ {b}
     \/ b \notin styled /\ UNCHANGED <<target, stray>>
  /\ UNCHANGED <<class, styled, checked, left, listening, mouse, down, moved, lost, losses>>

Next ==
  \/ \E b \in Box : \/ Style(b) \/ Press(b) \/ PressDisabled(b)
                    \/ AnimationEnds(b) \/ Change(b) \/ Disable(b) \/ Enable(b)
  \/ \E x \in 0..PageWidth : Move(x)
  \/ ReleaseHeard \/ ReleaseUnheard \/ ReleaseFails \/ Cancel

Spec == Init /\ [][Next]_vars
-----------------------------------------------------------------------------
(***************************************************************************)
(* Properties.                                                             *)
(***************************************************************************)

ClassOK ==
  /\ currentlyClicking \in Box \cup {None} /\ dragging \in BOOLEAN
  /\ dragStartPosition \in 0..PageWidth /\ handleLeftOffset \in 0..RightSide

SwitchOK ==
  /\ styled \subseteq Box /\ disabled \subseteq Box /\ listening \subseteq styled
  /\ checked \in [Box -> BOOLEAN]
  /\ left \in [Box -> 0..RightSide] /\ target \in [Box -> {-1, 0, RightSide}]

HistoryOK ==
  /\ mouse \in 0..PageWidth /\ down \in Box \cup {None}
  /\ touched \in BOOLEAN /\ moved \in BOOLEAN /\ lost \in BOOLEAN
  /\ losses \in 0..MaxLost /\ stray \subseteq Box

\* Types; the handle stays in its container.
TypeOK == ClassOK /\ SwitchOK /\ HistoryOK

Held(b) == currentlyClicking = b /\ b \in listening

\* Switches a lost release has left midway: the one whose handlers still wait for it,
\* and those given up since for another.  Nothing but a click, a script or Enable puts
\* them right.
Midway == stray \cup {b \in Box : Held(b) /\ down # b}

Agreeing ==
  \A b \in styled \ (disabled \cup stray) : ~Held(b) =>
    IF target[b] = -1 THEN left[b] = End(checked[b]) ELSE target[b] = End(checked[b])

\* A switch that is neither disabled nor held, nor left midway, shows what its
\* checkbox says or is on its way there, whichever order clicks, drags, scripts and
\* animations come in; and a release that is lost leaves one switch midway at most,
\* whatever is pressed after it.
HandleAgrees == Agreeing /\ Cardinality(Midway) <= losses

\* With the button up, and no release lost, nothing of the last press is left
\* in the variables all switches share or on the document.
Rest ==
  down = None /\ ~lost => currentlyClicking = None /\ ~dragging /\ listening = {}

Heard(b) == currentlyClicking = b /\ b \in listening \ disabled /\ listening' = {}

\* A click, a press and a release without a drag between them, toggles.  What
\* is left of an earlier press must not turn it into a drag.
ClickToggles ==
  [][\A b \in Box : Heard(b) /\ ~moved /\ ~lost => checked'[b] = ~checked[b]]_vars

\* The mouse changes no switch but the one that was pressed last, and none
\* that is disabled.
PressedOnly ==
  [][listening # {} /\ listening' = {} =>
       \A b \in Box : checked'[b] # checked[b] => Heard(b)]_vars

\* onDragEnd decides what onDragMove has shown: a drag leaves a switch on only
\* with the handle in the right half, and always does if it began on the left.
\* (From the right end it switches off wherever the handle is let go.)
DragDecides ==
  [][\A b \in Box : Heard(b) /\ dragging /\ target[b] = -1 /\ ~touched /\ ~lost =>
       /\ checked'[b] => 2 * left[b] >= RightSide
       /\ handleLeftOffset = 0 /\ 2 * left[b] >= RightSide => checked'[b]]_vars
=============================================================================
