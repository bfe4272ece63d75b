----------------------------- MODULE NotyProofs -----------------------------
(***************************************************************************)
(* Theorems about Noty, for every set of notes, however they are laid out. *)
(* Show and Render are given the stages of the notes before, st, and the   *)
(* queue and the place as they find them; so are the parts of the          *)
(* invariant here, which are then proved once for all their callers.       *)
(***************************************************************************)
EXTENDS Noty, FiniteSetTheorems, TLAPS

Visible(st)  == {n \in Note : st[n] \in {"open", "closing"}}
Bars(st)     == Visible(st) \ Growl

\* As Before, and whether m goes before n in the queue, when a has been asked.
BeforeIn(a, m, n) == \E j, k \in 1..Len(a) : j < k /\ a[j] = m /\ a[k] = n

Precedes(a, m, n) ==
  \/ m \in Forced /\ (n \in Forced => BeforeIn(a, n, m))
  \/ n \notin Forced /\ BeforeIn(a, m, n)

(***************************************************************************)
(* The inductive invariant.                                                *)
(***************************************************************************)

\* The queue, as in QueueOK.
Waits(q, st) ==
  /\ q \in Seq(Note \ Growl)
  /\ \A n \in Note : st[n] = "waiting" <=> \E k \in 1..Len(q) : q[k] = n
  /\ \A j, k \in 1..Len(q) : q[j] = q[k] => j = k

InTurn(a, q) == \A j, k \in 1..Len(q) : j < k => Precedes(a, q[j], q[k])

\* The place, as in TurnTaken.
Place(free, st) ==
  /\ free <=> Bars(st) = {}
  /\ \A m, n \in Bars(st) : m = n

Handled(st) == \A n \in Visible(st) : current[host[n]] = n
Covered(st) == \A n \in Note : overlay[n] = "over" => n \in Modal /\ st[n] = "open"

\* A growl is shown by its own base, which shows nothing else.
Kinds ==
  \A n \in Note : /\ n \in Growl => host[n] = n
                  /\ n \notin Growl => host[n] \notin Growl

\* Who waits has asked.
Asked == \A n \in Note : stage[n] = "waiting" => \E k \in 1..Len(asked) : asked[k] = n

IInv ==
  /\ TypeOK /\ InTurn(asked, queue) /\ Place(available, stage)
  /\ NoneStranded /\ Handled(stage) /\ Covered(stage)
  /\ Kinds /\ Asked

-----------------------------------------------------------------------------

LEMMA Initially == Init => IInv
<1> SUFFICES ASSUME Init PROVE IInv
  OBVIOUS
<1> USE NotyAssumption
<1>1. BarsOK /\ QueueOK
  BY DEF Init, BarsOK, QueueOK, Stages
<1>2. CallsOK
  BY DEF Init, CallsOK
<1>3. available \in BOOLEAN
  BY Zenon DEF Init
<1>4. InTurn(asked, queue) /\ NoneStranded
  BY DEF Init, InTurn, NoneStranded
<1>5. Visible(stage) = {}
  BY DEF Init, Visible
<1>6. Place(available, stage)
  <2>1. available = TRUE
    BY DEF Init
  <2> QED BY <1>5, <2>1 DEF Place, Bars
<1>7. Handled(stage) /\ Covered(stage) /\ Kinds /\ Asked
  BY <1>5 DEF Init, Handled, Covered, Kinds, Asked
<1> QED BY <1>1, <1>2, <1>3, <1>4, <1>6, <1>7 DEF IInv, TypeOK

-----------------------------------------------------------------------------
(***************************************************************************)
(* Showing a note.                                                         *)
(***************************************************************************)

LEMMA ShowStep ==
  ASSUME BarsOK, Kinds, NEW b \in Note, NEW n \in Note, NEW st \in [Note -> Stages],
         n \notin Visible(st), n \in Growl => b = n, n \notin Growl => b \notin Growl,
         \A m \in Visible(st) : host[m] # b,
         Handled(st), Covered(st), Show(b, n, st)
  PROVE  /\ BarsOK' /\ Kinds' /\ Handled(stage)' /\ Covered(stage)'
         /\ stage'[n] = "open" /\ \A m \in Note \ {n} : stage'[m] = st[m]
         /\ Visible(stage)' = Visible(st) \cup {n}
<1>0. stage'[n] = "open" /\ \A m \in Note \ {n} : stage'[m] = st[m]
  BY DEF Show
<1>1. BarsOK'
  BY DEF Show, BarsOK, Stages
<1>2. Kinds'
  BY DEF Show, BarsOK, Kinds
<1>3. Visible(stage)' = Visible(st) \cup {n}
  BY <1>0 DEF Visible
<1>4. Handled(stage)'
  <2> SUFFICES ASSUME NEW m \in Note, m \in Visible(stage)'
               PROVE  current'[host'[m]] = m
    BY DEF Handled, Visible
  <2>1. CASE m = n
    BY <2>1 DEF Show, BarsOK
  <2>2. CASE m # n
    <3>1. m \in Visible(st) /\ host[m] # b /\ host[m] \in Note
      BY <1>3, <2>2 DEF BarsOK
    <3>2. host'[m] = host[m] /\ current'[host[m]] = current[host[m]]
      BY <2>2, <3>1 DEF Show, BarsOK
    <3> QED BY <3>1, <3>2 DEF Handled
  <2> QED BY <2>1, <2>2
<1>5. Covered(stage)'
  <2> SUFFICES ASSUME NEW m \in Note, overlay'[m] = "over"
               PROVE  m \in Modal /\ stage'[m] = "open"
    BY DEF Covered
  <2>1. CASE m = n
    <3>1. n \in Modal
      <4> SUFFICES ASSUME n \notin Modal PROVE FALSE
        OBVIOUS
      <4>1. overlay'[n] = overlay[n]
        BY DEF Show, BarsOK
      <4>2. st[n] = "open"
        BY <2>1, <4>1 DEF Covered
      <4> QED BY <4>2 DEF Visible
    <3> QED BY <1>0, <2>1, <3>1
  <2>2. CASE m # n
    BY <1>0, <2>2 DEF Show, BarsOK, Covered
  <2> QED BY <2>1, <2>2
<1> QED BY <1>0, <1>1, <1>2, <1>3, <1>4, <1>5

\* The head of the queue leaves it.
LEMMA TailWaits ==
  ASSUME NEW a, NEW q, NEW st \in [Note -> Stages], NEW st2 \in [Note -> Stages],
         Waits(q, st), q # <<>>, InTurn(a, q),
         st2[Head(q)] = "open", \A m \in Note \ {Head(q)} : st2[m] = st[m]
  PROVE  Waits(Tail(q), st2) /\ InTurn(a, Tail(q)) /\ Head(q) \in Note \ Growl
         /\ st[Head(q)] = "waiting"
<1>0. /\ q \in Seq(Note \ Growl) /\ Tail(q) \in Seq(Note \ Growl)
      /\ Len(q) \in Nat \ {0} /\ Len(Tail(q)) = Len(q) - 1 /\ Head(q) = q[1]
      /\ \A i \in 1..Len(Tail(q)) : Tail(q)[i] = q[i + 1]
      /\ q[1] \in Note \ Growl
  BY DEF Waits
<1>1. InTurn(a, Tail(q))
  BY <1>0 DEF InTurn
<1>2. \A j, k \in 1..Len(Tail(q)) : Tail(q)[j] = Tail(q)[k] => j = k
  BY <1>0 DEF Waits
<1>3. st[Head(q)] = "waiting"
  BY <1>0 DEF Waits
<1>4. ASSUME NEW n \in Note
      PROVE  st2[n] = "waiting" <=> \E k \in 1..Len(Tail(q)) : Tail(q)[k] = n
  <2>1. CASE n = Head(q)
    <3>1. ~ \E k \in 1..Len(Tail(q)) : Tail(q)[k] = n
      BY <1>0, <2>1 DEF Waits
    <3> QED BY <2>1, <3>1
  <2>2. CASE n # Head(q)
    <3>1. st2[n] = "waiting" <=> \E k \in 1..Len(q) : q[k] = n
      BY <2>2 DEF Waits
    <3>2. ASSUME NEW k \in 1..Len(q), q[k] = n
          PROVE  \E i \in 1..Len(Tail(q)) : Tail(q)[i] = n
      <4>1. k # 1 /\ k - 1 \in 1..Len(Tail(q))
        BY <1>0, <2>2, <3>2
      <4>2. Tail(q)[k - 1] = q[(k - 1) + 1] /\ (k - 1) + 1 = k
        BY <1>0, <4>1
      <4> QED BY <3>2, <4>1, <4>2
    <3>3. ASSUME NEW i \in 1..Len(Tail(q)), Tail(q)[i] = n
          PROVE  \E k \in 1..Len(q) : q[k] = n
      BY <1>0, <3>3
    <3> QED BY <3>1, <3>2, <3>3
  <2> QED BY <2>1, <2>2
<1> QED BY <1>0, <1>1, <1>2, <1>3, <1>4 DEF Waits

LEMMA RenderStep ==
  ASSUME BarsOK, Kinds, NEW b \in Note \ Growl, NEW a, NEW q, NEW free \in BOOLEAN,
         NEW st \in [Note -> Stages], Waits(q, st), InTurn(a, q), Place(free, st),
         Handled(st), Covered(st), Render(b, q, free, st)
  PROVE  /\ BarsOK' /\ Kinds' /\ available' \in BOOLEAN /\ NoneStranded'
         /\ Handled(stage)' /\ Covered(stage)' /\ Place(available, stage)'
         /\ Waits(queue', stage') /\ InTurn(a, queue')
         /\ \A m \in Note : stage'[m] = "waiting" => st[m] = "waiting"
<1>1. CASE /\ free /\ q # <<>> /\ queue' = Tail(q) /\ available' = FALSE
           /\ Show(b, Head(q), st)
  <2> DEFINE n == Head(q)
  <2>1. n \in Note \ Growl /\ st[n] = "waiting"
    <3>1. /\ q \in Seq(Note \ Growl) /\ Len(q) \in Nat \ {0} /\ Head(q) = q[1]
          /\ q[1] \in Note \ Growl
      BY <1>1 DEF Waits
    <3> QED BY <3>1 DEF Waits
  <2>2. \A m \in Visible(st) : m \in Growl
    BY <1>1 DEF Place, Bars
  <2>3. \A m \in Visible(st) : host[m] # b
    BY <2>2 DEF Kinds, Visible
  <2>4. n \notin Visible(st)
    BY <2>1 DEF Visible
  <2>5. /\ BarsOK' /\ Kinds' /\ Handled(stage)' /\ Covered(stage)'
        /\ stage'[n] = "open" /\ \A m \in Note \ {n} : stage'[m] = st[m]
        /\ Visible(stage)' = Visible(st) \cup {n}
    BY <1>1, <2>1, <2>3, <2>4, ShowStep
  <2>6. Bars(stage)' = {n}
    BY <2>1, <2>2, <2>5 DEF Bars
  <2>7. Place(available, stage)'
    BY <1>1, <2>6 DEF Place
  <2>8. NoneStranded'
    BY <2>6 DEF NoneStranded, Shown, Bars, Visible, InPage
  <2>9. Waits(queue', stage') /\ InTurn(a, queue')
    BY <1>1, <2>5, TailWaits DEF BarsOK
  <2> QED BY <1>1, <2>5, <2>7, <2>8, <2>9
<1>2. CASE /\ ~free \/ q = <<>>
           /\ queue' = q
           /\ available' = free
           /\ stage' = st /\ UNCHANGED <<host, current, overlay>>
  <2>1. BarsOK' /\ Kinds' /\ Handled(stage)' /\ Covered(stage)'
    BY <1>2 DEF BarsOK, Kinds, Handled, Visible, Covered
  <2>2. Place(available, stage)' /\ available' \in BOOLEAN
    <3>1. Bars(stage)' = Bars(st)
      BY <1>2 DEF Bars, Visible
    <3> QED BY <1>2, <3>1, Zenon DEF Place
  <2>3. NoneStranded'
    <3>1. Shown' = Bars(st)
      BY <1>2 DEF Shown, InPage, Bars, Visible
    <3>2. q # <<>> => Bars(st) # {}
      BY <1>2, Zenon DEF Place
    <3> QED BY <1>2, <3>1, <3>2 DEF NoneStranded
  <2> QED BY <1>2, <2>1, <2>2, <2>3
<1> QED BY <1>1, <1>2 DEF Render

-----------------------------------------------------------------------------
(***************************************************************************)
(* A call.                                                                 *)
(***************************************************************************)

\* What has been asked in order remains so.
LEMMA BeforeKept ==
  ASSUME NEW a \in Seq(Note), NEW n \in Note
  PROVE  LET a2 == Append(a, n) IN
         /\ a2 \in Seq(Note)
         /\ \A l, m : BeforeIn(a, l, m) => BeforeIn(a2, l, m)
         /\ \A l, m : Precedes(a, l, m) => Precedes(a2, l, m)
         /\ \A m : (\E k \in 1..Len(a) : a[k] = m) => BeforeIn(a2, m, n)
         /\ \A m : (\E k \in 1..Len(a) : a[k] = m) \/ m = n => \E k \in 1..Len(a2) : a2[k] = m
<1> DEFINE a2 == Append(a, n)
<1>0. /\ Len(a) \in Nat /\ Len(a2) = Len(a) + 1 /\ a2[Len(a) + 1] = n
      /\ \A k \in 1..Len(a) : a2[k] = a[k]
      /\ a2 \in Seq(Note)
  OBVIOUS
<1> HIDE DEF a2
<1>1. Len(a) + 1 \in 1..Len(a2) /\ \A k \in 1..Len(a) : k \in 1..Len(a2) /\ k < Len(a) + 1
  BY <1>0
<1>2. ASSUME NEW l, NEW m, BeforeIn(a, l, m)
      PROVE  BeforeIn(a2, l, m)
  BY <1>0, <1>1, <1>2 DEF BeforeIn
<1>3. ASSUME NEW m, NEW k \in 1..Len(a), a[k] = m
      PROVE  BeforeIn(a2, m, n) /\ \E i \in 1..Len(a2) : a2[i] = m
  BY <1>0, <1>1, <1>3 DEF BeforeIn
<1>4. \A l, m : Precedes(a, l, m) => Precedes(a2, l, m)
  BY <1>2 DEF Precedes
<1>5. \E k \in 1..Len(a2) : a2[k] = n
  BY <1>0, <1>1
<1> QED BY <1>0, <1>2, <1>3, <1>4, <1>5 DEF a2

\* A note put at the head, or at the end, of the queue.
LEMMA PutFirst ==
  ASSUME NEW q \in Seq(Note \ Growl), NEW n \in Note \ Growl
  PROVE  LET q2 == <<n>> \o q IN
         /\ q2 \in Seq(Note \ Growl) /\ Len(q2) = Len(q) + 1 /\ Len(q) \in Nat /\ q2[1] = n
         /\ \A k \in 1..Len(q2) : k = 1 \/ (k - 1 \in 1..Len(q) /\ q2[k] = q[k - 1])
         /\ \A k \in 1..Len(q) : k + 1 \in 1..Len(q2) /\ q2[k + 1] = q[k]
OBVIOUS

LEMMA PutLast ==
  ASSUME NEW q \in Seq(Note \ Growl), NEW n \in Note \ Growl
  PROVE  LET q2 == Append(q, n) IN
         /\ q2 \in Seq(Note \ Growl) /\ Len(q2) = Len(q) + 1 /\ Len(q) \in Nat
         /\ q2[Len(q) + 1] = n
         /\ \A k \in 1..Len(q) : q2[k] = q[k] /\ k \in 1..Len(q2)
         /\ \A k \in 1..Len(q2) : k \in 1..Len(q) \/ k = Len(q) + 1
OBVIOUS

\* A note that asks for its turn is queued where it belongs.
LEMMA QueuedWaits ==
  ASSUME NEW q \in Seq(Note \ Growl), NEW a, NEW n \in Note \ Growl,
         NEW st \in [Note -> Stages], NEW st2 \in [Note -> Stages],
         Waits(q, st), InTurn(a, q), st[n] = "none",
         st2 = [st EXCEPT ![n] = "waiting"],
         NEW q2, q2 = IF n \in Forced THEN <<n>> \o q ELSE Append(q, n),
         \A m \in Note : st[m] = "waiting" => BeforeIn(a, m, n)
  PROVE  Waits(q2, st2) /\ InTurn(a, q2)
<1>0. /\ Len(q) \in Nat
      /\ \A k \in 1..Len(q) : q[k] \in Note
      /\ \A j, k \in 1..Len(q) : q[j] = q[k] => j = k
  BY DEF Waits
<1>1. \A k \in 1..Len(q) : q[k] # n /\ BeforeIn(a, q[k], n)
  BY <1>0 DEF Waits
<1>2. \A m \in Note : st2[m] = "waiting" <=> m = n \/ \E k \in 1..Len(q) : q[k] = m
  BY DEF Waits
<1>3. CASE n \in Forced
  <2>0. /\ q2 \in Seq(Note \ Growl) /\ Len(q2) = Len(q) + 1 /\ q2[1] = n
        /\ \A k \in 1..Len(q2) : k = 1 \/ (k - 1 \in 1..Len(q) /\ q2[k] = q[k - 1])
        /\ \A k \in 1..Len(q) : k + 1 \in 1..Len(q2) /\ q2[k + 1] = q[k]
    BY <1>3, PutFirst
  <2>1. 1 \in 1..Len(q2)
    BY <1>0, <2>0
  <2>2. \A j, k \in 1..Len(q2) : q2[j] = q2[k] => j = k
    <3> SUFFICES ASSUME NEW j \in 1..Len(q2), NEW k \in 1..Len(q2), q2[j] = q2[k]
                 PROVE  j = k
      OBVIOUS
    <3>1. CASE j = 1 \/ k = 1
      BY <1>1, <2>0, <3>1
    <3>2. CASE j # 1 /\ k # 1
      <4>1. j - 1 = k - 1
        BY <1>0, <2>0, <3>2
      <4> QED BY <4>1
    <3> QED BY <3>1, <3>2
  <2>3. InTurn(a, q2)
    <3> SUFFICES ASSUME NEW j \in 1..Len(q2), NEW k \in 1..Len(q2), j < k
                 PROVE  Precedes(a, q2[j], q2[k])
      BY DEF InTurn
    <3>1. k # 1 /\ k - 1 \in 1..Len(q) /\ q2[k] = q[k - 1]
      BY <2>0
    <3>2. CASE j = 1
      BY <1>1, <1>3, <2>0, <3>1, <3>2 DEF Precedes
    <3>3. CASE j # 1
      <4>1. j - 1 \in 1..Len(q) /\ q2[j] = q[j - 1] /\ j - 1 < k - 1
        BY <2>0, <3>3
      <4> QED BY <3>1, <4>1 DEF InTurn
    <3> QED BY <3>2, <3>3
  <2>4. \A m \in Note : m = n \/ (\E k \in 1..Len(q) : q[k] = m) <=> \E k \in 1..Len(q2) : q2[k] = m
    BY <2>0, <2>1
  <2> QED BY <1>2, <2>0, <2>2, <2>3, <2>4 DEF Waits
<1>4. CASE n \notin Forced
  <2>0. /\ q2 \in Seq(Note \ Growl) /\ Len(q2) = Len(q) + 1 /\ q2[Len(q) + 1] = n
        /\ \A k \in 1..Len(q) : q2[k] = q[k] /\ k \in 1..Len(q2)
        /\ \A k \in 1..Len(q2) : k \in 1..Len(q) \/ k = Len(q) + 1
    BY <1>4, PutLast
  <2>1. Len(q) + 1 \in 1..Len(q2)
    BY <1>0, <2>0
  <2>2. \A j, k \in 1..Len(q2) : q2[j] = q2[k] => j = k
    BY <1>0, <1>1, <2>0
  <2>3. InTurn(a, q2)
    <3> SUFFICES ASSUME NEW j \in 1..Len(q2), NEW k \in 1..Len(q2), j < k
                 PROVE  Precedes(a, q2[j], q2[k])
      BY DEF InTurn
    <3>1. j \in 1..Len(q) /\ q2[j] = q[j]
      BY <1>0, <2>0
    <3>2. CASE k \in 1..Len(q)
      BY <2>0, <3>1, <3>2 DEF InTurn
    <3>3. CASE k = Len(q) + 1
      BY <1>1, <1>4, <2>0, <3>1, <3>3 DEF Precedes
    <3> QED BY <2>0, <3>2, <3>3
  <2>4. \A m \in Note : m = n \/ (\E k \in 1..Len(q) : q[k] = m) <=> \E k \in 1..Len(q2) : q2[k] = m
    BY <2>0, <2>1
  <2> QED BY <1>2, <2>0, <2>2, <2>3, <2>4 DEF Waits
<1> QED BY <1>3, <1>4

-----------------------------------------------------------------------------

\* The parts of the invariant in the terms of its operators.
LEMMA Parts ==
  ASSUME IInv
  PROVE  /\ BarsOK /\ CallsOK /\ Kinds /\ Waits(queue, stage)
         /\ available \in BOOLEAN /\ stage \in [Note -> Stages]
BY DEF IInv, TypeOK, BarsOK, QueueOK, Waits

LEMMA Whole ==
  ASSUME BarsOK', CallsOK', Kinds', Waits(queue', stage'), available' \in BOOLEAN,
         InTurn(asked', queue'), Place(available, stage)', NoneStranded',
         Handled(stage)', Covered(stage)', Asked'
  PROVE  IInv'
BY DEF IInv, TypeOK, QueueOK, Waits

LEMMA CallStep ==
  ASSUME IInv, NEW n \in Note, Call(n)
  PROVE  IInv'
<1>0. /\ BarsOK /\ CallsOK /\ Kinds /\ Waits(queue, stage) /\ available \in BOOLEAN
      /\ stage \in [Note -> Stages] /\ asked \in Seq(Note)
      /\ InTurn(asked, queue) /\ Place(available, stage) /\ NoneStranded
      /\ Handled(stage) /\ Covered(stage) /\ Asked
  BY Parts DEF IInv, CallsOK
<1>1. stage[n] = "none" /\ asked' = Append(asked, n)
  BY DEF Call
<1>2. /\ asked' \in Seq(Note)
      /\ \A l, m : Precedes(asked, l, m) => Precedes(asked', l, m)
      /\ \A m : (\E k \in 1..Len(asked) : asked[k] = m) => BeforeIn(asked', m, n)
      /\ \A m : (\E k \in 1..Len(asked) : asked[k] = m) \/ m = n
                  => \E k \in 1..Len(asked') : asked'[k] = m
  BY <1>0, <1>1, BeforeKept
<1>3. CallsOK'
  <2>1. clock' \in 0..MaxClock
    BY <1>0, NotyAssumption DEF Call, CallsOK
  <2>2. id' \in [Note -> 0..MaxClock]
    BY <1>0, <2>1 DEF Call, CallsOK
  <2> QED BY <1>2, <2>1, <2>2 DEF CallsOK
<1>4. InTurn(asked', queue)
  BY <1>0, <1>2 DEF InTurn
<1>5. \A m \in Note : stage[m] = "waiting" => BeforeIn(asked', m, n)
  BY <1>0, <1>2 DEF Asked
<1>6. CASE n \in Growl /\ Show(n, n, stage) /\ UNCHANGED <<queue, available>>
  <2>1. n \notin Visible(stage) /\ \A m \in Visible(stage) : host[m] # n
    BY <1>0, <1>1, <1>6 DEF Visible, Kinds
  <2>2. /\ BarsOK' /\ Kinds' /\ Handled(stage)' /\ Covered(stage)'
        /\ stage'[n] = "open" /\ \A m \in Note \ {n} : stage'[m] = stage[m]
        /\ Visible(stage)' = Visible(stage) \cup {n}
    BY <1>0, <1>6, <2>1, ShowStep
  <2>3. Bars(stage)' = Bars(stage) /\ Shown' = Bars(stage) /\ Shown = Bars(stage)
    BY <1>6, <2>2 DEF Bars, Shown, InPage, Visible
  <2>4. Place(available, stage)' /\ NoneStranded'
    <3>1. Place(available, stage)'
      BY <1>0, <1>6, <2>3, Zenon DEF Place
    <3> QED BY <1>0, <1>6, <2>3, <3>1 DEF NoneStranded
  <2>5. Waits(queue, stage')
    BY <1>0, <1>1, <2>2 DEF Waits
  <2>6. Asked'
    BY <1>0, <1>2, <2>2 DEF Asked
  <2>7. available' \in BOOLEAN
    BY <1>0, <1>6, Zenon
  <2>8. queue' = queue
    BY <1>6
  <2> QED BY <1>3, <1>4, <2>8, <2>2, <2>4, <2>5, <2>6, <2>7, Whole
<1>7. CASE n \notin Growl /\ Render(n, Queued(n), available, [stage EXCEPT ![n] = "waiting"])
  <2> DEFINE st == [stage EXCEPT ![n] = "waiting"]
             q  == Queued(n)
  <2>0. st \in [Note -> Stages] /\ q = IF n \in Forced THEN <<n>> \o queue ELSE Append(queue, n)
    BY <1>0 DEF Queued, Stages
  <2>1. queue \in Seq(Note \ Growl)
    BY <1>0 DEF Waits
  <2>2. Waits(q, st) /\ InTurn(asked', q)
    BY <1>0, <1>1, <1>4, <1>5, <1>7, <2>0, <2>1, QueuedWaits
  <2>3. Visible(st) = Visible(stage) /\ Bars(st) = Bars(stage)
    BY <1>0, <1>1 DEF Visible, Bars
  <2>4. Place(available, st)
    BY <1>0, <2>3, Zenon DEF Place
  <2>5. Handled(st) /\ Covered(st)
    BY <1>0, <1>1, <2>3 DEF Handled, Covered
  <2> HIDE DEF st, q
  <2>6. /\ BarsOK' /\ Kinds' /\ available' \in BOOLEAN /\ NoneStranded'
        /\ Handled(stage)' /\ Covered(stage)' /\ Place(available, stage)'
        /\ Waits(queue', stage') /\ InTurn(asked', queue')
        /\ \A m \in Note : stage'[m] = "waiting" => st[m] = "waiting"
    <3>1. Render(n, q, available, st) /\ n \in Note \ Growl
      BY <1>7 DEF q, st
    <3> QED BY <1>0, <2>0, <2>2, <2>4, <2>5, <3>1, RenderStep
  <2>7. Asked'
    BY <1>0, <1>2, <2>6 DEF Asked, st
  <2> QED BY <1>3, <2>6, <2>7, Whole
<1> QED BY <1>6, <1>7 DEF Call

-----------------------------------------------------------------------------
(***************************************************************************)
(* Closing.                                                                *)
(***************************************************************************)

\* The bars closed are those the event has reached, and no others.
LEMMA CloseStep ==
  ASSUME IInv, NEW B \in SUBSET Note, NEW st \in [Note -> Stages],
         \A n \in Note : st[n] = stage[n] \/ (st[n] = "dropped" /\ stage[n] = "waiting"),
         CloseBars(B, st)
  PROVE  /\ stage' \in [Note -> Stages]
         /\ overlay' \in [Note -> {"none", "over", "fading"}]
         /\ \A n \in Note : stage'[n] = "waiting" <=> st[n] = "waiting"
         /\ Visible(stage)' = Visible(stage)
         /\ Covered(stage)'
<1> DEFINE closed == {current[host[n]] : n \in {b \in B : stage[b] = "open"}}
<1>0. /\ stage' = [n \in Note |-> IF n \in closed THEN "closing" ELSE st[n]]
      /\ overlay' = [n \in Note |-> IF overlay[n] = "over" /\ closed \cap Modal # {}
                                    THEN "fading" ELSE overlay[n]]
  BY DEF CloseBars
<1>1. closed = {b \in B : stage[b] = "open"}
  <2>1. \A b \in B : stage[b] = "open" => current[host[b]] = b
    BY DEF IInv, Handled, Visible
  <2> QED BY <2>1
<1> HIDE DEF closed
<1>2. \A n \in closed : n \in Note /\ stage[n] = "open" /\ st[n] = "open"
  BY <1>1
<1>3. stage' \in [Note -> Stages]
  BY <1>0 DEF Stages
<1>4. overlay' \in [Note -> {"none", "over", "fading"}]
  BY <1>0, Parts DEF BarsOK
<1>5. \A n \in Note : stage'[n] = "waiting" <=> st[n] = "waiting"
  BY <1>0, <1>2
<1>6. Visible(stage)' = Visible(stage)
  BY <1>0, <1>2 DEF Visible
<1>7. Covered(stage)'
  <2> SUFFICES ASSUME NEW n \in Note, overlay'[n] = "over"
               PROVE  n \in Modal /\ stage'[n] = "open"
    BY DEF Covered
  <2>1. overlay[n] = "over" /\ closed \cap Modal = {}
    BY <1>0
  <2>2. n \in Modal /\ stage[n] = "open"
    BY <2>1 DEF IInv, Covered
  <2> QED BY <1>0, <2>1, <2>2
<1> QED BY <1>3, <1>4, <1>5, <1>6, <1>7

\* What is left of the queue once its first k notes are dropped.
LEMMA DroppedStep ==
  ASSUME IInv, NEW k \in 0..Len(queue), NEW q, q = SubSeq(queue, k + 1, Len(queue))
  PROVE  /\ Dropped(k) \in [Note -> Stages]
         /\ Waits(q, Dropped(k)) /\ InTurn(asked, q)
         /\ \A n \in Note : \/ Dropped(k)[n] = stage[n]
                            \/ Dropped(k)[n] = "dropped" /\ stage[n] = "waiting"
         /\ q # <<>> => queue # <<>>
<1>0. /\ queue \in Seq(Note \ Growl) /\ Len(queue) \in Nat
      /\ \A n \in Note : stage[n] = "waiting" <=> \E i \in 1..Len(queue) : queue[i] = n
      /\ \A i, j \in 1..Len(queue) : queue[i] = queue[j] => i = j
      /\ stage \in [Note -> Stages]
  BY Parts DEF Waits
<1>1. \A n \in Note : Dropped(k)[n] = IF \E j \in 1..k : queue[j] = n THEN "dropped" ELSE stage[n]
  BY DEF Dropped
<1>2. Dropped(k) \in [Note -> Stages]
  BY <1>0 DEF Dropped, Stages
<1>3. \A j \in 1..k : j \in 1..Len(queue)
  BY <1>0
<1>4. /\ q \in Seq(Note \ Growl) /\ Len(q) = Len(queue) - k /\ k \in Nat
      /\ \A i \in 1..Len(q) : q[i] = queue[i + k] /\ i + k \in 1..Len(queue)
  <2>1. q \in Seq(Note \ Growl) /\ Len(q) = Len(queue) - k
    BY <1>0
  <2>2. \A i \in 1..Len(q) : q[i] = queue[i + k]
    BY <1>0, <2>1
  <2> QED BY <1>0, <2>1, <2>2
<1>5. \A i, j \in 1..Len(q) : q[i] = q[j] => i = j
  <2> SUFFICES ASSUME NEW i \in 1..Len(q), NEW j \in 1..Len(q), q[i] = q[j]
               PROVE  i = j
    OBVIOUS
  <2>1. i + k = j + k
    BY <1>0, <1>4
  <2> QED BY <1>4, <2>1
<1>6. ASSUME NEW n \in Note
      PROVE  Dropped(k)[n] = "waiting" <=> \E i \in 1..Len(q) : q[i] = n
  <2>1. ASSUME Dropped(k)[n] = "waiting"
        PROVE  \E i \in 1..Len(q) : q[i] = n
    <3>1. (~ \E j \in 1..k : queue[j] = n) /\ stage[n] = "waiting"
      BY <1>1, <2>1
    <3>2. PICK j \in 1..Len(queue) : queue[j] = n
      BY <1>0, <3>1
    <3>3. j - k \in 1..Len(q) /\ (j - k) + k = j
      BY <1>0, <1>4, <3>1, <3>2
    <3>4. q[j - k] = n
      BY <1>4, <3>2, <3>3
    <3> QED BY <3>3, <3>4
  <2>2. ASSUME NEW i \in 1..Len(q), q[i] = n
        PROVE  Dropped(k)[n] = "waiting"
    <3>1. i + k \in 1..Len(queue) /\ queue[i + k] = n
      BY <1>4, <2>2
    <3>2. ASSUME NEW j \in 1..k, queue[j] = n PROVE FALSE
      <4>1. j = i + k
        BY <1>0, <1>3, <3>1, <3>2
      <4> QED BY <1>4, <4>1
    <3> QED BY <1>0, <1>1, <3>1, <3>2
  <2> QED BY <2>1, <2>2
<1>7. InTurn(asked, q)
  <2> SUFFICES ASSUME NEW i \in 1..Len(q), NEW j \in 1..Len(q), i < j
               PROVE  Precedes(asked, q[i], q[j])
    BY DEF InTurn
  <2>1. i + k < j + k /\ q[i] = queue[i + k] /\ q[j] = queue[j + k]
        /\ i + k \in 1..Len(queue) /\ j + k \in 1..Len(queue)
    BY <1>4
  <2> QED BY <2>1 DEF IInv, InTurn
<1>8. \A n \in Note : \/ Dropped(k)[n] = stage[n]
                      \/ Dropped(k)[n] = "dropped" /\ stage[n] = "waiting"
  BY <1>0, <1>1, <1>3
<1>9. q # <<>> => queue # <<>>
  BY <1>0
<1> QED BY <1>2, <1>4, <1>5, <1>6, <1>7, <1>8, <1>9 DEF Waits

\* The queue loses its first k notes, and the bars in B are closed.
LEMMA DropAndClose ==
  ASSUME IInv, NEW k \in 0..Len(queue), NEW B \in SUBSET Note,
         queue' = SubSeq(queue, k + 1, Len(queue)), CloseBars(B, Dropped(k)),
         UNCHANGED <<available, host, current, calls>>
  PROVE  IInv'
<1> DEFINE st == Dropped(k)
<1>1. /\ st \in [Note -> Stages] /\ Waits(queue', st) /\ InTurn(asked, queue')
      /\ \A n \in Note : st[n] = stage[n] \/ (st[n] = "dropped" /\ stage[n] = "waiting")
      /\ queue' # <<>> => queue # <<>>
  BY DroppedStep
<1> HIDE DEF st
<1>2. /\ stage' \in [Note -> Stages]
      /\ overlay' \in [Note -> {"none", "over", "fading"}]
      /\ \A n \in Note : stage'[n] = "waiting" <=> st[n] = "waiting"
      /\ Visible(stage)' = Visible(stage)
      /\ Covered(stage)'
  BY <1>1, CloseStep DEF st
<1>3. BarsOK' /\ Kinds' /\ CallsOK'
  BY <1>2, Parts DEF BarsOK, Kinds, CallsOK, calls
<1>4. Waits(queue', stage')
  BY <1>1, <1>2 DEF Waits
<1>5. InTurn(asked', queue')
  BY <1>1 DEF calls
<1>6. Handled(stage)'
  BY <1>2 DEF IInv, Handled
<1>7. Bars(stage)' = Bars(stage) /\ Shown' = Bars(stage) /\ Shown = Bars(stage)
  <2>1. Bars(stage)' = Bars(stage)
    BY <1>2 DEF Bars
  <2>2. Shown = Bars(stage)
    BY DEF Shown, Bars, InPage, Visible
  <2>3. Shown' = Bars(stage)'
    BY DEF Shown, Bars, InPage, Visible
  <2> QED BY <2>1, <2>2, <2>3
<1>8. Place(available, stage)'
  BY <1>7, Zenon DEF IInv, Place
<1>9. NoneStranded'
  BY <1>1, <1>7 DEF IInv, NoneStranded
<1>10. Asked'
  BY <1>1, <1>2 DEF IInv, Asked, calls
<1>11. available' \in BOOLEAN
  BY Parts, Zenon
<1> QED BY <1>2, <1>3, <1>4, <1>5, <1>6, <1>8, <1>9, <1>10, <1>11, Whole

LEMMA ClickStep ==
  ASSUME IInv, NEW n \in Note, Click(n)
  PROVE  IInv'
<1>1. /\ UNCHANGED queue /\ CloseBars({n}, stage)
      /\ UNCHANGED <<available, host, current, calls>>
  BY DEF Click
<1>2. queue \in Seq(Note \ Growl) /\ Len(queue) \in Nat
  BY Parts DEF Waits
<1>3. queue = SubSeq(queue, 0 + 1, Len(queue)) /\ 0 \in 0..Len(queue)
  BY <1>2
<1>4. Dropped(0) = stage
  BY Parts DEF Dropped
<1> QED BY <1>1, <1>3, <1>4, DropAndClose

LEMMA ClearQueueStep ==
  ASSUME IInv, ClearQueue \/ CloseAll
  PROVE  IInv'
<1>1. queue \in Seq(Note \ Growl) /\ Len(queue) \in Nat
  BY Parts DEF Waits
<1>2. /\ Len(queue) \in 0..Len(queue) /\ SubSeq(queue, Len(queue) + 1, Len(queue)) = <<>>
  BY <1>1
<1>3. CASE CloseAll
  BY <1>2, <1>3, DropAndClose DEF CloseAll
<1>4. CASE ClearQueue
  <2>1. stage' = Dropped(Len(queue)) /\ queue' = <<>>
        /\ UNCHANGED <<available, host, current, overlay, calls>>
    BY <1>4 DEF ClearQueue
  <2>2. CloseBars({}, Dropped(Len(queue)))
    <3>1. overlay \in [Note -> {"none", "over", "fading"}]
      BY Parts DEF BarsOK
    <3> QED BY <2>1, <3>1 DEF CloseBars, Dropped
  <2> QED BY <1>2, <2>1, <2>2, DropAndClose
<1> QED BY <1>3, <1>4

LEMMA CloseIdStep ==
  ASSUME IInv, NEW i, CloseId(i)
  PROVE  IInv'
<1>1. queue \in Seq(Note \ Growl) /\ Len(queue) \in Nat
  BY Parts DEF Waits
<1>2. Hits(i) \in 0..Len(queue)
  <2> DEFINE S == {k \in 1..Len(queue) : id[queue[k]] = i}
  <2>1. S \subseteq 1..Len(queue)
    OBVIOUS
  <2>2. IsFiniteSet(1..Len(queue)) /\ Cardinality(1..Len(queue)) = Len(queue)
    <3>1. /\ IsFiniteSet(1..Len(queue))
          /\ Cardinality(1..Len(queue)) = IF 1 > Len(queue) THEN 0 ELSE Len(queue) - 1 + 1
      BY <1>1, FS_Interval
    <3> QED BY <1>1, <3>1
  <2>3. IsFiniteSet(S) /\ Cardinality(S) <= Len(queue)
    BY <2>1, <2>2, FS_Subset
  <2>4. Cardinality(S) \in Nat
    BY <2>3, FS_CardinalityType
  <2> QED BY <1>1, <2>3, <2>4 DEF Hits
<1>3. PICK B \in SUBSET Note : CloseBars(B, Dropped(Hits(i)))
  BY DEF CloseId
<1> QED BY <1>2, <1>3, DropAndClose DEF CloseId

\* A bar is gone; its base shows the next, if it is one that takes its turn.
LEMMA ClosedStep ==
  ASSUME IInv, NEW n \in Note, Closed(n)
  PROVE  IInv'
<1> DEFINE gone == [stage EXCEPT ![n] = "removed"]
<1>0. /\ BarsOK /\ CallsOK /\ Kinds /\ Waits(queue, stage) /\ available \in BOOLEAN
      /\ stage \in [Note -> Stages] /\ stage[n] = "closing"
      /\ InTurn(asked, queue) /\ Place(available, stage) /\ NoneStranded
      /\ Handled(stage) /\ Covered(stage) /\ Asked
  BY Parts DEF IInv, Closed
<1>1. current[host[n]] = n
  BY <1>0 DEF Handled, Visible
<1>2. UNCHANGED calls
  BY DEF Closed
<1>3. \/ /\ n \in Growl /\ stage' = gone
         /\ UNCHANGED <<queue, available, host, current, overlay>>
      \/ n \notin Growl /\ Render(host[n], queue, TRUE, gone)
  BY <1>1 DEF Closed
<1>4. /\ gone \in [Note -> Stages] /\ Visible(gone) = Visible(stage) \ {n}
      /\ gone[n] = "removed" /\ \A m \in Note \ {n} : gone[m] = stage[m]
  BY <1>0 DEF Stages, Visible
<1> HIDE DEF gone
<1>5. Handled(gone) /\ Covered(gone) /\ Waits(queue, gone)
  BY <1>0, <1>4 DEF Handled, Covered, Waits
<1>6. CallsOK' /\ InTurn(asked', queue)
  BY <1>0, <1>2 DEF calls, CallsOK
<1>7. CASE /\ n \in Growl /\ stage' = gone
           /\ UNCHANGED <<queue, available, host, current, overlay>>
  <2>1. BarsOK' /\ Kinds' /\ Handled(stage)' /\ Covered(stage)' /\ Waits(queue', stage')
    BY <1>0, <1>4, <1>5, <1>7 DEF BarsOK, Kinds, Handled, Covered, Visible
  <2>2. Bars(stage)' = Bars(stage)
    <3>1. Bars(stage)' = Visible(gone) \ Growl
      BY <1>7 DEF Bars, Visible
    <3> QED BY <1>4, <1>7, <3>1 DEF Bars
  <2>3. Shown' = Bars(stage)' /\ Shown = Bars(stage)
    BY DEF Shown, Bars, InPage, Visible
  <2>4. Place(available, stage)'
    BY <1>0, <1>7, <2>2, Zenon DEF Place
  <2>5. NoneStranded'
    BY <1>0, <1>7, <2>2, <2>3 DEF NoneStranded
  <2>6. Asked'
    BY <1>0, <1>2, <1>4, <1>7 DEF Asked, calls
  <2>7. available' \in BOOLEAN
    BY <1>0, <1>7, Zenon
  <2>8. UNCHANGED queue
    BY <1>7
  <2> QED BY <1>6, <2>1, <2>4, <2>5, <2>6, <2>7, <2>8, Whole
<1>8. CASE n \notin Growl /\ Render(host[n], queue, TRUE, gone)
  <2>1. host[n] \in Note \ Growl
    BY <1>0, <1>8 DEF Kinds, BarsOK
  <2>2. Place(TRUE, gone)
    <3>1. n \in Bars(stage)
      BY <1>0, <1>8 DEF Bars, Visible
    <3>2. Bars(gone) = {}
      BY <1>0, <1>4, <3>1 DEF Bars, Place
    <3> QED BY <3>2 DEF Place
  <2>3. /\ BarsOK' /\ Kinds' /\ available' \in BOOLEAN /\ NoneStranded'
        /\ Handled(stage)' /\ Covered(stage)' /\ Place(available, stage)'
        /\ Waits(queue', stage') /\ InTurn(asked', queue')
        /\ \A m \in Note : stage'[m] = "waiting" => gone[m] = "waiting"
    <3>1. InTurn(asked', queue)
      BY <1>6
    <3> QED BY <1>0, <1>4, <1>5, <1>8, <2>1, <2>2, <3>1, RenderStep
  <2>4. Asked'
    BY <1>0, <1>2, <1>4, <2>3 DEF Asked, calls
  <2> QED BY <1>6, <2>3, <2>4, Whole
<1> QED BY <1>3, <1>7, <1>8

LEMMA UncoverStep ==
  ASSUME IInv, NEW n \in Note, Uncover(n)
  PROVE  IInv'
<1>1. /\ UNCHANGED <<queue, available, stage, host, current, calls>>
      /\ overlay' = [overlay EXCEPT ![n] = "none"]
  BY DEF Uncover
<1>2. BarsOK' /\ CallsOK' /\ Kinds' /\ Covered(stage)'
  BY <1>1 DEF IInv, TypeOK, BarsOK, CallsOK, Kinds, Covered, calls
<1>3. Place(available, stage)' /\ Handled(stage)' /\ NoneStranded'
  BY <1>1 DEF IInv, Place, Bars, Visible, Handled, NoneStranded, Shown, InPage
<1>4. Asked' /\ InTurn(asked', queue') /\ Waits(queue', stage')
  BY <1>1, Parts DEF IInv, Asked, calls
<1>5. available' \in BOOLEAN
  BY <1>1, Parts, Zenon
<1> QED BY <1>2, <1>3, <1>4, <1>5, Whole

LEMMA StutterStep == IInv /\ UNCHANGED vars => IInv'
<1> SUFFICES ASSUME IInv, UNCHANGED vars PROVE IInv'
  OBVIOUS
<1>1. UNCHANGED <<queue, available, stage, host, current, overlay, clock, id, asked>>
  BY DEF vars, bars, calls
<1>2. BarsOK' /\ CallsOK' /\ Kinds' /\ Covered(stage)' /\ Handled(stage)' /\ Asked'
  BY <1>1 DEF IInv, TypeOK, BarsOK, CallsOK, Kinds, Covered, Handled, Visible, Asked
<1>3. Place(available, stage)' /\ NoneStranded'
  BY <1>1 DEF IInv, Place, Bars, Visible, NoneStranded, Shown, InPage
<1>4. InTurn(asked', queue') /\ Waits(queue', stage')
  BY <1>1, Parts DEF IInv
<1>5. available' \in BOOLEAN
  BY <1>1, Parts, Zenon
<1> QED BY <1>2, <1>3, <1>4, <1>5, Whole

LEMMA Invariance == Spec => []IInv
<1>1. ASSUME IInv, [Next]_vars PROVE IInv'
  <2>1. ASSUME NEW n \in Note, Call(n) \/ Click(n) \/ Timeout(n) \/ Closed(n) \/ Uncover(n)
        PROVE  IInv'
    BY <1>1, <2>1, CallStep, ClickStep, ClosedStep, UncoverStep DEF Timeout
  <2>2. ASSUME NEW i \in 0..clock, CloseId(i)
        PROVE  IInv'
    BY <1>1, <2>2, CloseIdStep
  <2> QED BY <1>1, <2>1, <2>2, ClearQueueStep, StutterStep DEF Next
<1> QED BY <1>1, Initially, PTL DEF Spec

-----------------------------------------------------------------------------
(***************************************************************************)
(* The theorems.                                                           *)
(***************************************************************************)

\* The variables keep their types, and the queue holds each waiting note once.
THEOREM TypeCorrect == Spec => []TypeOK
<1>1. IInv => TypeOK
  BY DEF IInv
<1> QED BY <1>1, Invariance, PTL

\* One bar at a time takes its turn, and $.noty.available says if there is one.
THEOREM TurnsAreTaken == Spec => []TurnTaken
<1>1. IInv => TurnTaken
  <2> SUFFICES ASSUME IInv PROVE TurnTaken
    OBVIOUS
  <2>1. Shown = Bars(stage)
    BY DEF Shown, Bars, InPage, Visible
  <2>2. Place(available, stage)
    BY DEF IInv
  <2> QED BY <2>1, <2>2, Zenon DEF TurnTaken, Place
<1> QED BY <1>1, Invariance, PTL

\* No note waits without a bar whose end will serve it.
THEOREM NoNoteStranded == Spec => []NoneStranded
<1>1. IInv => NoneStranded
  BY DEF IInv
<1> QED BY <1>1, Invariance, PTL

\* The handlers of a bar in the page mean that bar.
THEOREM HandlersAreCurrent == Spec => []HandlersCurrent
<1>1. IInv => HandlersCurrent
  BY DEF IInv, Handled, Visible, HandlersCurrent, InPage
<1> QED BY <1>1, Invariance, PTL

\* No overlay outlives the modal bar it came with.
THEOREM OverlaysAreOwned == Spec => []OverlayOwned
<1>1. IInv => OverlayOwned
  BY DEF IInv, Covered, OverlayOwned
<1> QED BY <1>1, Invariance, PTL

\* A waiting note is opened when it is the head of the queue: by the end of
\* the bar before it, since a call finds the queue empty if the place is free.
LEMMA OpenedIsHead ==
  ASSUME IInv, [Next]_vars, NEW n \in Note, stage[n] = "waiting", stage'[n] = "open"
  PROVE  queue # <<>> /\ n = Head(queue)
<1>0. /\ stage \in [Note -> Stages] /\ Place(available, stage) /\ NoneStranded
      /\ Handled(stage) /\ queue \in Seq(Note \ Growl)
  BY Parts DEF IInv, Waits
<1>1. ASSUME NEW b, NEW q, NEW free, NEW st, Render(b, q, free, st), st[n] # "open"
      PROVE  free /\ q # <<>> /\ n = Head(q)
  <2>1. CASE free /\ q # <<>> /\ Show(b, Head(q), st)
    <3>1. n = Head(q)
      BY <1>1, <2>1 DEF Show
    <3> QED BY <2>1, <3>1
  <2>2. CASE stage' = st
    BY <1>1, <2>2
  <2> QED BY <1>1, <2>1, <2>2 DEF Render
<1>2. ASSUME NEW m \in Note, Call(m)
      PROVE  FALSE
  <2>1. m # n /\ [stage EXCEPT ![m] = "waiting"][n] # "open" /\ stage[m] = "none"
    BY <1>0, <1>2 DEF Call
  <2>2. CASE m \in Growl /\ Show(m, m, stage)
    BY <1>0, <2>1, <2>2 DEF Show
  <2>3. CASE Render(m, Queued(m), available, [stage EXCEPT ![m] = "waiting"])
    <3>1. available /\ n = Head(Queued(m))
      <4> DEFINE st == [stage EXCEPT ![m] = "waiting"]
      <4>1. Render(m, Queued(m), available, st) /\ st[n] # "open"
        BY <2>1, <2>3
      <4> HIDE DEF st
      <4> QED BY <1>1, <4>1
    <3>2. Bars(stage) = {}
      BY <1>0, <3>1, Zenon DEF Place
    <3>3. queue = <<>>
      BY <1>0, <3>2 DEF NoneStranded, Shown, Bars, Visible, InPage
    <3>4. Head(Queued(m)) = m
      BY <3>3 DEF Queued
    <3> QED BY <2>1, <3>1, <3>4
  <2> QED BY <1>2, <2>2, <2>3 DEF Call
<1>3. ASSUME NEW B, NEW st, CloseBars(B, st), st[n] # "open"
      PROVE  FALSE
  BY <1>3 DEF CloseBars
<1>4. \A k : Dropped(k)[n] # "open"
  BY DEF Dropped
<1>5. ASSUME NEW m \in Note, Closed(m)
      PROVE  queue # <<>> /\ n = Head(queue)
  <2> DEFINE gone == [stage EXCEPT ![current[host[m]]] = "removed"]
  <2>1. gone[n] # "open"
    BY <1>0
  <2>2. CASE stage' = gone
    BY <2>1, <2>2
  <2>3. CASE Render(host[m], queue, TRUE, gone)
    BY <1>1, <2>1, <2>3
  <2> QED BY <1>5, <2>2, <2>3 DEF Closed
<1>6. ASSUME NEW m \in Note, Click(m) \/ Timeout(m) \/ Uncover(m)
      PROVE  FALSE
  <2>1. CASE Click(m) \/ Timeout(m)
    BY <1>3, <2>1 DEF Click, Timeout
  <2>2. CASE Uncover(m)
    BY <2>2 DEF Uncover
  <2> QED BY <1>6, <2>1, <2>2
<1>7. ASSUME NEW i, CloseId(i)
      PROVE  FALSE
  BY <1>3, <1>4, <1>7 DEF CloseId
<1>8. CASE CloseAll
  BY <1>3, <1>4, <1>8 DEF CloseAll
<1>9. CASE ClearQueue
  BY <1>4, <1>9 DEF ClearQueue
<1>10. CASE UNCHANGED vars
  BY <1>10 DEF vars, bars
<1> QED BY <1>2, <1>5, <1>6, <1>7, <1>8, <1>9, <1>10 DEF Next

\* Of the notes that wait, the one shown next is the last forced one, or, when
\* none is forced, the one that has asked first.
THEOREM TurnsInOrder == Spec => ServedInOrder
<1> DEFINE Order ==
      \A n \in Note : stage[n] = "waiting" /\ stage'[n] = "open" =>
        \A m \in Note \ {n} : stage[m] = "waiting" =>
          \/ n \in Forced /\ (m \in Forced => Before(m, n))
          \/ m \notin Forced /\ Before(n, m)
<1>1. IInv /\ [Next]_vars => Order
  <2> SUFFICES ASSUME IInv, [Next]_vars, NEW n \in Note, NEW m \in Note \ {n},
                      stage[n] = "waiting", stage'[n] = "open", stage[m] = "waiting"
               PROVE  \/ n \in Forced /\ (m \in Forced => Before(m, n))
                      \/ m \notin Forced /\ Before(n, m)
    OBVIOUS
  <2>1. queue # <<>> /\ n = Head(queue)
    BY OpenedIsHead
  <2>2. /\ queue \in Seq(Note \ Growl) /\ Len(queue) \in Nat \ {0} /\ n = queue[1]
        /\ \E k \in 1..Len(queue) : queue[k] = m
    BY <2>1, Parts DEF Waits
  <2>3. PICK k \in 1..Len(queue) : queue[k] = m
    BY <2>2
  <2>4. 1 \in 1..Len(queue) /\ 1 < k
    BY <2>2, <2>3
  <2>5. Precedes(asked, n, m)
    BY <2>2, <2>3, <2>4 DEF IInv, InTurn
  <2> QED BY <2>5 DEF Precedes, BeforeIn, Before
<1>2. IInv /\ [Next]_vars => [Order]_vars
  BY <1>1
<1> QED BY <1>2, Invariance, PTL DEF Spec, ServedInOrder
=============================================================================
