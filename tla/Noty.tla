-------------------------------- MODULE Noty --------------------------------
(***************************************************************************)
(* The notifications of the console's pages (etc/js/jquery.noty.js): bars  *)
(* that drop down one at a time, served from a queue, and growls, bars in  *)
(* a corner that do not wait for each other.                               *)
(*                                                                         *)
(* A page runs one handler at a time: an action is a whole handler, of a   *)
(* call, a click, or a timer of jQuery.  Every call of $.noty makes an     *)
(* object `base' with a variable $noty of its own; when a bar is gone it   *)
(* is the base that showed it that shows the next one, whoever asked for   *)
(* that, and overwrites both.  Handlers speak of $noty, not of the bar     *)
(* they are bound to: `current' keeps what they mean.                      *)
(*                                                                         *)
(* Layout, texts and buttons are left out: a click on a bar, on its close  *)
(* button or on one of its buttons is Click.                               *)
(***************************************************************************)
EXTENDS Naturals, Sequences, FiniteSets

CONSTANTS
  Note,        \* the calls of $.noty
  Growl,       \* those whose layout is one of $.noty.growls
  Forced,      \* those with the option force
  Modal,       \* those with the option modal
  Sticky,      \* those without timeout
  MaxClock     \* bound: the milliseconds in which calls are made

ASSUME NotyAssumption ==
  /\ Growl \subseteq Note /\ Forced \subseteq Note
  /\ Modal \subseteq Note /\ Sticky \subseteq Note
  /\ MaxClock \in Nat

VARIABLES
  queue,       \* $.noty.queue
  available,   \* $.noty.available
  stage,       \* per note: "none", "waiting", "open" (from its animation to
               \*   the end of its delay), "closing", "removed", "dropped"
  host,        \* per note: the call whose base has shown it
  current,     \* per base: its variable $noty
  overlay,     \* per note: the div.noty_modal it has put over the page
  clock,       \* new Date().getTime()
  id,          \* per note: options.id without the type, which is the same here
  asked        \* history: the notes in the order of the calls

bars  == <<stage, host, current, overlay>>
calls == <<clock, id, asked>>
vars  == <<queue, available, bars, calls>>

Init ==
  /\ queue = <<>> /\ available = TRUE
  /\ stage = [n \in Note |-> "none"]
  /\ host = [n \in Note |-> n] /\ current = [n \in Note |-> n]
  /\ overlay = [n \in Note |-> "none"]
  /\ clock = 0 /\ id = [n \in Note |-> 0] /\ asked = <<>>

InPage(n) == stage[n] \in {"open", "closing"}

\* The bars that take their turn.
Shown == {n \in Note \ Growl : InPage(n)}

-----------------------------------------------------------------------------
\* Mutant: $noty is declared outside of $.noty, so that all bases share it.
ShowShared(b, n, st) ==
  /\ stage' = [st EXCEPT ![n] = "open"]
  /\ host' = [host EXCEPT ![n] = b] /\ current' = [m \in Note |-> n]
  /\ overlay' = [overlay EXCEPT ![n] = IF n \in Modal THEN "over" ELSE @]

(***************************************************************************)
(* Base b shows note n; `st' is what has become of the notes before.       *)
(***************************************************************************)
Show(b, n, st) ==
  /\ stage' = [st EXCEPT ![n] = "open"]
  /\ host' = [host EXCEPT ![n] = b] /\ current' = [current EXCEPT ![b] = n]
  /\ overlay' = [overlay EXCEPT ![n] = IF n \in Modal THEN "over" ELSE @]

\* Mutant: the head is looked at and stays.
RenderPeeking(b, q, free, st) ==
  \/ /\ free /\ q # <<>>
     /\ queue' = q /\ available' = FALSE
     /\ Show(b, Head(q), st)
  \/ /\ ~free \/ q = <<>>
     /\ queue' = q /\ available' = free
     /\ stage' = st /\ UNCHANGED <<host, current, overlay>>

\* Mutant: the place is not taken.
RenderUntaken(b, q, free, st) ==
  \/ /\ free /\ q # <<>>
     /\ queue' = Tail(q) /\ available' = free
     /\ Show(b, Head(q), st)
  \/ /\ ~free \/ q = <<>>
     /\ queue' = q /\ available' = free
     /\ stage' = st /\ UNCHANGED <<host, current, overlay>>

\* Base b shows the head of the queue q, if the place is free.
Render(b, q, free, st) ==
  \/ /\ free /\ q # <<>>
     /\ queue' = Tail(q) /\ available' = FALSE
     /\ Show(b, Head(q), st)
  \/ /\ ~free \/ q = <<>>
     /\ queue' = q /\ available' = free
     /\ stage' = st /\ UNCHANGED <<host, current, overlay>>

\* Mutant: push and unshift are exchanged.
QueuedSwapped(n) == IF n \in Forced THEN Append(queue, n) ELSE <<n>> \o queue

Queued(n) == IF n \in Forced THEN <<n>> \o queue ELSE Append(queue, n)

\* A call of $.noty.  The id is the time: two calls may share a millisecond.
Call(n) ==
  /\ stage[n] = "none"
  /\ clock' \in {clock, clock + 1} /\ clock' <= MaxClock
  /\ id' = [id EXCEPT ![n] = clock'] /\ asked' = Append(asked, n)
  /\ \/ n \in Growl /\ Show(n, n, stage) /\ UNCHANGED <<queue, available>>
     \/ n \notin Growl /\ Render(n, Queued(n), available, [stage EXCEPT ![n] = "waiting"])

\* Mutant: a bar takes its overlay away only when others are open.
CloseBarsCovered(B, st) ==
  LET closed == {current[host[n]] : n \in {b \in B : stage[b] = "open"}} IN
  /\ stage' = [n \in Note |-> IF n \in closed THEN "closing" ELSE st[n]]
  /\ UNCHANGED overlay

-----------------------------------------------------------------------------
(***************************************************************************)
(* The event noty.close reaches the bars in B.  Each has its handler once, *)
(* and a modal bar takes all overlays away, its own and others'.           *)
(***************************************************************************)
CloseBars(B, st) ==
  LET closed == {current[host[n]] : n \in {b \in B : stage[b] = "open"}} IN
  /\ stage' = [n \in Note |-> IF n \in closed THEN "closing" ELSE st[n]]
  /\ overlay' = [n \in Note |-> IF overlay[n] = "over" /\ closed \cap Modal # {}
                                THEN "fading" ELSE overlay[n]]

Click(n) ==
  /\ stage[n] = "open" /\ CloseBars({n}, stage)
  /\ UNCHANGED <<queue, available, host, current, calls>>

Timeout(n) == n \notin Sticky /\ Click(n)

\* Mutant: the next note is left in the queue.
ClosedOnly(n) ==
  LET m == current[host[n]] IN
  /\ stage[n] = "closing" /\ stage' = [stage EXCEPT ![m] = "removed"]
  /\ available' = (available \/ m \notin Growl)
  /\ UNCHANGED <<queue, host, current, overlay, calls>>

\* The closing animation of note n has ended: the promise's callback.
Closed(n) ==
  LET b == host[n]
      m == current[b]
      gone == [stage EXCEPT ![m] = "removed"]
  IN
  /\ stage[n] = "closing"
  /\ \/ /\ m \in Growl /\ stage' = gone
        /\ UNCHANGED <<queue, available, host, current, overlay>>
     \/ m \notin Growl /\ Render(b, queue, TRUE, gone)
  /\ UNCHANGED calls

\* The overlay of note n has faded.
Uncover(n) ==
  /\ overlay[n] = "fading" /\ overlay' = [overlay EXCEPT ![n] = "none"]
  /\ UNCHANGED <<queue, available, stage, host, current, calls>>

-----------------------------------------------------------------------------
(***************************************************************************)
(* $.noty.close(i).  The loop calls splice(id, 1) where it has found the   *)
(* id at place i: as an index an id is no number, which splice takes for   *)
(* 0.  So each hit takes the first note out of the queue, be it the one    *)
(* meant or not.  Then the event goes to the first bar in the page that    *)
(* has the id, if it is there.                                             *)
(***************************************************************************)
Hits(i) == Cardinality({k \in 1..Len(queue) : id[queue[k]] = i})

Dropped(k) == [n \in Note |-> IF \E j \in 1..k : queue[j] = n THEN "dropped" ELSE stage[n]]

CloseId(i) ==
  LET found == {n \in Note : InPage(n) /\ id[n] = i} IN
  /\ queue' = SubSeq(queue, Hits(i) + 1, Len(queue))
  /\ \/ \E n \in found : CloseBars({n}, Dropped(Hits(i)))
     \/ found = {} /\ CloseBars({}, Dropped(Hits(i)))
  /\ UNCHANGED <<available, host, current, calls>>

ClearQueue ==
  /\ queue' = <<>> /\ stage' = Dropped(Len(queue))
  /\ UNCHANGED <<available, host, current, overlay, calls>>

CloseAll ==
  /\ queue' = <<>> /\ CloseBars(Note, Dropped(Len(queue)))
  /\ UNCHANGED <<available, host, current, calls>>

-----------------------------------------------------------------------------
Next ==
  \/ \E n \in Note : Call(n) \/ Click(n) \/ Timeout(n) \/ Closed(n) \/ Uncover(n)
  \/ \E i \in 0..clock : CloseId(i)
  \/ ClearQueue \/ CloseAll

Spec == Init /\ [][Next]_vars

\* Timers fire; nothing is assumed of who calls or clicks.
FairSpec ==
  /\ Spec
  /\ \A n \in Note : WF_vars(Timeout(n)) /\ WF_vars(Closed(n)) /\ WF_vars(Uncover(n))

-----------------------------------------------------------------------------
(***************************************************************************)
(* Properties.                                                             *)
(***************************************************************************)

Stages == {"none", "waiting", "open", "closing", "removed", "dropped"}

BarsOK ==
  /\ stage \in [Note -> Stages]
  /\ host \in [Note -> Note] /\ current \in [Note -> Note]
  /\ overlay \in [Note -> {"none", "over", "fading"}]

CallsOK ==
  /\ clock \in 0..MaxClock /\ id \in [Note -> 0..MaxClock]
  /\ asked \in Seq(Note)

\* The queue holds each waiting note once and nothing else.
QueueOK ==
  /\ queue \in Seq(Note \ Growl)
  /\ \A n \in Note : stage[n] = "waiting" <=> \E k \in 1..Len(queue) : queue[k] = n
  /\ \A j, k \in 1..Len(queue) : queue[j] = queue[k] => j = k

\* Types, and that the queue is that of the waiting notes.
TypeOK == available \in BOOLEAN /\ BarsOK /\ CallsOK /\ QueueOK

\* $.noty.available guards the one place for bars that take their turn: it is
\* free exactly when no such bar is in the page, closing ones included.
TurnTaken ==
  /\ available <=> Shown = {}
  /\ \A m, n \in Shown : m = n

\* Only the end of a bar serves the queue, so a note must not wait while
\* there is none: it would wait for ever.
NoneStranded == queue # <<>> => Shown # {}

\* The handlers of a bar in the page speak of that bar, though the variable
\* they go by is one that its base gives to one bar after the other.
HandlersCurrent == \A n \in Note : InPage(n) => current[host[n]] = n

\* What covers the page is an overlay of a modal bar that is still open: no
\* overlay is left behind when bars are closed in whatever order.
OverlayOwned == \A n \in Note : overlay[n] = "over" => n \in Modal /\ stage[n] = "open"

Before(m, n) ==
  \E j, k \in 1..Len(asked) : j < k /\ asked[j] = m /\ asked[k] = n

\* Notes are served in the order they were asked for; forced ones go first,
\* the latest of them before the others.
ServedInOrder ==
  [][\A n \in Note : stage[n] = "waiting" /\ stage'[n] = "open" =>
       \A m \in Note \ {n} : stage[m] = "waiting" =>
         \/ n \in Forced /\ (m \in Forced => Before(m, n))
         \/ m \notin Forced /\ Before(n, m)]_vars

\* A note that waits is shown in the end, unless it is taken out of the queue,
\* or a bar without timeout takes its turn, which the user has to close.
EachServed ==
  \A n \in Note : stage[n] = "waiting" ~>
    (stage[n] # "waiting" \/ \E s \in Sticky \ Growl : stage[s] = "open")
=============================================================================
