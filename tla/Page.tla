-------------------------------- MODULE Page --------------------------------
(***************************************************************************)
(* A page of the console with a box that holds a table (Pager) and is      *)
(* minimised and restored, and the menu entry "Details" that opens and     *)
(* closes (etc/js/charisma.js).                                            *)
(*                                                                         *)
(* Both are folds: a click sets a sign, the arrow of the box or the class  *)
(* active of the entry, from what it finds visible, and asks for an        *)
(* animation the other way.  Animations of one element wait for each       *)
(* other, and each decides which way to go when it begins.                 *)
(***************************************************************************)
EXTENDS Pager

CONSTANTS
  Box, Entry,  \* the two folds
  MaxWaiting   \* bound: animations that wait

ASSUME PageAssumption == Box # Entry /\ MaxWaiting \in Nat

Fold == {Box, Entry}

VARIABLES
  fold,        \* per fold: "shown", "hiding", "hidden" or "showing"
  waiting,     \* per fold: the animations asked for that have not begun
  sign,        \* per fold: its sign says that it is open
  clicked      \* history, per fold: the last click, or the script that opens
               \*   the menu, found it at "rest" or "moving", or "never" came

folds == <<fold, waiting, sign, clicked>>
vars  == <<table, folds>>

Visible(f) == fold[f] # "hidden"
Resting(f) == fold[f] \in {"shown", "hidden"}

Turned(s) == IF s = "shown" THEN "hiding" ELSE "showing"

(***************************************************************************)
(* What templates, styles and scripts make of a page.  The script marks    *)
(* the entry whose link is the address of the page, and opens the menu if  *)
(* it finds a marked entry below "Details".  A page of details that was    *)
(* asked for in another form has "Details" marked, and the menu closed:    *)
(* the template's own comparison is of an address with an endpoint.        *)
(***************************************************************************)
Views == {"overview", "details", "entry"}

FreshFold(v) ==
  [f \in Fold |-> CASE f = Box                   -> "shown"
                    [] f = Entry /\ v = "entry"  -> "showing"
                    [] f = Entry /\ v # "entry"  -> "hidden"]

FreshSign(v) == [f \in Fold |-> f = Box \/ v # "overview"]

FreshClicked(v) == [f \in Fold |-> IF f = Entry /\ v = "entry" THEN "rest" ELSE "never"]

PageInit ==
  /\ Init
  /\ \E v \in Views : fold = FreshFold(v) /\ sign = FreshSign(v) /\ clicked = FreshClicked(v)
  /\ waiting = [f \in Fold |-> 0]

\* The user follows a link or reloads: nothing of the page is kept.
Load(v) ==
  /\ rows' = Total /\ start' = 0 /\ length' = ShortLength /\ end' = EndOf(0, ShortLength, Total)
  /\ fold' = FreshFold(v) /\ sign' = FreshSign(v) /\ clicked' = FreshClicked(v)
  /\ waiting' = [f \in Fold |-> 0]

-----------------------------------------------------------------------------
\* Mutant: the sign is turned over, whatever is visible.
ClickTurned(f) ==
  /\ sign' = [sign EXCEPT ![f] = ~@]
  /\ clicked' = [clicked EXCEPT ![f] = IF Resting(f) THEN "rest" ELSE "moving"]
  /\ \/ Resting(f) /\ fold' = [fold EXCEPT ![f] = Turned(@)] /\ UNCHANGED waiting
     \/ /\ ~Resting(f) /\ waiting[f] < MaxWaiting
        /\ waiting' = [waiting EXCEPT ![f] = @ + 1] /\ UNCHANGED fold
  /\ UNCHANGED table

\* A click on the arrow of the box, or on the entry.
Click(f) ==
  /\ sign' = [sign EXCEPT ![f] = ~Visible(f)]
  /\ clicked' = [clicked EXCEPT ![f] = IF Resting(f) THEN "rest" ELSE "moving"]
  /\ \/ Resting(f) /\ fold' = [fold EXCEPT ![f] = Turned(@)] /\ UNCHANGED waiting
     \/ /\ ~Resting(f) /\ waiting[f] < MaxWaiting
        /\ waiting' = [waiting EXCEPT ![f] = @ + 1] /\ UNCHANGED fold
  /\ UNCHANGED table

\* Its animation ends, and the next one begins.
AnimationEnds(f) ==
  LET rest == IF fold[f] = "hiding" THEN "hidden" ELSE "shown" IN
  /\ ~Resting(f)
  /\ \/ waiting[f] = 0 /\ fold' = [fold EXCEPT ![f] = rest] /\ UNCHANGED waiting
     \/ /\ waiting[f] > 0 /\ waiting' = [waiting EXCEPT ![f] = @ - 1]
        /\ fold' = [fold EXCEPT ![f] = Turned(rest)]
  /\ UNCHANGED <<table, sign, clicked>>

\* The table can be used as far as it can be seen.
UseTable == Visible(Box) /\ Next /\ UNCHANGED folds

PageNext ==
  \/ \E f \in Fold : Click(f) \/ AnimationEnds(f)
  \/ UseTable
  \/ \E v \in Views : Load(v)

PageSpec == PageInit /\ [][PageNext]_vars

-----------------------------------------------------------------------------
(***************************************************************************)
(* Properties.                                                             *)
(***************************************************************************)

FoldsOK ==
  /\ fold \in [Fold -> {"shown", "hiding", "hidden", "showing"}]
  /\ waiting \in [Fold -> 0..MaxWaiting] /\ sign \in [Fold -> BOOLEAN]
  /\ clicked \in [Fold -> {"never", "rest", "moving"}]
  /\ \A f \in Fold : Resting(f) => waiting[f] = 0

\* Types, and that nothing waits for an element at rest.
PageTypeOK == TypeOK /\ FoldsOK

\* A fold at rest is as its sign says, however clicks fall into the animations, but for
\* two cases.  Open and marked closed: the last click came while it moved, and into the
\* closing animation a click sees the element still visible.  Closed and marked open:
\* the entry of a page of details as it was loaded, until the first click on it.
SignTrue ==
  \A f \in Fold : Resting(f) =>
    \/ sign[f] <=> fold[f] = "shown"
    \/ clicked[f] = "moving" /\ fold[f] = "shown"
    \/ clicked[f] = "never" /\ fold[f] = "hidden" /\ f = Entry
=============================================================================
