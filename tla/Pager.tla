-------------------------------- MODULE Pager --------------------------------
(***************************************************************************)
(* A table of the console with its page numbers: the pagination style      *)
(* "bootstrap" of etc/js/charisma.js, and what DataTables                  *)
(* (etc/js/jquery.dataTables.min.js) does between two drawings of it.      *)
(*                                                                         *)
(* Every handler that changes something ends in a drawing, so what is      *)
(* drawn is an operator on the state.  Rows are counted, not told apart:   *)
(* what filtering and sorting select and order is left out.                *)
(***************************************************************************)
EXTENDS Integers

CONSTANTS
  Total,       \* the rows of the table
  Lengths,     \* aLengthMenu
  ShortLength, \* iDisplayLength: the length a table begins with
  ListLength   \* iListLength: how many page numbers there are at most

ASSUME PagerAssumption ==
  /\ Total \in Nat
  /\ Lengths \subseteq Nat \ {0} /\ ShortLength \in Lengths
  /\ ListLength \in Nat /\ ListLength % 2 = 1 /\ ListLength >= 3

VARIABLES
  rows,        \* fnRecordsDisplay(): the rows that pass the filter
  start,       \* _iDisplayStart
  length,      \* _iDisplayLength
  end          \* fnDisplayEnd()

table == <<rows, start, length, end>>

Lesser(a, b) == IF a < b THEN a ELSE b
NotNegative(a) == IF a < 0 THEN 0 ELSE a
Ceiling(a, b) == (a + b - 1) \div b

-----------------------------------------------------------------------------
(***************************************************************************)
(* fnPagingInfo and fnUpdate: what is drawn.                               *)
(***************************************************************************)
Page  == Ceiling(start, length)
Pages == Ceiling(rows, length)

Half == ListLength \div 2

\* Mutant: the case of the last pages is forgotten.
WindowRunsOn(p, n) ==
  CASE n < ListLength               -> 1..n
    [] n >= ListLength /\ p <= Half -> 1..ListLength
    [] OTHER                        -> (p - Half + 1)..(p - Half + ListLength)

\* iStart..iEnd for page p of n, counted from 0.
Window(p, n) ==
  CASE n < ListLength                        -> 1..n
    [] n >= ListLength /\ p <= Half          -> 1..ListLength
    [] n >= ListLength /\ p > Half /\ p >= n - Half -> (n - ListLength + 1)..n
    [] OTHER                                 -> (p - Half + 1)..(p - Half + ListLength)

Numbers == Window(Page, Pages)

\* Mutant: a table with no page left has an arrow to the next.
NextDisabledAtLast == Page = Pages

PrevDisabled == Page = 0
NextDisabled == Page = Pages - 1 \/ Pages = 0

-----------------------------------------------------------------------------
\* _fnCalculateEnd for a page of l rows from s, of n.
EndOf(s, l, n) == Lesser(s + l, n)

Init ==
  /\ rows = Total /\ start = 0
  /\ length = ShortLength /\ end = EndOf(0, ShortLength, Total)

\* Mutant: the place in the table is kept.
FilterHere(n) ==
  /\ rows' = n /\ end' = EndOf(start, length, n)
  /\ UNCHANGED <<start, length>>

\* The first page of the n rows that pass a new filter; for n = rows a sort.
Filter(n) ==
  /\ rows' = n /\ start' = 0 /\ end' = EndOf(0, length, n)
  /\ UNCHANGED length

\* The handler of the menu of lengths: the last page is filled from above.
SetLength(l) ==
  /\ l # length /\ length' = l /\ end' = EndOf(start, l, rows)
  /\ start' = IF end' = rows THEN NotNegative(rows - l) ELSE start
  /\ UNCHANGED rows

GoTo(s) == start' = s /\ end' = EndOf(s, length, rows) /\ UNCHANGED <<rows, length>>

\* Mutant: the first page may begin before the first row.
PreviousFar == start > 0 /\ GoTo(start - length)

\* _fnPageChange for the two arrows.  A disabled arrow is not told apart.
Previous == start > 0 /\ GoTo(NotNegative(start - length))

\* Mutant: the last page is always a full one.
FollowingFilled == start + length < rows /\ GoTo(Lesser(start + length, rows - length))

Following == start + length < rows /\ GoTo(start + length)

\* A click on a page number.
Number(j) == j \in Numbers /\ GoTo((j - 1) * length)

Next ==
  \/ \E n \in 0..Total : Filter(n)
  \/ \E l \in Lengths : SetLength(l)
  \/ Previous \/ Following
  \/ \E j \in 1..Total : Number(j)

Spec == Init /\ [][Next]_table
-----------------------------------------------------------------------------
(***************************************************************************)
(* Properties.                                                             *)
(***************************************************************************)

\* Types, and no place before the first row.
TypeOK ==
  /\ rows \in 0..Total /\ start \in 0..Total
  /\ length \in Lengths /\ end \in 0..Total

\* A table that has rows shows some: whatever was filtered, turned or resized
\* before, the place it shows is one of the rows that are left.
RowsShown ==
  IF rows = 0 THEN start = 0 /\ end = 0
  ELSE start < end /\ end <= rows /\ (end = start + length \/ end = rows)

\* The numbers drawn are pages that exist, as many as there is room for.
NumbersExist ==
  /\ Numbers \subseteq 1..Pages
  /\ \A j \in Numbers : (j - 1) * length < rows
  /\ \E first \in 1..(Pages + 1) : Numbers = first..(first + Lesser(ListLength, Pages) - 1)

Aligned == start % length = 0

\* While pages begin where their numbers say, the page shown is among the
\* numbers, and the arrows are disabled exactly at the two ends.
MarksTrue ==
  Aligned /\ rows > 0 =>
    /\ Page + 1 \in Numbers /\ start = Page * length
    /\ PrevDisabled <=> start = 0
    /\ NextDisabled <=> end = rows

\* Only a new length may leave a page that begins elsewhere; turning pages,
\* filtering and sorting do not.
AlignmentKept == [][Aligned /\ length' = length => start' % length' = 0]_table

\* A new length shows as many rows as it allows.
LengthFills == [][length' # length => end' - start' = Lesser(length', rows')]_table
=============================================================================
