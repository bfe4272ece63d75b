----------------------------- MODULE PageProofs -----------------------------
(***************************************************************************)
(* Theorems about Page, for tables of any size, any menu of lengths and    *)
(* any odd number of page numbers.                                         *)
(***************************************************************************)
EXTENDS Page, TLAPS

(***************************************************************************)
(* Arithmetic of pages.                                                    *)
(***************************************************************************)

LEMMA CeilingFacts ==
  ASSUME NEW n \in Nat, NEW l \in Nat \ {0}
  PROVE  /\ Ceiling(n, l) \in Nat
         /\ n <= Ceiling(n, l) * l /\ Ceiling(n, l) * l < n + l
<1> DEFINE a == n + l - 1
<1>1. a \in Nat
  OBVIOUS
<1>2. a \div l \in Nat /\ l * (a \div l) <= a /\ a < l * (a \div l) + l
  BY <1>1
<1>3. l * (a \div l) = (a \div l) * l
  BY <1>2
<1> QED BY <1>1, <1>2, <1>3 DEF Ceiling

\* A smaller number of pages has fewer rows, by a page at least.
LEMMA Multiples ==
  ASSUME NEW a \in Nat, NEW b \in Nat, NEW l \in Nat \ {0}
  PROVE  /\ a < b => a * l + l <= b * l
         /\ a * l < b * l => a < b
<1>1. a < b => a * l + l <= b * l
  OBVIOUS
<1>2. b <= a => b * l <= a * l
  OBVIOUS
<1>3. a * l \in Nat /\ b * l \in Nat
  OBVIOUS
<1> QED BY <1>1, <1>2, <1>3

LEMMA MultipleOf ==
  ASSUME NEW q \in Nat, NEW l \in Nat \ {0}
  PROVE  (q * l) % l = 0 /\ Ceiling(q * l, l) = q
<1>1. (q * l) % l = 0
  OBVIOUS
<1>2. q * l \in Nat
  OBVIOUS
<1> DEFINE c == Ceiling(q * l, l)
<1>3. c \in Nat /\ q * l <= c * l /\ c * l < q * l + l
  BY <1>2, CeilingFacts
<1> HIDE DEF c
<1>4. ~(c < q)
  BY <1>2, <1>3, Multiples
<1>5. ~(q < c)
  BY <1>2, <1>3, Multiples
<1>6. c = q
  BY <1>3, <1>4, <1>5
<1> QED BY <1>1, <1>6 DEF c

\* A place where a page begins.
LEMMA AtPage ==
  ASSUME NEW s \in Nat, NEW l \in Nat \ {0}, s % l = 0
  PROVE  \E q \in Nat : s = q * l
<1>1. s \div l \in Nat /\ s = l * (s \div l)
  OBVIOUS
<1>2. s = (s \div l) * l
  BY <1>1
<1> QED BY <1>1, <1>2

-----------------------------------------------------------------------------
(***************************************************************************)
(* The table.                                                              *)
(***************************************************************************)

\* The inductive invariant of a table.
Sound ==
  /\ TypeOK /\ end = EndOf(start, length, rows)
  /\ start < rows \/ (rows = 0 /\ start = 0)

LEMMA LengthIsPositive == length \in Lengths => length \in Nat \ {0}
BY PagerAssumption

\* The numbers drawn are consecutive, and none is of a page without rows.
LEMMA NumbersAre ==
  ASSUME Sound
  PROVE  NumbersExist
<1> USE PagerAssumption
<1>1. rows \in Nat /\ start \in Nat /\ length \in Nat \ {0}
  BY LengthIsPositive DEF Sound, TypeOK
<1>2. Page \in Nat /\ Pages \in Nat /\ Pages * length < rows + length
  BY <1>1, CeilingFacts DEF Page, Pages
<1>3. start <= rows
  BY <1>1 DEF Sound
<1>4. Page <= Pages
  <2>1. Page * length < start + length /\ rows <= Pages * length
    BY <1>1, CeilingFacts DEF Page, Pages
  <2>2. ~(Pages < Page)
    <3>1. Page * length \in Nat /\ Pages * length \in Nat
      BY <1>1, <1>2
    <3>2. SUFFICES ASSUME Pages < Page PROVE FALSE
      OBVIOUS
    <3>3. Pages * length + length <= Page * length
      BY <1>1, <1>2, <3>2, Multiples
    <3> QED BY <1>1, <1>3, <2>1, <3>1, <3>3
  <2> QED BY <1>2, <2>2
<1>5. Half \in Nat /\ ListLength = 2 * Half + 1 /\ Half >= 1
  BY DEF Half
<1>6. \E first \in 1..(Pages + 1) : Numbers = first..(first + Lesser(ListLength, Pages) - 1)
  <2>1. CASE Pages < ListLength
    <3>1. Numbers = 1..Pages
      BY <1>2, <2>1 DEF Numbers, Window
    <3>2. Lesser(ListLength, Pages) = Pages
      BY <1>2, <2>1 DEF Lesser
    <3>3. 1 \in 1..(Pages + 1) /\ 1 + Pages - 1 = Pages
      BY <1>2
    <3> QED BY <3>1, <3>2, <3>3
  <2>2. CASE Pages >= ListLength
    <3>1. Lesser(ListLength, Pages) = ListLength
      BY <1>2, <2>2 DEF Lesser
    <3>2. CASE Page <= Half
      <4>1. Numbers = 1..ListLength
        BY <1>2, <1>5, <2>2, <3>2 DEF Numbers, Window
      <4>2. 1 \in 1..(Pages + 1) /\ 1 + ListLength - 1 = ListLength
        BY <1>2
      <4> QED BY <3>1, <4>1, <4>2
    <3>3. CASE Page > Half /\ Page >= Pages - Half
      <4>1. Numbers = (Pages - ListLength + 1)..Pages
        BY <1>2, <1>5, <2>2, <3>3 DEF Numbers, Window
      <4>2. /\ Pages - ListLength + 1 \in 1..(Pages + 1)
            /\ (Pages - ListLength + 1) + ListLength - 1 = Pages
        BY <1>2, <2>2
      <4> QED BY <3>1, <4>1, <4>2
    <3>4. CASE Page > Half /\ Page < Pages - Half
      <4>1. Numbers = (Page - Half + 1)..(Page - Half + ListLength)
        BY <1>2, <1>5, <2>2, <3>4 DEF Numbers, Window
      <4>2. /\ Page - Half + 1 \in 1..(Pages + 1)
            /\ (Page - Half + 1) + ListLength - 1 = Page - Half + ListLength
        BY <1>2, <1>5, <3>4
      <4> QED BY <3>1, <4>1, <4>2
    <3> QED BY <1>2, <1>5, <3>2, <3>3, <3>4
  <2> QED BY <1>2, <2>1, <2>2
<1>7. Numbers \subseteq 1..Pages
  BY <1>2, <1>5 DEF Numbers, Window
<1>8. \A j \in 1..Pages : (j - 1) * length < rows
  <2> SUFFICES ASSUME NEW j \in 1..Pages PROVE (j - 1) * length < rows
    OBVIOUS
  <2>1. j - 1 \in Nat /\ j - 1 < Pages
    BY <1>2
  <2>2. (j - 1) * length + length <= Pages * length
    BY <1>1, <1>2, <2>1, Multiples
  <2>3. (j - 1) * length \in Nat /\ Pages * length \in Nat
    BY <1>1, <1>2, <2>1
  <2> QED BY <1>1, <1>2, <2>2, <2>3
<1> QED BY <1>6, <1>7, <1>8 DEF NumbersExist

LEMMA RowsAreShown == Sound => RowsShown
<1> SUFFICES ASSUME Sound PROVE RowsShown
  OBVIOUS
<1>1. rows \in Nat /\ start \in Nat /\ length \in Nat \ {0}
  BY LengthIsPositive, PagerAssumption DEF Sound, TypeOK
<1> QED BY <1>1 DEF Sound, RowsShown, EndOf, Lesser

\* The page shown is among the numbers, and the arrows know the ends.
LEMMA MarksAreTrue == Sound => MarksTrue
<1> USE PagerAssumption
<1> SUFFICES ASSUME Sound, Aligned, rows > 0
             PROVE  /\ Page + 1 \in Numbers /\ start = Page * length
                    /\ PrevDisabled <=> start = 0
                    /\ NextDisabled <=> end = rows
  BY DEF MarksTrue
<1>1. rows \in Nat /\ start \in Nat /\ length \in Nat \ {0}
  BY LengthIsPositive DEF Sound, TypeOK
<1>2. PICK q \in Nat : start = q * length
  BY <1>1, AtPage DEF Aligned
<1>3. Page = q
  BY <1>1, <1>2, MultipleOf DEF Page
<1>4. start < rows /\ end = Lesser(start + length, rows)
  BY DEF Sound, EndOf
<1>5. Pages \in Nat /\ rows <= Pages * length /\ Pages * length < rows + length
  BY <1>1, CeilingFacts DEF Pages
<1>6. Pages * length \in Nat /\ q * length \in Nat
  BY <1>1, <1>5
<1>7. q < Pages
  BY <1>1, <1>2, <1>4, <1>5, <1>6, Multiples
<1>8. Half \in Nat /\ ListLength = 2 * Half + 1 /\ Half >= 1
  BY DEF Half
<1>9. Page + 1 \in Numbers
  <2>1. CASE Pages < ListLength
    BY <1>3, <1>5, <1>7, <2>1 DEF Numbers, Window
  <2>2. CASE Pages >= ListLength /\ q <= Half
    BY <1>3, <1>5, <1>7, <1>8, <2>2 DEF Numbers, Window
  <2>3. CASE Pages >= ListLength /\ q > Half /\ q >= Pages - Half
    <3>1. Numbers = (Pages - ListLength + 1)..Pages
      BY <1>3, <1>5, <1>8, <2>3 DEF Numbers, Window
    <3> QED BY <1>3, <1>5, <1>7, <1>8, <2>3, <3>1
  <2>4. CASE Pages >= ListLength /\ q > Half /\ q < Pages - Half
    BY <1>3, <1>5, <1>7, <1>8, <2>4 DEF Numbers, Window
  <2> QED BY <1>5, <1>8, <2>1, <2>2, <2>3, <2>4
<1>10. PrevDisabled <=> start = 0
  <2>1. q = 0 => q * length = 0
    BY <1>1
  <2>2. q > 0 => q * length > 0
    BY <1>1
  <2> QED BY <1>2, <1>3, <2>1, <2>2 DEF PrevDisabled
<1>11. NextDisabled <=> end = rows
  <2>1. (q + 1) * length = start + length
    BY <1>1, <1>2
  <2>2. q = Pages - 1 => start + length = Pages * length
    <3> SUFFICES ASSUME q = Pages - 1 PROVE start + length = Pages * length
      OBVIOUS
    <3>1. Pages = q + 1
      BY <1>5
    <3> QED BY <2>1, <3>1
  <2>3. q + 1 < Pages => start + length < rows
    <3> SUFFICES ASSUME q + 1 < Pages PROVE start + length < rows
      OBVIOUS
    <3>1. (q + 1) * length + length <= Pages * length
      BY <1>1, <1>5, Multiples
    <3> QED BY <1>1, <1>5, <1>6, <2>1, <3>1
  <2>4. NextDisabled <=> q = Pages - 1
    BY <1>3, <1>5, <1>7 DEF NextDisabled
  <2> QED BY <1>1, <1>4, <1>5, <1>6, <1>7, <2>2, <2>3, <2>4 DEF Lesser
<1> QED BY <1>2, <1>3, <1>9, <1>10, <1>11

-----------------------------------------------------------------------------

LEMMA TableBegins == Init => Sound
BY LengthIsPositive, PagerAssumption DEF Init, Sound, TypeOK, EndOf, Lesser

\* A new filter, and a new length.
LEMMA FilterKeepsSound ==
  ASSUME Sound, NEW n \in 0..Total, Filter(n)
  PROVE  Sound'
BY LengthIsPositive, PagerAssumption DEF Sound, TypeOK, Filter, EndOf, Lesser

LEMMA SetLengthKeepsSound ==
  ASSUME Sound, NEW l \in Lengths, SetLength(l)
  PROVE  Sound' /\ end' - start' = Lesser(length', rows')
<1>1. l \in Nat \ {0} /\ rows \in 0..Total /\ start \in 0..Total /\ Total \in Nat
  BY PagerAssumption DEF Sound, TypeOK
<1>2. length' = l /\ rows' = rows /\ end' = Lesser(start + l, rows)
  BY DEF SetLength, EndOf
<1>3. start' = IF end' = rows THEN NotNegative(rows - l) ELSE start
  BY DEF SetLength
<1>4. start < rows \/ (rows = 0 /\ start = 0)
  BY DEF Sound
<1>5. start' \in 0..Total /\ end' \in 0..Total /\ end' = Lesser(start' + l, rows)
  BY <1>1, <1>2, <1>3, <1>4 DEF Lesser, NotNegative
<1>6. start' < rows \/ (rows = 0 /\ start' = 0)
  BY <1>1, <1>3, <1>4 DEF NotNegative
<1>7. end' - start' = Lesser(l, rows)
  BY <1>1, <1>2, <1>3, <1>4 DEF Lesser, NotNegative
<1> QED BY <1>1, <1>2, <1>5, <1>6, <1>7 DEF Sound, TypeOK, EndOf

\* Wherever a page is turned to, it has rows.
LEMMA GoToKeepsSound ==
  ASSUME Sound, NEW s \in Nat, s < rows, GoTo(s)
  PROVE  Sound'
BY LengthIsPositive, PagerAssumption DEF Sound, TypeOK, GoTo, EndOf, Lesser

LEMMA PreviousPage ==
  ASSUME Sound, Previous
  PROVE  Sound' /\ (Aligned => start' % length = 0)
<1>1. rows \in Nat /\ start \in Nat /\ length \in Nat \ {0}
  BY LengthIsPositive, PagerAssumption DEF Sound, TypeOK
<1>2. start > 0 /\ start' = NotNegative(start - length) /\ GoTo(start')
  BY DEF Previous, GoTo
<1>3. start' \in Nat /\ start' < rows
  BY <1>1, <1>2 DEF NotNegative, Sound
<1>4. Aligned => start' % length = 0
  <2> SUFFICES ASSUME Aligned PROVE start' % length = 0
    OBVIOUS
  <2>1. PICK q \in Nat : start = q * length
    BY <1>1, AtPage DEF Aligned
  <2>2. q >= 1
    BY <1>1, <1>2, <2>1
  <2>3. (q - 1) * length = start - length /\ (q - 1) * length \in Nat
    BY <1>1, <2>1, <2>2
  <2>4. start' = (q - 1) * length
    BY <1>1, <1>2, <2>3 DEF NotNegative
  <2> QED BY <1>1, <2>2, <2>4, MultipleOf
<1> QED BY <1>2, <1>3, <1>4, GoToKeepsSound

LEMMA FollowingPage ==
  ASSUME Sound, Following
  PROVE  Sound' /\ (Aligned => start' % length = 0)
<1>1. rows \in Nat /\ start \in Nat /\ length \in Nat \ {0}
  BY LengthIsPositive, PagerAssumption DEF Sound, TypeOK
<1>2. start + length < rows /\ start' = start + length /\ GoTo(start + length)
  BY DEF Following, GoTo
<1>3. Aligned => start' % length = 0
  <2> SUFFICES ASSUME Aligned PROVE start' % length = 0
    OBVIOUS
  <2>1. PICK q \in Nat : start = q * length
    BY <1>1, AtPage DEF Aligned
  <2>2. start' = (q + 1) * length
    BY <1>1, <1>2, <2>1
  <2> QED BY <1>1, <2>2, MultipleOf
<1> QED BY <1>1, <1>2, <1>3, GoToKeepsSound

LEMMA NumberedPage ==
  ASSUME Sound, NEW j \in 1..Total, Number(j)
  PROVE  Sound' /\ start' % length = 0
<1>1. rows \in Nat /\ start \in Nat /\ length \in Nat \ {0} /\ j - 1 \in Nat
  BY LengthIsPositive, PagerAssumption DEF Sound, TypeOK
<1>2. (j - 1) * length < rows
  BY NumbersAre DEF Number, NumbersExist
<1>3. (j - 1) * length \in Nat
  BY <1>1
<1>4. start' = (j - 1) * length /\ GoTo((j - 1) * length)
  BY DEF Number, GoTo
<1> QED BY <1>1, <1>2, <1>3, <1>4, GoToKeepsSound, MultipleOf

\* What a step of the table keeps.
Steady ==
  /\ Aligned /\ length' = length => start' % length' = 0
  /\ length' # length => end' - start' = Lesser(length', rows')

LEMMA TableStep ==
  ASSUME Sound, Next
  PROVE  Sound' /\ Steady
<1>1. ASSUME NEW n \in 0..Total, Filter(n) PROVE Sound' /\ Steady
  <2>1. start' = 0 /\ length' = length /\ length \in Nat \ {0}
    BY <1>1, LengthIsPositive DEF Filter, Sound, TypeOK
  <2> QED BY <1>1, <2>1, FilterKeepsSound DEF Steady
<1>2. ASSUME NEW l \in Lengths, SetLength(l) PROVE Sound' /\ Steady
  <2>1. length' # length
    BY <1>2 DEF SetLength
  <2> QED BY <1>2, <2>1, SetLengthKeepsSound DEF Steady
<1>3. CASE Previous
  <2>1. length' = length
    BY <1>3 DEF Previous, GoTo
  <2> QED BY <1>3, <2>1, PreviousPage DEF Steady
<1>4. CASE Following
  <2>1. length' = length
    BY <1>4 DEF Following, GoTo
  <2> QED BY <1>4, <2>1, FollowingPage DEF Steady
<1>5. ASSUME NEW j \in 1..Total, Number(j) PROVE Sound' /\ Steady
  <2>1. length' = length
    BY <1>5 DEF Number, GoTo
  <2> QED BY <1>5, <2>1, NumberedPage DEF Steady
<1> QED BY <1>1, <1>2, <1>3, <1>4, <1>5 DEF Next

-----------------------------------------------------------------------------
(***************************************************************************)
(* The folds.                                                              *)
(***************************************************************************)

\* A fold at rest waits for nothing and, as one whose animation began with the
\* last click, goes where its sign says; a click on a moving one closes.  One never
\* clicked is as the page came.
FoldSound(f) ==
  /\ Resting(f) => waiting[f] = 0
  /\ clicked[f] = "never" =>
       /\ f = Entry => fold[f] = "hidden"
       /\ f # Entry => fold[f] = "shown" /\ sign[f] = TRUE
  /\ clicked[f] = "rest" =>
       /\ waiting[f] = 0
       /\ sign[f] <=> fold[f] \in {"shown", "showing"}
  /\ clicked[f] = "moving" => ~sign[f]

IInv == Sound /\ FoldsOK /\ \A f \in Fold : FoldSound(f)

LEMMA SignsAreTrue == IInv => SignTrue
<1> SUFFICES ASSUME IInv, NEW f \in Fold, Resting(f)
             PROVE  \/ sign[f] <=> fold[f] = "shown"
                    \/ clicked[f] = "moving" /\ fold[f] = "shown"
                    \/ clicked[f] = "never" /\ fold[f] = "hidden" /\ f = Entry
  BY DEF SignTrue
<1>1. FoldSound(f) /\ sign[f] \in BOOLEAN
  BY DEF IInv, FoldsOK
<1>2. fold[f] = "shown" \/ fold[f] = "hidden"
  BY DEF Resting
<1>3. CASE clicked[f] = "never"
  BY <1>1, <1>2, <1>3 DEF FoldSound
<1>4. CASE clicked[f] = "rest"
  <2>1. fold[f] \in {"shown", "showing"} <=> fold[f] = "shown"
    BY <1>2
  <2>2. sign[f] <=> fold[f] \in {"shown", "showing"}
    BY <1>1, <1>4, Zenon DEF FoldSound
  <2> QED BY <2>1, <2>2, Zenon
<1>5. CASE clicked[f] = "moving"
  <2>1. ~sign[f]
    BY <1>1, <1>5 DEF FoldSound
  <2> QED BY <1>2, <1>5, <2>1
<1> QED BY <1>1, <1>3, <1>4, <1>5 DEF IInv, FoldsOK

LEMMA Fresh ==
  ASSUME NEW v \in Views, fold = FreshFold(v), sign = FreshSign(v),
         clicked = FreshClicked(v), waiting = [f \in Fold |-> 0]
  PROVE  FoldsOK /\ \A f \in Fold : FoldSound(f)
<1>1. /\ sign \in [Fold -> BOOLEAN]
      /\ sign[Box] = TRUE /\ sign[Entry] = (v # "overview")
  <2>1. \A f \in Fold : (f = Box \/ v # "overview") \in BOOLEAN
    OBVIOUS
  <2>2. Box \in Fold /\ Entry \in Fold
    BY DEF Fold
  <2>3. sign[Entry] = (Entry = Box \/ v # "overview") /\ sign[Box] = (Box = Box \/ v # "overview")
    BY <2>2, Zenon DEF FreshSign
  <2>4. (Entry = Box \/ v # "overview") = (v # "overview") /\ (Box = Box \/ v # "overview") = TRUE
    BY PageAssumption
  <2>5. sign \in [Fold -> BOOLEAN]
    BY <2>1 DEF FreshSign
  <2> QED BY <2>3, <2>4, <2>5, Zenon
<1>2. /\ fold \in [Fold -> {"shown", "hiding", "hidden", "showing"}]
      /\ fold[Box] = "shown" /\ fold[Entry] = IF v = "entry" THEN "showing" ELSE "hidden"
  BY PageAssumption DEF FreshFold, Fold
<1>3. /\ clicked \in [Fold -> {"never", "rest", "moving"}]
      /\ clicked[Box] = "never" /\ clicked[Entry] = IF v = "entry" THEN "rest" ELSE "never"
  BY PageAssumption DEF FreshClicked, Fold
<1>4. waiting \in [Fold -> 0..MaxWaiting] /\ \A f \in Fold : waiting[f] = 0
  BY PageAssumption
<1>5. FoldSound(Box)
  BY <1>1, <1>2, <1>3, <1>4, PageAssumption DEF FoldSound, Resting, Fold
<1>6. FoldSound(Entry)
  BY <1>1, <1>2, <1>3, <1>4 DEF FoldSound, Resting, Fold
<1> QED BY <1>1, <1>2, <1>3, <1>4, <1>5, <1>6 DEF FoldsOK, Fold

LEMMA FreshNext ==
  ASSUME NEW v \in Views, fold' = FreshFold(v), sign' = FreshSign(v),
         clicked' = FreshClicked(v), waiting' = [f \in Fold |-> 0]
  PROVE  (FoldsOK /\ \A f \in Fold : FoldSound(f))'
<1>1. /\ sign' \in [Fold -> BOOLEAN]
      /\ sign'[Box] = TRUE /\ sign'[Entry] = (v # "overview")
  <2>1. \A f \in Fold : (f = Box \/ v # "overview") \in BOOLEAN
    OBVIOUS
  <2>2. Box \in Fold /\ Entry \in Fold
    BY DEF Fold
  <2>3. sign'[Entry] = (Entry = Box \/ v # "overview") /\ sign'[Box] = (Box = Box \/ v # "overview")
    BY <2>2, Zenon DEF FreshSign
  <2>4. (Entry = Box \/ v # "overview") = (v # "overview") /\ (Box = Box \/ v # "overview") = TRUE
    BY PageAssumption
  <2>5. sign' \in [Fold -> BOOLEAN]
    BY <2>1 DEF FreshSign
  <2> QED BY <2>3, <2>4, <2>5, Zenon
<1>2. /\ fold' \in [Fold -> {"shown", "hiding", "hidden", "showing"}]
      /\ fold'[Box] = "shown" /\ fold'[Entry] = IF v = "entry" THEN "showing" ELSE "hidden"
  BY PageAssumption DEF FreshFold, Fold
<1>3. /\ clicked' \in [Fold -> {"never", "rest", "moving"}]
      /\ clicked'[Box] = "never" /\ clicked'[Entry] = IF v = "entry" THEN "rest" ELSE "never"
  BY PageAssumption DEF FreshClicked, Fold
<1>4. waiting' \in [Fold -> 0..MaxWaiting] /\ \A f \in Fold : waiting'[f] = 0
  BY PageAssumption
<1>5. FoldSound(Box)'
  BY <1>1, <1>2, <1>3, <1>4, PageAssumption DEF FoldSound, Resting, Fold
<1>6. FoldSound(Entry)'
  BY <1>1, <1>2, <1>3, <1>4 DEF FoldSound, Resting, Fold
<1> QED BY <1>1, <1>2, <1>3, <1>4, <1>5, <1>6 DEF FoldsOK, Fold

LEMMA ClickKeepsFolds ==
  ASSUME IInv, NEW f \in Fold, Click(f)
  PROVE  (FoldsOK /\ \A g \in Fold : FoldSound(g))'
<1>1. sign' \in [Fold -> BOOLEAN]
  BY DEF IInv, FoldsOK, Click
<1>2. /\ fold' \in [Fold -> {"shown", "hiding", "hidden", "showing"}]
      /\ clicked' \in [Fold -> {"never", "rest", "moving"}]
  BY DEF IInv, FoldsOK, Click, Turned
<1>3. waiting' \in [Fold -> 0..MaxWaiting]
  BY PageAssumption DEF IInv, FoldsOK, Click
<1>4. sign'[f] = ~Visible(f) /\ clicked'[f] = IF Resting(f) THEN "rest" ELSE "moving"
  BY DEF IInv, FoldsOK, Click
<1>5. \A g \in Fold \ {f} : /\ fold'[g] = fold[g] /\ waiting'[g] = waiting[g]
                            /\ clicked'[g] = clicked[g] /\ sign'[g] = sign[g]
  BY DEF IInv, FoldsOK, Click
<1>6. \A g \in Fold \ {f} : FoldSound(g)'
  BY <1>5 DEF IInv, FoldSound, Resting
<1>7. Resting(f) => waiting[f] = 0
  BY DEF IInv, FoldSound
<1>8. CASE Resting(f)
  <2>1. fold'[f] = Turned(fold[f]) /\ waiting'[f] = 0
    BY <1>7, <1>8 DEF IInv, FoldsOK, Click
  <2>2. fold[f] \in {"shown", "hidden"}
    BY <1>8 DEF Resting
  <2> QED BY <1>1, <1>2, <1>3, <1>4, <1>6, <1>8, <2>1, <2>2
          DEF FoldsOK, FoldSound, Resting, Visible, Turned
<1>9. CASE ~Resting(f)
  <2>1. fold'[f] = fold[f]
    BY <1>9 DEF IInv, FoldsOK, Click
  <2>2. ~Resting(f)' /\ ~sign'[f] /\ clicked'[f] = "moving"
    BY <1>4, <1>9, <2>1 DEF Resting, Visible
  <2>3. FoldSound(f)'
    BY <2>2 DEF FoldSound
  <2>4. \A g \in Fold : FoldSound(g)'
    BY <1>6, <2>3
  <2> QED BY <1>1, <1>2, <1>3, <2>4, <2>2, <1>6, <1>5 DEF FoldsOK, FoldSound
<1> QED BY <1>8, <1>9

LEMMA AnimationKeepsFolds ==
  ASSUME IInv, NEW f \in Fold, AnimationEnds(f)
  PROVE  (FoldsOK /\ \A g \in Fold : FoldSound(g))'
<1> DEFINE rest == IF fold[f] = "hiding" THEN "hidden" ELSE "shown"
<1>1. sign' = sign /\ clicked' = clicked
  BY DEF AnimationEnds
<1>2. fold[f] \in {"hiding", "showing"}
  BY DEF IInv, FoldsOK, AnimationEnds, Resting
<1>3. /\ fold' \in [Fold -> {"shown", "hiding", "hidden", "showing"}]
      /\ waiting' \in [Fold -> 0..MaxWaiting]
  BY PageAssumption DEF IInv, FoldsOK, AnimationEnds, Turned
<1>4. \A g \in Fold \ {f} : fold'[g] = fold[g] /\ waiting'[g] = waiting[g]
  BY DEF IInv, FoldsOK, AnimationEnds
<1>5. \A g \in Fold \ {f} : FoldSound(g)'
  BY <1>1, <1>4 DEF IInv, FoldSound, Resting
<1>6. CASE waiting[f] = 0
  <2>1. fold'[f] = rest /\ waiting'[f] = 0
    BY <1>6 DEF IInv, FoldsOK, AnimationEnds
  <2> QED BY <1>1, <1>2, <1>3, <1>5, <2>1 DEF IInv, FoldsOK, FoldSound, Resting
<1>7. CASE waiting[f] > 0
  <2>1. fold'[f] = Turned(rest)
    BY <1>7, PageAssumption DEF IInv, FoldsOK, AnimationEnds
  <2>2. ~Resting(f)' /\ clicked[f] = "moving" /\ ~sign[f]
    BY <1>2, <1>7, <2>1 DEF IInv, FoldsOK, FoldSound, Resting, Turned
  <2> QED BY <1>1, <1>3, <1>5, <2>2 DEF IInv, FoldsOK, FoldSound
<1> QED BY <1>6, <1>7, PageAssumption DEF IInv, FoldsOK

-----------------------------------------------------------------------------
(***************************************************************************)
(* The page.                                                               *)
(***************************************************************************)

LEMMA Initially == PageInit => IInv
<1> SUFFICES ASSUME PageInit PROVE IInv
  OBVIOUS
<1>1. PICK v \in Views : fold = FreshFold(v) /\ sign = FreshSign(v) /\ clicked = FreshClicked(v)
  BY DEF PageInit
<1> QED BY <1>1, TableBegins, Fresh DEF PageInit, IInv

LEMMA LoadKeeps ==
  ASSUME IInv, NEW v \in Views, Load(v)
  PROVE  IInv' /\ Steady
<1> USE PagerAssumption
<1>1. ShortLength \in Nat \ {0}
  OBVIOUS
<1>2. Sound'
  BY <1>1 DEF Load, Sound, TypeOK, EndOf, Lesser
<1>3. Steady
  BY <1>1 DEF Load, Steady, EndOf, Lesser
<1>4. (FoldsOK /\ \A f \in Fold : FoldSound(f))'
  BY FreshNext DEF Load
<1> QED BY <1>2, <1>3, <1>4 DEF IInv

LEMMA TableUnchanged ==
  ASSUME IInv, UNCHANGED table
  PROVE  Sound' /\ Steady
<1>1. rows' = rows /\ start' = start /\ length' = length /\ end' = end
  BY DEF table
<1> QED BY <1>1 DEF IInv, Sound, TypeOK, EndOf, Lesser, Steady, Aligned

LEMMA FoldsUnchanged ==
  ASSUME IInv, UNCHANGED folds
  PROVE  (FoldsOK /\ \A f \in Fold : FoldSound(f))'
<1>1. fold' = fold /\ waiting' = waiting /\ sign' = sign /\ clicked' = clicked
  BY DEF folds
<1> QED BY <1>1 DEF IInv, FoldsOK, FoldSound, Resting

LEMMA Step == IInv /\ [PageNext]_vars => IInv' /\ Steady
<1> SUFFICES ASSUME IInv, [PageNext]_vars PROVE IInv' /\ Steady
  OBVIOUS
<1>1. ASSUME NEW f \in Fold, Click(f) PROVE IInv' /\ Steady
  <2>1. UNCHANGED table
    BY <1>1 DEF Click
  <2> QED BY <1>1, <2>1, ClickKeepsFolds, TableUnchanged DEF IInv
<1>2. ASSUME NEW f \in Fold, AnimationEnds(f) PROVE IInv' /\ Steady
  <2>1. UNCHANGED table
    BY <1>2 DEF AnimationEnds
  <2> QED BY <1>2, <2>1, AnimationKeepsFolds, TableUnchanged DEF IInv
<1>3. CASE UseTable
  <2>1. Next /\ UNCHANGED folds /\ Sound
    BY <1>3 DEF UseTable, IInv
  <2> QED BY <2>1, TableStep, FoldsUnchanged DEF IInv
<1>4. ASSUME NEW v \in Views, Load(v) PROVE IInv' /\ Steady
  BY <1>4, LoadKeeps
<1>5. CASE UNCHANGED vars
  <2>1. UNCHANGED table /\ UNCHANGED folds
    BY <1>5 DEF vars
  <2> QED BY <2>1, TableUnchanged, FoldsUnchanged DEF IInv
<1> QED BY <1>1, <1>2, <1>3, <1>4, <1>5 DEF PageNext

LEMMA Always == PageSpec => []IInv
<1>1. PageInit => IInv
  BY Initially
<1>2. IInv /\ [PageNext]_vars => IInv'
  BY Step
<1> QED BY <1>1, <1>2, PTL DEF PageSpec

\* Types, and that nothing waits for an element at rest.
THEOREM TypeCorrect == PageSpec => []PageTypeOK
<1>1. IInv => PageTypeOK
  BY DEF IInv, Sound, PageTypeOK
<1> QED BY <1>1, Always, PTL

\* A table that has rows shows some, at a place that is left.
THEOREM TablesShowRows == PageSpec => []RowsShown
<1>1. IInv => RowsShown
  BY RowsAreShown DEF IInv
<1> QED BY <1>1, Always, PTL

\* Page numbers are of pages that exist, and there are as many as fit.
THEOREM NumbersArePages == PageSpec => []NumbersExist
<1>1. IInv => NumbersExist
  BY NumbersAre DEF IInv
<1> QED BY <1>1, Always, PTL

\* On a page that begins where its number says, the marks are true.
THEOREM MarksOfPages == PageSpec => []MarksTrue
<1>1. IInv => MarksTrue
  BY MarksAreTrue DEF IInv
<1> QED BY <1>1, Always, PTL

\* A fold at rest is as its sign says unless the last click came while it moved, and
\* then it is open and marked closed, or nobody has clicked on it since the page of
\* details was loaded, and then it is closed and marked open.
THEOREM SignsOfFolds == PageSpec => []SignTrue
<1>1. IInv => SignTrue
  BY SignsAreTrue
<1> QED BY <1>1, Always, PTL

\* Pages begin where their numbers say until a new length is chosen.
THEOREM PagesStayAligned == PageSpec => AlignmentKept
<1>1. IInv /\ [PageNext]_vars => [Aligned /\ length' = length => start' % length' = 0]_table
  BY Step DEF Steady
<1> QED BY <1>1, Always, PTL DEF PageSpec, AlignmentKept

\* A new length shows as many rows as it allows.
THEOREM LengthsFill == PageSpec => LengthFills
<1>1. IInv /\ [PageNext]_vars => [length' # length => end' - start' = Lesser(length', rows')]_table
  BY Step DEF Steady
<1> QED BY <1>1, Always, PTL DEF PageSpec, LengthFills
=============================================================================
