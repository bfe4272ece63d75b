CONSTANTS
  Total = 13
  Lengths = {2, 5, 10, 20}
  ShortLength = 2
  ListLength = 5
  Box = box
  Entry = entry
  MaxWaiting = 2
SPECIFICATION PageSpec
INVARIANTS
  PageTypeOK
  RowsShown
  NumbersExist
  MarksTrue
  SignTrue
PROPERTIES
  AlignmentKept
