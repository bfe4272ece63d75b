CONSTANTS
  Proxy = {p1, p2}
  Consumer = {c1, c2}
  None = none
  QueueSize = 2
  WireSize = 1
  MaxVersion = 2
  MaxFaults = 1
SPECIFICATION FairSpec
INVARIANTS
  TypeOK
  ClosedUnlisted
  NothingMissed
PROPERTIES
  FeedSpec
  CatchesUp
CHECK_DEADLOCK FALSE
