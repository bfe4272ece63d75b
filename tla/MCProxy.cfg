CONSTANTS
  Conn = {c1, c2}
  Talking = {c1}
  MaxTargets = 2
  MaxIndex = 1
SPECIFICATION FairSpec
INVARIANTS
  TypeOK
  RoundRobin
  IndexSettles
  Drained
PROPERTIES
  PipeEnds
  UpdateStored
