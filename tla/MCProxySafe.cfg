CONSTANTS
  Conn = {c1, c2}
  Talking = {c1}
  MaxTargets = 1
  MaxIndex = 1
SPECIFICATION Spec
INVARIANTS
  ThreadSafe
