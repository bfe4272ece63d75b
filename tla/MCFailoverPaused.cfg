CONSTANTS
  Server = {s1, s2}
  NoServer = none
  InitMaster = s1
  InitStandby = s2
  Operated = {s1, s2}
  Write = {w1}
  MaxFaults = 0
SPECIFICATION Spec
INVARIANTS
  PausedStaysReadOnly
