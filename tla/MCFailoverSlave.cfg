CONSTANTS
  Server = {s1, s2, s3}
  NoServer = none
  InitMaster = s1
  InitStandby = s2
  Operated = {s2, s3}
  Write = {}
  MaxFaults = 0
SPECIFICATION FairSpec
INVARIANTS
  SwitchCompletes
PROPERTIES
  NewMasterPublished
