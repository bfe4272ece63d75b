CONSTANTS
  Endpoint = {e1, e2}
  NoEndpoint = none
  Operated = {e1, e2}
  MaxFaults = 2
SPECIFICATION FairSpec
INVARIANTS
  TypeOK
  TableConsistent
  SavedWhenIdle
PROPERTIES
  RestartKeepsRoles
  ArrivalShownForGood
