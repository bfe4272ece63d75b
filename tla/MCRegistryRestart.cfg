CONSTANTS
  Endpoint = {e1, e2}
  NoEndpoint = none
  Operated = {e1, e2}
  MaxFaults = 1
SPECIFICATION Spec
PROPERTIES
  RestartFindsSavedRoles
