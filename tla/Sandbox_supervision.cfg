SPECIFICATION Spec
CONSTANTS
  Policies <- MCPolicies
  Existing <- MCExisting
  Files <- MCFiles
  Timeout = 2
  MaxWall = 4
  Unset = Unset
INVARIANTS
  GrantsContained
  OutputHeeded
PROPERTIES
  SupervisionEnds
CHECK_DEADLOCK FALSE
