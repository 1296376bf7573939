SPECIFICATION RootSpec
CONSTANTS
  v1 = v1
  v2 = v2
  Version = {v1, v2}
  Content = {c1, c2}
  Builtin = v1
  Scenarios <- MCScenarios
  MaxCommands = 3
  MaxFaults = 1
  MaxGeneration = 3
  None = None
INVARIANTS
  RuntimeSound
  SessionUsable
PROPERTIES
  IdentityKept
CHECK_DEADLOCK FALSE
