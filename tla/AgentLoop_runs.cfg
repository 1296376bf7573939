SPECIFICATION Spec
CONSTANTS
  None = None
  Configs <- PassConfigs
  Checks = {"contract_check"}
  Cancellers = {c1}
  MaxTurns = 5
  MaxRemediation = 1
  MaxCrashes = 1
  MaxRetries = 1
  MaxCancels = 1
INVARIANTS
  OpenStepLast
  GatePassed
  RecoveryBounded
  CancelPrompt
PROPERTIES
  TerminalSticky
  LoopEnds
