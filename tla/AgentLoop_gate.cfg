SPECIFICATION Spec
CONSTANTS
  None = None
  Configs <- MixedConfig
  Checks = {"contract_check"}
  Cancellers = {c1}
  MaxTurns = 5
  MaxRemediation = 1
  MaxCrashes = 0
  MaxRetries = 0
  MaxCancels = 0
INVARIANTS
  GatePassed
