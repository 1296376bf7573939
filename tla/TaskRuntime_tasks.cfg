SPECIFICATION Spec
CONSTANTS
  Configs <- MCConfigs
  Runners = {r1, r2}
  Cancellers = {c1}
  None = None
  MaxRemediation = 1
  Mortal = {r1}
INVARIANTS
  QuietAgreement
  CompletedDelivered
PROPERTIES
  RunReturns
CHECK_DEADLOCK FALSE
