SPECIFICATION Spec
CONSTANTS
  None = None
  Process = {p1, p2}
  Call = {c1, c2, c3}
  Amount = {0, 1, 2}
  Revokers = {"revoke_model_grant", "revoke_node"}
  MaxCalls = 2
  MaxTokens = 3
  MaxConcurrency = 2
SYMMETRY Symmetry
INVARIANTS
  WithinLimits
  CallsAccounted
