SPECIFICATION MCSpec
CONSTANTS
  e1 = e1
  e2 = e2
  e3 = e3
  None = None
  HostCancel = HostCancel
  Process = {p1, p2}
  Event = {e1, e2, e3}
  AttemptOf <- Attempts
  Writers = {"touch", "cancel", "requeue", "review", "lease"}
  MaxAttempts = 2
  MaxFaults = 2
INVARIANTS
  WriteAhead
  IsolatedRecovery
PROPERTIES
  ImplementsOutcome
  IsolatedCommit
