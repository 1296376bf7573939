SPECIFICATION Spec
CONSTANTS
  n1 = n1
  j1 = j1
  k1 = k1
  None = None
  HostCancel = HostCancel
  Node = {n1}
  Job = {j1}
  Key = {k1}
  Goal = {}
  Manifest <- SideEffectJob
  ProgressState = {"running"}
  TerminalState = {"completed", "cancelled"}
  MaxRevision = 1
  MaxLeases = 2
  MaxSequence = 1
INVARIANTS
  SideEffectsNotRetried
