SPECIFICATION MCSpec
CONSTANTS
  n1 = n1
  n2 = n2
  j0 = j0
  j1 = j1
  j2 = j2
  j3 = j3
  j4 = j4
  k1 = k1
  k2 = k2
  k3 = k3
  k4 = k4
  g1 = g1
  e1 = e1
  e2 = e2
  e3 = e3
  f1 = f1
  f2 = f2
  None = None
  HostCancel = HostCancel
  Node = {n1, n2}
  Job = {j0, j1, j2, j3, j4}
  Key = {k1, k2, k3, k4}
  Goal = {g1}
  Manifest <- Manifests
  ProgressState = {"running"}
  TerminalState = {"completed", "cancelled"}
  MaxRevision = 2
  MaxLeases = 3
  MaxSequence = 2
  Criterion = {1, 2, 3}
  Fingerprint = {f1, f2}
  Evidence = {e1, e2, e3}
  worker = worker
  chain = chain
  cycle = cycle
  Request = {worker, chain, cycle}
  Payload <- Payloads
  CriterionOf <- Criteria
  Digest = {d1, d2}
  MaxTries = 2
  MaxFaults = 1
VIEW WithoutQuarantine
INVARIANTS
  LeaseOwnership
  NoDoubleExecution
  LogAgrees
  SupersededFenced
  InvalidationExact
  OutcomeReported
  NoStrayJobs
PROPERTIES
  DecisionsFinal
  AnswersKept
