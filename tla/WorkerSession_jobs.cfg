SPECIFICATION Spec
CONSTANTS
  w1 = w1
  w2 = w2
  Worker = {w1, w2}
  Rank <- MCRank
  Scenarios <- MCScenarios
  MaxChunks = 2
  MaxAttempts = 2
  MaxFaults = 1
  None = None
INVARIANTS
  OutputsHeld
  OutcomeSound
PROPERTIES
  JobSettles
CHECK_DEADLOCK FALSE
