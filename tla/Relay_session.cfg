SPECIFICATION RelaySpec
CONSTANTS
  MaxBeats = 1
  MaxModelCalls = 1
  MaxFaults = 1
  Limits <- MCLimits
INVARIANTS
  AnswersMatch
  NewestDelivers
  OneConversation
PROPERTIES
  RequestSettles
CHECK_DEADLOCK FALSE
