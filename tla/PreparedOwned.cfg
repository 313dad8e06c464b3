SPECIFICATION FairSpec
CONSTANTS
  MaxRequests = 2
  Sources <- MCTwoSources
  MaxSessions = 2
  Faults = {}
INVARIANTS
  TypeOK
  ClaimHasOwner
  CancelTakesEffect
PROPERTIES
  EndsRespectOwners
  RequestsSettle
CHECK_DEADLOCK FALSE
