CONSTANTS
  FailureThreshold = 3
  SuccessThreshold = 2
  HalfOpenRequests = 1
  MaxCalls = 4
SPECIFICATION FairSpec
INVARIANTS
  TypeOK
  SlotsAreReturned
PROPERTIES
  OpensOnStreak
  Recovers
