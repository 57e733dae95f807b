SPECIFICATION FairSpec
CONSTANTS
  r1 = r1
  r2 = r2
  r3 = r3
  r4 = r4
  Requests <- FourRequests
  FailureThreshold = 2
  SuccessThreshold = 2
  HalfOpenMax = 3
INVARIANTS
  NoPermitLost
  RefusalAwaitsProbe
PROPERTY
  Recovers
