CONSTANTS
  r1 = r1  r2 = r2  r3 = r3
  FailureThreshold = 2  HalfOpenMax = 1  MaxRetries = 2  HasFallback = TRUE
  Requests = {r1, r2}
SPECIFICATION FairSpec
INVARIANTS TypeOK  NeverLockedOut
PROPERTIES KeepsPromise EventuallyAdmits KeepsFairPromise
