\* Every send fits in the lease; all processes but one may die.
SPECIFICATION Spec
CONSTANTS
  Incident = {i1, i2}
  Worker = {w1, w2}
  None = None
  MaxAttempts = 2
  LeaseSeconds = 2
  BackoffUnit = 1
  BackoffCap = 2
  RetryAfterCap = 2
  Header <- MCHeader
  NotANumber = NotANumber
  SendBound = 2
  Horizon = 1
  MaxCrashes = 1
  MaxClaims = 4
INVARIANTS
  NoNeedlessDuplicate
  BoundedSendKeepsLease
PROPERTIES
  HonoursRetryAfter
  EveryDeliveryEnds
