\* Sends may outlast the lease.
SPECIFICATION Spec
CONSTANTS
  Incident = {i1, i2}
  Worker = {w1, w2}
  None = None
  MaxAttempts = 2
  LeaseSeconds = 1
  BackoffUnit = 1
  BackoffCap = 2
  RetryAfterCap = 2
  Header <- MCHeader
  NotANumber = NotANumber
  SendBound = 2
  Horizon = 1
  MaxCrashes = 1
  MaxClaims = 3
SYMMETRY Symmetry
INVARIANTS
  IInv
  SentMeansReceived
  RetryBudget
PROPERTIES
  SettledByHolder
