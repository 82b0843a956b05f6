\* Work and sends may outlast their leases.
SPECIFICATION Spec
CONSTANTS
  Incident = {i1, i2}
  Worker = {w1, w2}
  None = None
  JobMaxAttempts = 1
  JobLeaseSeconds = 1
  JobRetryUnit = 1
  WorkBound = 2
  NotifyMaxAttempts = 1
  NotifyLeaseSeconds = 1
  BackoffUnit = 1
  BackoffCap = 1
  RetryAfterCap = 1
  Header = {1}
  NotANumber = NotANumber
  SendBound = 2
  Horizon = 1
  MaxCrashes = 1
  MaxClaims = 2
SYMMETRY Symmetry
INVARIANTS
  IInv
  OutboxMatches
  OneLeaseAtATime
