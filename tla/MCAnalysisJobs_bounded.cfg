\* Every run_once fits in the lease; all processes but one may die.
SPECIFICATION Spec
CONSTANTS
  Incident = {i1, i2}
  Worker = {w1, w2}
  None = None
  MaxAttempts = 2
  LeaseSeconds = 2
  RetryUnit = 1
  WorkBound = 2
  Horizon = 1
  MaxCrashes = 1
  MaxClaims = 4
INVARIANTS
  BoundedWorkKeepsLease
PROPERTIES
  EveryJobSettles
