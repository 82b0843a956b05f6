\* Analyses may outlast the lease: takeovers of live processes, late results.
SPECIFICATION Spec
CONSTANTS
  Incident = {i1, i2}
  Worker = {w1, w2, w3}
  None = None
  MaxAttempts = 2
  LeaseSeconds = 1
  RetryUnit = 1
  WorkBound = 4
  Horizon = 1
  MaxCrashes = 1
  MaxClaims = 4
SYMMETRY Symmetry
INVARIANTS
  IInv
  Fenced
  OutcomeAtomic
  RetryBudget
PROPERTIES
  SettledByHolder
  KeepsPromise
