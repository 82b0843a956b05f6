\* A timeout that leaves room for the pause and a second request.
SPECIFICATION Spec
\* A settled job is at rest.
CHECK_DEADLOCK FALSE
CONSTANTS
  MaxLogs = 2
  CollectBound = 1
  Timeout = 3
  Pause = 1
  MaxAttempts = 2
  MaxDeaths = 1
INVARIANTS
  IInv
  StoredIsGrounded
  RequestBudget
  RunFits
PROPERTIES
  EveryJobEnds
