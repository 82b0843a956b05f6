\* A deployment that is killed or fails, and one or two after it.
SPECIFICATION Spec
\* The last deployment has ended and the incidents are done.
CHECK_DEADLOCK FALSE
CONSTANTS
  Id = {1, 2, 3}
  Episode = {e1, e2}
  MaxDeploys = 3
  MaxKills = 2
INVARIANTS
  IInv
  GateSound
  SchemaKeepsPace
  EpisodeKept
