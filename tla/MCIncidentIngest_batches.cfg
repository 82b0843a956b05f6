\* Every kind of batch: repeated, mixed with one that is refused, too large.
SPECIFICATION Spec
\* When every alert is resolved and answered, nothing is left to happen.
CHECK_DEADLOCK FALSE
CONSTANTS
  a1 = a1
  a2 = a2
  b1 = b1
  x = x
  ea = ea
  eb = eb
  Alert <- MCAlert
  Episode <- MCEpisode
  EpisodeOf <- MCEpisodeOf
  Broken = {x}
  BodyLimit = 3
  Slot = {1, 2}
  Id = {1, 2, 3}
  MaxFaults = 2
INVARIANTS
  IInv
  AcknowledgedIsStored
  OneIncidentPerEpisode
PROPERTIES
  BatchAtomic
