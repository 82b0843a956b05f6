\* Whether an alert that keeps firing is stored in the end.
SPECIFICATION Spec
\* When every alert is resolved and answered, nothing is left to happen.
CHECK_DEADLOCK FALSE
CONSTANTS
  a1 = a1
  a2 = a2
  b1 = b1
  x = x
  ea = ea
  eb = eb
  Alert <- FewAlert
  Episode <- MCEpisode
  EpisodeOf <- FewEpisodeOf
  Broken = {}
  BodyLimit = 2
  Slot = {1, 2}
  Id = {1, 2, 3}
  MaxFaults = 2
PROPERTIES
  EveryAlertLands
