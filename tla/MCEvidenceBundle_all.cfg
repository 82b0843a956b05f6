\* Every pair of short answers.
SPECIFICATION Spec
CONSTANTS
  Signature = {1, 2, 3}
  BadLine = 9
  LongestAnswer = 4
  Limit = 3
  PerQuery = 3
  PerSource = 2
  MaxBytes = 8
  FrameBytes = 1
  ItemBytes = 1
  SampleBytes <- MixedSamples
CHECK_DEADLOCK FALSE
INVARIANTS
  IInv
  IdsAreCitable
  FrequentKept
  LogsFit
