\* Any two items fit, so that only many signatures can exceed the limit.
SPECIFICATION Spec
CONSTANTS
  Signature = {1, 2, 3}
  BadLine = 9
  LongestAnswer = 4
  Limit = 3
  PerQuery = 3
  PerSource = 2
  MaxBytes = 7
  FrameBytes = 1
  ItemBytes = 1
  SampleBytes <- EvenSamples
CHECK_DEADLOCK FALSE
INVARIANTS
  NeitherSourcePushedOut
