\* Every test of the stride testcase on every kind of prefetcher, and single
\* experiments with all ways to collect; two repetitions per line and some.
CONSTANTS
  LineSize = 4
  Lines = 24
  Setups <- TestSetups
  Degree = 2
  Reps = 50
  IdentifyReps = 110
  Noise = 0
  Divisor = 64
  Huge = 1000000
  Kinds <- TestKinds
  Tests <- TestNames
  PageLines = 12
  Stride = 4
  Steps = 4
  MaxSteps = 4
  RandomSteps = 3
  Doublings = 2
  CodeSize = 1
  LoadBase = 12
  MinBits = 1
  MaxBits = 3
  DirectionStride = 28
  DirectionSteps = 3
  CorrStride = 24
  CorrFrom = 2
  CorrTo = 5
  PatternStride = 1
  PatternGap = 8
SPECIFICATION TestSpec
INVARIANTS OnlyPrefetches PrefetcherFound NoStrayAccess SharingTold RangeTold LimitsTold
