\* Every combination of options; one interrupted access in a rough measurement,
\* most accesses of a precise one.
CONSTANTS
  HitTimes = {10, 11}
  MissTimes = {30, 32}
  Outliers = {60}
  RoughOutliers = 1
  PreciseOutliers = 5
  Rough = 40
  Precise = 8
  Lines = 3
  NoiseLevels = {0, 5, 40}
  Probes = 3125
  MaxFound = 2
  UserFr = {0, 17}
  UserNoise = {0, 300}
  UserSleep <- SleepOptions
  Unset = 999999
SPECIFICATION Spec
INVARIANT FrThreshSeparates
PROPERTY CalibrationEnds
