SPECIFICATION AdjacentSpec
CONSTANTS
  Repeat = 2
  HitLatencies = {4, 6}
  MissLatencies = {10, 14}
  FrThreshs = {8}
  NoiseThreshs = {0, 3, 5}
INVARIANTS ReportsPrefetcher PatternsArePrefetches
