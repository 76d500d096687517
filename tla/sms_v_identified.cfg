\* Region prefetchers.
CONSTANTS
  Lines = 8
  SameOffsets <- Around
  OtherOffsets <- Scattered
  RegionLines = {0, 7}
  EntryOffsets <- Further
  MaxEntries = 3
  RegionSize = 4
  CodeSize = 1
  LoadBase = 12
  MinBits = 1
  MaxBits = 4
  Positions = 2
  Loops = 4
  Reps = 8
  Noise = 0
  Divisor = 64
  Huge = 1000000
  Hardware <- RegionPrefetchers
SPECIFICATION Spec
INVARIANTS PositiveIfDetected
