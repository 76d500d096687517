\* No prefetcher, four kinds of region prefetchers, and one that fetches now and
\* then; an even and an odd position of identify().
CONSTANTS
  Lines = 8
  SameOffsets <- Around
  OtherOffsets <- Scattered
  RegionLines = {0, 7}
  EntryOffsets <- Further
  MaxEntries = 3
  RegionSize = 4
  CodeSize = 1
  LoadBase = 12
  MinBits = 1
  MaxBits = 4
  Positions = 2
  Loops = 4
  Reps = 9
  Noise = 0
  Divisor = 64
  Huge = 1000000
  Hardware <- Machines
SPECIFICATION Spec
INVARIANTS OnlyPrefetches PrefetcherFound CharacterTold OrderChecked
