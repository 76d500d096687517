\* Pages of four lines for the stream, three lines and random offsets for the
\* temporal experiment, the offsets of the source for the replay.
CONSTANTS
  Hardware = {"none", "own", "any"}
  Noise = 0
  Divisor = 64
  Huge = 1000000
  StreamLines = 8
  PageLines = 4
  First = 1
  Sizes = {2, 3, 4, 5, 6}
  Confirm = 2
  Degree = 2
  TemporalLines = 3
  NumAddr = 3
  TemporalLoops = 2
  ReplayLines = 64
  ReplayTraining <- ReplaySequence
  ReplayTriggers = 5
  ReplayLoops = 2
SPECIFICATION Spec
INVARIANTS OnlyPrefetches StreamCounted TemporalTold ReplayIdentified
