\* Everything fails now and then in a counter-thread build: helpers become copies
\* of the benchmark, which may hang joining a thread that they do not have, so
\* the system may stop.
CONSTANTS
  Procs = {root, p1, p2}
  Root = root
  NumTests = 3
  NumPrefetchers = 1
  Programmed = {1, 2, 3}
  Enabled <- CopiesEnabled
  ByTarget = {1}
  External = {2}
  IdentifyForks <- ShortIdentifyForks
  CharacterizeForks <- ShortCharacterizeForks
  Dies = {1, 3}
  Cpus = {c0, c1}
  TargetCpu = c0
  CtrCpu = c1
  CounterThread = TRUE
  Faults = {"pin", "exec", "abort", "io"}
SPECIFICATION FairSpec
INVARIANTS OneActive ClockTicks RunnerClockAlone CallsAtomic RootNeverHangs Restored
PROPERTY Termination
CHECK_DEADLOCK FALSE
