\* The eight testcases of main() on Intel; any of them may die anywhere,
\* and the MSRs may be inaccessible.
CONSTANTS
  Procs = {root, p1}
  Root = root
  NumTests = 8
  NumPrefetchers = 4
  Programmed = {1, 2, 3, 4, 5, 6, 7, 8}
  Enabled <- IntelEnabled
  ByTarget = {2}
  External = {7, 8}
  IdentifyForks <- AllIdentifyForks
  CharacterizeForks <- AllCharacterizeForks
  Dies = {2, 4}
  Cpus = {c0, c1}
  TargetCpu = c0
  CtrCpu = c1
  CounterThread = FALSE
  Faults = {"msr", "fork", "abort"}
SPECIFICATION Spec
INVARIANTS TypeOK MeasuredAsConfigured RunnerSeesAllPrefetchers LeftByFailure ResultsComplete
