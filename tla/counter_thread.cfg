\* Both loops; two workers to be created one after the other, several restarts.
CONSTANTS
  Workers = {w1, w2}
  None = none
  MaxCtr = 8
SPECIFICATION FairCounterSpec
INVARIANTS HandleUsedCorrectly NoOrphan
PROPERTIES ImplementsClock CallsReturn ClockAdvances
