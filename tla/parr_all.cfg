\* The experiments of main(), and some with too small an array.
CONSTANTS
  Experiments <- All
  Repeat = 2
  PageEntries = 4
  Hardware = {"off", "next"}
  Unmapped = TRUE
SPECIFICATION Spec
INVARIANTS HitMeansPrefetched PrefetcherFound
