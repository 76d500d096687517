\* Lists of up to two entries after the head, among five.
CONSTANTS
  Count = 5
  MaxEntries = 3
  Measurements = 1
  PageEntries = 4
  Hardware = {"off", "next"}
SPECIFICATION Spec
INVARIANTS ChaseFollowsList HitMeansPrefetched PrefetcherFound
