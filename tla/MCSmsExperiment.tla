--------------------------- MODULE MCSmsExperiment ---------------------------
(***************************************************************************)
(* Offsets and prefetchers for TLC: a page of eight lines stands for one   *)
(* of 64.  As in the tests, training goes outwards from the middle of the  *)
(* page, and the region accesses go to other lines than the training.      *)
(***************************************************************************)
EXTENDS SmsExperiment

Around == <<3, 4, 2, 5, 1>>
Scattered == <<4, 1, 6, 7>>

Further == <<4, 1, 6, 7, 3>>

Prefetchers(keys, stores, bits, entries, forgets) ==
  [key : keys, store : stores, bits : bits, entries : entries, forgets : forgets]

NoPrefetcher == Prefetchers({"none"}, {"at_once"}, {0}, {1}, {FALSE})
RegionPrefetchers == Prefetchers({"pc", "offset"}, {"at_once", "evicted"}, {2}, {1}, {FALSE})
Erratic == Prefetchers({"any"}, {"at_once"}, {0}, {1}, {FALSE})

\* Those that look at more or less of an address than the pairs of functions
\* have in common, and hold more or fewer regions than are tried.
Various ==
  Prefetchers({"pc"}, {"at_once"}, {0, 2, 3, 4, 5, 6}, {2}, BOOLEAN)
    \union Prefetchers({"pc"}, {"at_once"}, {3}, {3, 4}, {TRUE})

Machines == NoPrefetcher \union RegionPrefetchers \union Erratic \union Various
==============================================================================
