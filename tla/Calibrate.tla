------------------------------ MODULE Calibrate ------------------------------
(***************************************************************************)
(* The calibration that runs before the testcases (calibrate.cc): the      *)
(* threshold that tells a cache hit from a miss, the noise threshold, and  *)
(* whether to sleep before probing.  What the user gave is kept.           *)
(*                                                                         *)
(* The latencies of the accesses, the cache histogram of a run without a   *)
(* workload and the prefetches that a stride experiment finds are the      *)
(* environment's choice.                                                   *)
(***************************************************************************)
EXTENDS Integers

CONSTANTS
  HitTimes, MissTimes,   (* undisturbed latencies of hits and of misses       *)
  Outliers,              (* latencies of interrupted accesses                 *)
  Rough, Precise,        (* accesses in a measurement: 100000 and 10000000    *)
  RoughOutliers,         (* how many outliers fall into the first of these,   *)
  PreciseOutliers,       (* and how many into the second                      *)
  Lines,                 (* lines of the mapping                              *)
  NoiseLevels,           (* values of the histogram without a workload        *)
  Probes,                (* no_repetitions / cache_histogram.size(): 3125     *)
  MaxFound,              (* prefetches that the stride experiment may find    *)
  UserFr, UserNoise, UserSleep,   (* what the command line may say            *)
  Unset                  (* largest size_t: no -n option                      *)

ASSUME CalibrateAssumption ==
  /\ HitTimes \subseteq Nat /\ HitTimes # {}
  /\ MissTimes \subseteq Nat /\ MissTimes # {}
  /\ Outliers \subseteq Nat /\ RoughOutliers \in Nat /\ PreciseOutliers \in Nat
  /\ Rough \in Nat \ {0} /\ Precise \in Nat \ {0}
  /\ Lines \in Nat \ {0} /\ Probes \in Nat \ {0} /\ MaxFound \in Nat
  /\ NoiseLevels \subseteq Nat
  /\ UserFr \subseteq Nat /\ UserSleep \subseteq {-1, 0, 1}
  /\ UserNoise \subseteq Nat /\ Unset \in Nat

VARIABLES
  pc,
  fr_thresh, noise_thresh, use_nanosleep,   (* the parameters                *)
  user,          (* their values on the command line                         *)
  avg,           (* results of the measurements so far: hit_median,          *)
                 (* miss_median, hit, miss                                   *)
  i, sum, j,     (* access_measure(): accesses, their sum and number kept    *)
  outliers       (* outliers in this measurement                             *)

parameters == <<fr_thresh, noise_thresh, use_nanosleep>>
measuring == <<i, sum, j, outliers>>
vars == <<pc, parameters, user, avg, measuring>>

Measurements == {"hit_median", "miss_median", "hit", "miss"}
IsRough(m) == m \in {"hit_median", "miss_median"}
Repeat(m) == IF IsRough(m) THEN Rough ELSE Precise
Times(m) == IF m \in {"hit_median", "hit"} THEN HitTimes ELSE MissTimes

\* The step after a measurement.
Following == [m \in Measurements |->
  CASE m = "hit_median" -> "miss_median"
    [] m = "miss_median" -> "hit"
    [] m = "hit" -> "miss"
    [] m = "miss" -> "thresh"]

Init ==
  /\ pc = "start"
  /\ fr_thresh \in UserFr
  /\ noise_thresh \in UserNoise \union {Unset}
  /\ use_nanosleep \in UserSleep
  /\ user = [fr |-> fr_thresh, noise |-> noise_thresh, sleep |-> use_nanosleep]
  /\ avg = [m \in Measurements |-> 0]
  /\ i = 0 /\ sum = 0 /\ j = 0 /\ outliers = 0

\* fr_thresh == 0: no -f option, or -f 0.
Start ==
  /\ pc = "start"
  /\ pc' = IF fr_thresh = 0 THEN "hit_median" ELSE "noise"
  /\ UNCHANGED <<parameters, user, avg, measuring>>

------------------------------------------------------------------------------
\* calibrate_thresh() and access_measure()

\* The result of the first measurement of the same accesses; 0: no filter.
Median(m) == CASE m = "hit" -> avg["hit_median"]
               [] m = "miss" -> avg["miss_median"]
               [] OTHER -> 0

\* Faulty variant of Kept: the filter is never on.
KeptAll(delta, median) == TRUE

\* Faulty variant of Kept: the outliers are kept, and nothing else.
KeptOutliers(delta, median) ==
  median # 0 => 5 * delta < 4 * median \/ 4 * delta > 5 * median

\* ! (median && (delta < median / 1.25 || delta > 1.25 * median))
Kept(delta, median) ==
  median # 0 => 5 * delta >= 4 * median /\ 4 * delta <= 5 * median

Access(m) ==
  /\ pc = m
  /\ i < Repeat(m)
  /\ \E delta \in Times(m) \union Outliers :
       /\ outliers' = outliers + IF delta \in Times(m) THEN 0 ELSE 1
       /\ outliers' <= IF IsRough(m) THEN RoughOutliers ELSE PreciseOutliers
       /\ IF Kept(delta, Median(m))
          THEN sum' = sum + delta /\ j' = j + 1
          ELSE UNCHANGED <<sum, j>>
  /\ i' = i + 1
  /\ UNCHANGED <<pc, parameters, user, avg>>

\* sum / j: when no access was kept the process dies of the division.
Measured(m) ==
  /\ pc = m
  /\ i = Repeat(m)
  /\ IF j = 0
     THEN pc' = "sigfpe" /\ UNCHANGED avg
     ELSE pc' = Following[m] /\ avg' = [avg EXCEPT ![m] = sum \div j]
  /\ i' = 0 /\ sum' = 0 /\ j' = 0 /\ outliers' = 0
  /\ UNCHANGED <<parameters, user>>

\* Halfway between the two averages.
SetThresh ==
  /\ pc = "thresh"
  /\ fr_thresh' = (avg["hit"] + avg["miss"]) \div 2
  /\ pc' = "noise"
  /\ UNCHANGED <<noise_thresh, use_nanosleep, user, avg, measuring>>

------------------------------------------------------------------------------
\* calibrate_noise_thresh(): twice the largest value from the second line on, in
\* parts per thousand of the probes of a line - once more, since the histogram
\* is in such parts already.
max_noise(h) ==
  IF Lines = 1 THEN 0
  ELSE CHOOSE n \in {h[l] : l \in 1..(Lines - 1)} : \A l \in 1..(Lines - 1) : h[l] <= n

CalibrateNoise ==
  /\ pc = "noise"
  /\ IF noise_thresh = Unset
     THEN \E h \in [0..(Lines - 1) -> NoiseLevels] :
            noise_thresh' = (2 * max_noise(h) * 1000) \div Probes
     ELSE UNCHANGED noise_thresh
  /\ pc' = "sleep"
  /\ UNCHANGED <<fr_thresh, use_nanosleep, user, avg, measuring>>

------------------------------------------------------------------------------
\* calibrate_sleep(): a stride experiment with the flag and one without; the
\* flag stays when it finds no less.
CalibrateSleep ==
  /\ pc = "sleep"
  /\ IF use_nanosleep = -1
     THEN use_nanosleep' = 1 /\ pc' = "experiment"
     ELSE UNCHANGED use_nanosleep /\ pc' = "done"
  /\ UNCHANGED <<fr_thresh, noise_thresh, user, avg, measuring>>

Experiment ==
  /\ pc = "experiment"
  /\ \E with, without \in 0..MaxFound : use_nanosleep' = IF with >= without THEN 1 ELSE 0
  /\ pc' = "done"
  /\ UNCHANGED <<fr_thresh, noise_thresh, user, avg, measuring>>

Ended == pc \in {"done", "sigfpe"} /\ UNCHANGED vars

Next ==
  \/ Start
  \/ \E m \in Measurements : Access(m) \/ Measured(m)
  \/ SetThresh \/ CalibrateNoise \/ CalibrateSleep \/ Experiment
  \/ Ended

Spec == Init /\ [][Next]_vars /\ WF_vars(Next)

------------------------------------------------------------------------------
\* Properties

Calibrated == {"noise", "sleep", "experiment", "done"}

\* The measured Flush+Reload threshold tells undisturbed hits from undisturbed
\* misses (probe_single() counts time < fr_thresh), outliers or not.
FrThreshSeparates ==
  pc \in Calibrated /\ user.fr = 0 =>
    /\ \A t \in HitTimes : t < fr_thresh
    /\ \A t \in MissTimes : fr_thresh <= t

\* Calibration comes to its end: no measurement rejects all its accesses, so
\* that sum / j is no division by zero.
CalibrationEnds == <>(pc = "done")
==============================================================================
