------------------------------ MODULE Adjacent ------------------------------
(***************************************************************************)
(* The testcase of the adjacent cache line prefetcher                      *)
(* (testcase_adjacent.hh): from an even and from an odd cache line, access *)
(* the line, then time an access to one of the lines around it.            *)
(*                                                                         *)
(* Lines are numbered from the even line the test starts with, the cache   *)
(* is a set of lines, and how the machine prefetches and how long a hit or *)
(* a miss takes is the environment's choice.                               *)
(***************************************************************************)
EXTENDS Integers, FiniteSets

CONSTANTS
  Repeat,                     (* measurements of each pair of lines: 10000   *)
  HitLatencies, MissLatencies,
  FrThreshs, NoiseThreshs     (* of the options or of the calibration        *)

ASSUME AdjacentAssumption ==
  /\ Repeat \in Nat \ {0}
  /\ HitLatencies \subseteq Nat /\ MissLatencies \subseteq Nat
  /\ FrThreshs \subseteq Nat /\ NoiseThreshs \subseteq Nat

VARIABLES
  prefetcher,                 (* of the machine                              *)
  fr_thresh, noise_thresh,
  pc,
  cached,                     (* the cache: a set of lines                   *)
  offset, range,              (* the loops of test_adjacent                  *)
  i, sum,                     (* the loop of access_measure                  *)
  patterns,                   (* ranges that were prefetched, per first line *)
  result                      (* what the testcase reports                   *)

settings == <<prefetcher, fr_thresh, noise_thresh>>
adjacent_vars == <<settings, pc, cached, offset, range, i, sum, patterns, result>>

Ranges == -3..2
Lines == -8..16
NoResult == [result |-> "", identified |-> FALSE]

\* The implementations that the documentation of the testcase knows of.
Prefetched(line) ==
  CASE prefetcher = "none"  -> {}
    [] prefetcher = "next"  -> {line + 1}
    [] prefetcher = "block" -> {IF line % 2 = 0 THEN line + 1 ELSE line - 1}

\* maccess: the line gets cached, and the prefetcher does its work.
AccessCaches(line) == cached \union {line} \union Prefetched(line)

Latencies(line) == IF line \in cached THEN HitLatencies ELSE MissLatencies

AdjacentInit ==
  /\ prefetcher \in {"none", "next", "block"}
  /\ fr_thresh \in FrThreshs /\ noise_thresh \in NoiseThreshs
  /\ pc = "flush"
  /\ cached \in {{}, Lines}
  /\ offset = 0 /\ range = -3
  /\ i = 0 /\ sum = 0
  /\ patterns = [o \in 0..1 |-> {}]
  /\ result = NoResult

Other == offset + range

\* Faulty variant of Flush: the lines from the second pointer on are forgotten.
FlushFirstOnly ==
  /\ pc = "flush"
  /\ cached' = cached \ (offset .. offset + 7)
  /\ pc' = "access"
  /\ UNCHANGED <<settings, offset, range, i, sum, patterns, result>>

\* Eight lines from each of the two pointers on.
Flush ==
  /\ pc = "flush"
  /\ cached' = cached \ ((offset .. offset + 7) \union (Other .. Other + 7))
  /\ pc' = "access"
  /\ UNCHANGED <<settings, offset, range, i, sum, patterns, result>>

Access ==
  /\ pc = "access"
  /\ cached' = AccessCaches(offset)
  /\ pc' = "measure"
  /\ UNCHANGED <<settings, offset, range, i, sum, patterns, result>>

Measure ==
  /\ pc = "measure"
  /\ \E delta \in Latencies(Other) : sum' = sum + delta
  /\ cached' = AccessCaches(Other)
  /\ i' = i + 1
  /\ pc' = IF i + 1 < Repeat THEN "flush" ELSE "average"
  /\ UNCHANGED <<settings, offset, range, patterns, result>>

Hit(t) == t > noise_thresh /\ t < fr_thresh

\* Faulty variant of NextRange: all ranges go to the pattern of the even line.
NextRangeSamePattern ==
  /\ pc = "average"
  /\ patterns' = [patterns EXCEPT ![0] =
                    IF Hit(sum \div Repeat) THEN @ \union {range} ELSE @]
  /\ i' = 0 /\ sum' = 0
  /\ IF range < 2 THEN range' = range + 1 /\ UNCHANGED offset
                  ELSE range' = -3 /\ offset' = offset + 1
  /\ pc' = IF range = 2 /\ offset = 1 THEN "evaluate" ELSE "flush"
  /\ UNCHANGED <<settings, cached, result>>

NextRange ==
  /\ pc = "average"
  /\ patterns' = [patterns EXCEPT ![offset] =
                    IF Hit(sum \div Repeat) THEN @ \union {range} ELSE @]
  /\ i' = 0 /\ sum' = 0
  /\ IF range < 2 THEN range' = range + 1 /\ UNCHANGED offset
                  ELSE range' = -3 /\ offset' = offset + 1
  /\ pc' = IF range = 2 /\ offset = 1 THEN "evaluate" ELSE "flush"
  /\ UNCHANGED <<settings, cached, result>>

\* The bit patterns that test_adjacent() looks for, as sets of ranges.
Classify ==
  CASE patterns[0] = {0} /\ patterns[1] = {0}         -> "none"
    [] patterns[0] = {0, 1} /\ patterns[1] = {-1, 0}  -> "2CL block"
    [] patterns[0] = {0, 1} /\ patterns[1] = {0, 1}   -> "next"
    [] OTHER                                          -> "unknown"

Evaluate ==
  /\ pc = "evaluate"
  /\ result' = [result |-> Classify, identified |-> Classify # "none"]
  /\ pc' = "done"
  /\ UNCHANGED <<settings, cached, offset, range, i, sum, patterns>>

AdjacentEnded == pc = "done" /\ UNCHANGED adjacent_vars

AdjacentNext == Flush \/ Access \/ Measure \/ NextRange \/ Evaluate \/ AdjacentEnded

AdjacentSpec == AdjacentInit /\ [][AdjacentNext]_adjacent_vars

------------------------------------------------------------------------------
\* Properties

\* The thresholds tell hits from misses: the noise threshold, which is compared
\* with an access time, is below every hit.
ThresholdsSeparate ==
  /\ \A t \in HitLatencies : noise_thresh < t /\ t < fr_thresh
  /\ \A t \in MissLatencies : fr_thresh <= t

\* With such thresholds the reported implementation is that of the machine,
\* although each measured access prefetches as well and nothing but the lines
\* from the two pointers on is flushed.
ReportsPrefetcher ==
  pc = "done" /\ ThresholdsSeparate =>
    result.result = CASE prefetcher = "none"  -> "none"
                      [] prefetcher = "next"  -> "next"
                      [] prefetcher = "block" -> "2CL block"

\* A range is in a pattern only if the access to the line on which the pattern
\* is based brings the line at this range into the cache.
PatternsArePrefetches ==
  ThresholdsSeparate =>
    \A o \in 0..1 : \A r \in patterns[o] : r = 0 \/ o + r \in Prefetched(o)
==============================================================================
