------------------------- MODULE ProbingExperiment -------------------------
(***************************************************************************)
(* What the stream, the temporal and the data-correlated replay experiment *)
(* have in common: an experiment object with training and trigger offsets, *)
(* a cache that a workload fills, and the histogram of Flush+Reload probes *)
(* that is reduced to a prefetch vector.  Offsets are counted in cache     *)
(* lines: in all of these tests they are multiples of a line.              *)
(*                                                                         *)
(* The prefetcher is part of the environment.  It sees the loads of the    *)
(* probing as well as those of the workload.                               *)
(***************************************************************************)
EXTENDS Naturals, SequencesExt

CONSTANTS
  Hardware,    (* "none", "own": the prefetcher that the experiment looks    *)
               (* for, or "any": one that fetches candidates now and then    *)
  Noise,       (* noise_thresh                                               *)
  Divisor,     (* threshold_multiplier is 1/Divisor                          *)
  Huge         (* stands for a threshold near 2^64                           *)

ASSUME ProbingAssumption ==
  /\ Hardware \subseteq {"none", "own", "any"}
  /\ Noise \in Nat /\ Divisor \in Nat \ {0} /\ Huge \in Nat

VARIABLES
  exp,         (* kind, training_offsets, trigger_offsets, lines of the      *)
               (* mapping that is probed, no_repetitions                     *)
  hw,          (* the prefetcher of the machine                              *)
  pc,
  rep, loop, k,     (* repetition, training loop, next offset                *)
  cache,       (* lines in the cache                                         *)
  seen,        (* what the prefetcher remembers                              *)
  fetched,     (* lines it fetched upon loads of the workload, those left    *)
               (* out that are flushed before the probing                    *)
  hist,        (* cache_histogram                                            *)
  vector,      (* prefetch_vector: the lines that are true                   *)
  result       (* JSON object that the test returns                          *)

machine == <<exp, hw>>
memory == <<cache, seen, fetched>>
outcome == <<hist, vector, result>>
vars == <<machine, pc, rep, loop, k, memory, outcome>>

AllLines == 0..(exp.lines - 1)
Trained == ToSet(exp.training)
Triggers == ToSet(exp.trigger)

\* The tests flush the mapping first.
InitExperiment ==
  /\ hw \in Hardware
  /\ pc = "repeat"
  /\ rep = 0 /\ loop = 0 /\ k = 1
  /\ cache = {} /\ fetched = {}
  /\ hist = [l \in AllLines |-> 0]
  /\ vector = {}
  /\ result = [status |-> "none"]

------------------------------------------------------------------------------
\* collect_cache_histogram()

\* Faulty variant of Flush: the flush at the beginning of a repetition is missing.
FlushForgotten ==
  /\ pc = "repeat"
  /\ loop' = 0 /\ k' = 1
  /\ pc' = "train"
  /\ UNCHANGED <<machine, rep, memory, outcome>>

Flush ==
  /\ pc = "repeat"
  /\ cache' = {}
  /\ loop' = 0 /\ k' = 1
  /\ pc' = "train"
  /\ UNCHANGED <<machine, rep, seen, fetched, outcome>>

\* The line that this repetition probes: one per repetition, in turn.
probe_idx == rep % exp.lines

\* probe_single() at an address: reload the line, upon which the prefetcher may
\* fetch others, and flush it again.
ProbeAt(address, lines, next) ==
  /\ pc = "probe"
  /\ hist' = [hist EXCEPT ![probe_idx] = @ + IF address \in cache THEN 1 ELSE 0]
  /\ cache' = (cache \union lines) \ {address}
  /\ seen' = next
  /\ rep' = rep + 1
  /\ pc' = IF rep + 1 = exp.reps THEN "normalize" ELSE "repeat"
  /\ UNCHANGED <<machine, loop, k, fetched, vector, result>>

Normalize ==
  /\ pc = "normalize"
  /\ hist' = [l \in AllLines |-> (hist[l] * 1000) \div (exp.reps \div exp.lines)]
  /\ pc' = "evaluate"
  /\ UNCHANGED <<machine, rep, loop, k, memory, vector, result>>

------------------------------------------------------------------------------
\* evaluate_cache_histogram()

Average(lines) ==
  IF lines = {} THEN 0 ELSE MapThenSumSet(LAMBDA l : hist[l], lines) \div Cardinality(lines)

\* miss_avg + (size_t)(1.0/64 * (double)(hit_avg - miss_avg)), at least 1.
prefetch_thresh(accessed, candidates) ==
  LET hit == Average(accessed)
      miss == Average(AllLines \ (accessed \union candidates))
      thresh == IF hit >= miss THEN miss + ((hit - miss) \div Divisor) ELSE Huge
  IN  IF thresh = 0 THEN 1 ELSE thresh

PrefetchVector(accessed, candidates) ==
  {l \in candidates : hist[l] > Noise /\ hist[l] >= prefetch_thresh(accessed, candidates)}

------------------------------------------------------------------------------
\* A load of the workload, upon which the prefetcher fetches lines.
Load(address, lines, next) ==
  /\ cache' = cache \union {address} \union lines
  /\ seen' = next

\* What the prefetcher fetches: what its own kind would, or some of the
\* candidates.
Fetches(own, candidates) ==
  CASE hw = "none" -> {{}}
    [] hw = "own"  -> {own}
    [] hw = "any"  -> SUBSET candidates

\* Every line that is reported was fetched upon a load of the workload, whichever
\* candidates the prefetcher fetches, and upon whichever loads: none was only
\* loaded by the workload itself or fetched upon a probe.  In the temporal test it
\* was fetched upon the trigger.  In the replay test it may have been fetched upon
\* a load of the training, too, as nothing flushes mapping2 before the trigger.
OnlyPrefetches == vector \subseteq fetched
==============================================================================
