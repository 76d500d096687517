------------------------- MODULE TemporalExperiment -------------------------
(***************************************************************************)
(* The temporal testcase: test_trigger_same_pc_same_memory() with          *)
(* workload_temporal_same_pc_same_memory().  The training offsets are      *)
(* random, so that lines may occur several times among them.               *)
(***************************************************************************)
EXTENDS ProbingExperiment

CONSTANTS
  TemporalLines,   (* cache lines of the mapping                             *)
  NumAddr,         (* num_addr: random offsets                               *)
  TemporalLoops    (* training loops in a repetition: 10                     *)

ASSUME TemporalAssumption ==
  /\ TemporalLines \in Nat \ {0}
  /\ NumAddr \in Nat \ {0, 1}
  /\ TemporalLoops \in Nat \ {0}

IsTemporal == exp.kind = "temporal"

TemporalExperiments ==
  {[kind |-> "temporal", lines |-> TemporalLines, reps |-> TemporalLines + 1,
    training |-> offsets, trigger |-> <<offsets[1]>>] :
      offsets \in [1..NumAddr -> 0..(TemporalLines - 1)]}

\* The prefetcher knows for each line the one that was accessed after it the
\* last time; TemporalLines stands for none.  What it learned before, from
\* random_activity() and earlier tests, is arbitrary.
TemporalInit ==
  /\ exp \in TemporalExperiments
  /\ InitExperiment
  /\ \E next \in [0..(TemporalLines - 1) -> 0..TemporalLines] :
       /\ hw # "own" => \A l \in DOMAIN next : next[l] = TemporalLines
       /\ seen = [last |-> TemporalLines, next |-> next]

TemporalSeen(a) ==
  [last |-> a,
   next |-> IF seen.last = TemporalLines THEN seen.next ELSE [seen.next EXCEPT ![seen.last] = a]]

TemporalFetch(a) == {TemporalSeen(a).next[a]} \intersect (AllLines \ {a})

temporal_cl_accessed == Triggers
temporal_cl_potential_prefetch == Trained

\* One access of the training.
TemporalTrain ==
  /\ IsTemporal
  /\ pc = "train"
  /\ \E lines \in Fetches(TemporalFetch(exp.training[k]), Trained) :
       Load(exp.training[k], lines, TemporalSeen(exp.training[k]))
  /\ IF k = NumAddr THEN pc' = "flush" /\ k' = 1 ELSE k' = k + 1 /\ UNCHANGED pc
  /\ UNCHANGED <<machine, rep, loop, fetched, outcome>>

\* Faulty variant of TemporalFlush: the lines of the training stay.
TemporalFlushForgotten ==
  /\ IsTemporal
  /\ pc = "flush"
  /\ loop' = loop + 1
  /\ pc' = IF loop + 1 = TemporalLoops THEN "trigger" ELSE "train"
  /\ UNCHANGED <<machine, rep, k, memory, outcome>>

\* The flush at the end of each training loop.
TemporalFlush ==
  /\ IsTemporal
  /\ pc = "flush"
  /\ cache' = {}
  /\ loop' = loop + 1
  /\ pc' = IF loop + 1 = TemporalLoops THEN "trigger" ELSE "train"
  /\ UNCHANGED <<machine, rep, k, seen, fetched, outcome>>

\* The trigger is the first offset of the training.
TemporalTrigger ==
  /\ IsTemporal
  /\ pc = "trigger"
  /\ \E lines \in Fetches(TemporalFetch(exp.trigger[1]), Trained) :
       /\ Load(exp.trigger[1], lines, TemporalSeen(exp.trigger[1]))
       /\ fetched' = fetched \union lines
  /\ pc' = "probe"
  /\ UNCHANGED <<machine, rep, loop, k, outcome>>

TemporalProbe ==
  /\ IsTemporal
  /\ \E lines \in Fetches(TemporalFetch(probe_idx), Trained) :
       ProbeAt(probe_idx, lines, TemporalSeen(probe_idx))

\* A candidate that is a trigger, too, is none.
TemporalEvaluate ==
  /\ IsTemporal
  /\ pc = "evaluate"
  /\ vector' = PrefetchVector(temporal_cl_accessed,
                              temporal_cl_potential_prefetch \ temporal_cl_accessed)
  /\ result' = [triggers_prefetch |-> vector' # {}]
  /\ pc' = "done"
  /\ UNCHANGED <<machine, rep, loop, k, memory, hist>>

TemporalNext == TemporalTrain \/ TemporalFlush \/ TemporalTrigger \/ TemporalProbe \/ TemporalEvaluate

------------------------------------------------------------------------------
\* The line that follows the last occurrence of the trigger in the training,
\* which starts over at its end.
Successor ==
  LET occurrence == CHOOSE i \in 1..NumAddr :
        /\ exp.training[i] = exp.trigger[1]
        /\ \A j \in (i + 1)..NumAddr : exp.training[j] # exp.trigger[1]
  IN  exp.training[(occurrence % NumAddr) + 1]

\* The test reports what a temporal prefetcher learns from this training and
\* nothing that it learned before, from the probing or from repeated offsets.
TemporalTold ==
  pc = "done" /\ IsTemporal /\ hw # "any" =>
    /\ vector = (IF hw = "own" THEN {Successor} ELSE {}) \ Triggers
    /\ result.triggers_prefetch = (vector # {})
==============================================================================
