-------------------------- MODULE StreamExperiment --------------------------
(***************************************************************************)
(* The stream testcase as identify() runs it: test_base_test() for several *)
(* numbers of loads from successive lines, with workload_stream_basic().   *)
(***************************************************************************)
EXTENDS ProbingExperiment

CONSTANTS
  StreamLines,   (* cache lines of the mapping: two pages                    *)
  PageLines,     (* cache lines of a page                                    *)
  First,         (* the first line that is loaded: line 16                   *)
  Sizes,         (* numbers of loads: 32 to 95                               *)
  Confirm,       (* steps to the next line that make a stream                *)
  Degree         (* lines that the prefetcher is ahead of a stream           *)

ASSUME StreamAssumption ==
  /\ StreamLines \in Nat \ {0} /\ PageLines \in Nat \ {0} /\ First \in Nat
  /\ \A n \in Sizes : n \in Nat \ {0, 1} /\ First + n <= StreamLines
  /\ Confirm \in Nat \ {0} /\ Degree \in Nat

IsStream == exp.kind = "stream"

StreamExperiments ==
  {[kind |-> "stream", lines |-> StreamLines, reps |-> StreamLines + 1,
    training |-> [i \in 1..n |-> First + i - 1], trigger |-> <<First>>] : n \in Sizes}

\* The prefetcher knows the last line and how many times it was the next one.
StreamInit ==
  /\ exp \in StreamExperiments
  /\ InitExperiment
  /\ seen = [last |-> StreamLines, run |-> 0]

SamePage(a, b) == a \div PageLines = b \div PageLines

\* What it knows after a load.
StreamSeen(a) ==
  [last |-> a,
   run |-> IF a = seen.last + 1 /\ SamePage(a, seen.last)
           THEN IF seen.run < Confirm THEN seen.run + 1 ELSE Confirm
           ELSE 0]

\* A stream prefetcher does not cross the border of a page.
StreamFetch(a) ==
  {l \in AllLines : a < l /\ l <= a + Degree /\ SamePage(l, a) /\ StreamSeen(a).run = Confirm}

\* The lines it can see are those behind the first line, in the direction of the
\* loads, which is upwards in the only test there is.
stream_cl_accessed == Trained
stream_cl_potential_prefetch == {l \in AllLines : l >= Head(exp.training)} \ stream_cl_accessed

\* workload_stream_basic(): one load of each offset.
StreamWorkload ==
  /\ IsStream
  /\ pc = "train"
  /\ \E lines \in Fetches(StreamFetch(exp.training[k]), stream_cl_potential_prefetch) :
       /\ Load(exp.training[k], lines, StreamSeen(exp.training[k]))
       /\ fetched' = fetched \union lines
  /\ IF k = Len(exp.training) THEN pc' = "probe" /\ UNCHANGED k ELSE k' = k + 1 /\ UNCHANGED pc
  /\ UNCHANGED <<machine, rep, loop, outcome>>

StreamProbe ==
  /\ IsStream
  /\ \E lines \in Fetches(StreamFetch(probe_idx), stream_cl_potential_prefetch) :
       ProbeAt(probe_idx, lines, StreamSeen(probe_idx))

\* Faulty variant of StreamEvaluate: the accessed lines are candidates too.
StreamEvaluateAccessed ==
  /\ IsStream
  /\ pc = "evaluate"
  /\ vector' = PrefetchVector(stream_cl_accessed, stream_cl_potential_prefetch \union stream_cl_accessed)
  /\ result' = [Prefetched |-> Cardinality(vector'), stream_existence |-> FALSE]
  /\ pc' = "done"
  /\ UNCHANGED <<machine, rep, loop, k, memory, hist>>

\* The prefetches are counted for the positive direction, the only one tested;
\* the test wants both, so stream_existence never is true.
StreamEvaluate ==
  /\ IsStream
  /\ pc = "evaluate"
  /\ vector' = PrefetchVector(stream_cl_accessed, stream_cl_potential_prefetch)
  /\ result' = [Prefetched |-> Cardinality(vector'), stream_existence |-> FALSE]
  /\ pc' = "done"
  /\ UNCHANGED <<machine, rep, loop, k, memory, hist>>

StreamNext == StreamWorkload \/ StreamProbe \/ StreamEvaluate

------------------------------------------------------------------------------
\* The number of loads in the page of the last one, and the lines ahead of it.
LastPageLoads == Cardinality({l \in Trained : SamePage(l, Last(exp.training))})
Ahead == {l \in AllLines : /\ l > Last(exp.training) /\ l <= Last(exp.training) + Degree
                           /\ SamePage(l, Last(exp.training))}

\* The number that the test reports is the number of lines that the prefetcher
\* runs ahead of the loads: none before a stream is confirmed, none behind the
\* end of the page, and none that only the probing, a stream itself, led to.
StreamCounted ==
  pc = "done" /\ IsStream /\ hw # "any" =>
    result.Prefetched =
      IF hw = "own" /\ LastPageLoads > Confirm THEN Cardinality(Ahead) ELSE 0
==============================================================================
