-------------------------- MODULE StrideExperiment --------------------------
(***************************************************************************)
(* One stride experiment, from the collection of its cache histogram to    *)
(* the prefetch vector: collect_cache_histogram() on one or on two         *)
(* mappings, collect_cache_histogram_lazy(), the overloads for patterns    *)
(* with two strides ("2D"), with more strides behind the last period       *)
(* ("plus") and with a third stride ("3D"), and                            *)
(* evaluate_cache_histogram(), against a cache and a prefetcher that are   *)
(* part of the environment.                                                *)
(***************************************************************************)
EXTENDS StrideGeometry, SequencesExt

CONSTANTS
  Lines,         (* cache lines of the mapping                           *)
  Setups,        (* what to run: an experiment, a way to collect, the    *)
                 (* accesses that go to the second mapping in "two", and *)
                 (* a prefetcher                                         *)
  Degree,        (* strides ahead that the "stride" prefetcher fetches   *)
  Reps,          (* no_repetitions of characterize()                     *)
  IdentifyReps,  (* no_repetitions of identify(), which has the pattern    *)
  Noise,         (* noise_thresh                                         *)
  Divisor,       (* threshold_multiplier is 1/Divisor                    *)
  Huge           (* stands for a threshold near 2^64                     *)

\* Ways to collect that have workloads with two or three strides.
Patterns == {"2D", "plus", "3D"}

\* Setups as the tests make them: two mappings with positive strides only, and
\* the list of whole strides for strides of a line and more.
IsSetup(s) ==
  /\ IsExperiment(s.exp)
  /\ s.variant \in {"full", "two", "lazy"} \union Patterns
  /\ s.variant \in Patterns => IsPattern(s.exp) /\ s.exp.plus \in Nat
  /\ s.hw \in {"off", "stride", "any"}
  /\ s.tail \in Nat
  /\ s.variant = "two" => s.exp.stride > 0 /\ s.tail \in 1..s.exp.step
  /\ s.variant = "lazy" => Magnitude(s.exp.stride) >= LineSize

ASSUME ExperimentAssumption ==
  /\ Lines \in Nat \ {0}
  /\ \A s \in Setups : IsSetup(s)
  /\ Degree \in Nat /\ Reps \in Nat /\ IdentifyReps \in Nat /\ Noise \in Nat /\ Huge \in Nat
  /\ Divisor \in Nat \ {0}

VARIABLES
  exp, variant, tail, hw,   (* the setup, chosen in the beginning           *)
  pc,                       (* where the collection is                      *)
  rep,                      (* repetition; then the entry to normalize      *)
  cache,                    (* lines of the probed mapping in the cache     *)
  fetched,                  (* lines that the prefetcher has ever fetched   *)
  hist,                     (* cache_histogram                              *)
  vector                    (* prefetch_vector: the entries that are true   *)

setup == <<exp, variant, tail, hw>>
vars == <<setup, pc, rep, cache, fetched, hist, vector>>

Size == Lines * LineSize
AllLines == 0..(Lines - 1)
InMapping(offset) == 0 <= offset /\ offset < Size

no_repetitions == IF variant = "2D" THEN IdentifyReps ELSE Reps

\* The histogram has an entry per line; the one of "2D" has one per byte.
Entries == IF variant = "2D" THEN 0..(Size - 1) ELSE AllLines

\* The line that an entry of the histogram is about.
Probed(entry) == IF variant = "2D" THEN LineOf(entry) ELSE entry

\* indices_to_probe: the lines at multiples of the stride, first onwards in the
\* direction of the stride, then backwards.
indices_to_probe ==
  LET Hops == 0..Size
      forward  == {k \in Hops : InMapping(exp.first + k * exp.stride)}
      backward == {k \in Hops \ {0} : InMapping(exp.first - k * exp.stride)}
  IN  [k \in 1..Cardinality(forward) |-> LineOf(exp.first + (k - 1) * exp.stride)]
      \o [k \in 1..Cardinality(backward) |-> LineOf(exp.first - k * exp.stride)]

\* The entries whose lines are probed in turn.
ProbeOrder ==
  IF variant = "lazy" THEN indices_to_probe ELSE [k \in 1..Cardinality(Entries) |-> k - 1]

\* What the workload accesses in the probed mapping: all accesses, or the last
\* ones of the stride when the other ones go to another mapping.
WorkloadOffsets ==
  CASE variant = "two"  -> {exp.first + i * exp.stride : i \in (exp.step - tail)..(exp.step - 1)}
    [] variant = "2D"   -> PatternAccesses(exp)
    [] variant = "plus" -> PlusAccesses(exp)
    [] variant = "3D"   -> Accesses3D(exp)
    [] OTHER            -> Accesses(exp)
WorkloadLines == {LineOf(offset) : offset \in WorkloadOffsets}

\* Lines of the next accesses, if the loop went on, inside the mapping.
Ahead(d) ==
  CASE variant = "2D"   -> exp.step * Period(exp) + InPeriod(exp, d)
    [] variant = "plus" -> exp.step * Period(exp) + InPeriod(exp, exp.plus + d)
    [] variant = "3D"   -> exp.step * Period3(exp) + InPeriod(exp, d)
    [] OTHER            -> (exp.step - 1 + d) * exp.stride
AheadLines ==
  {LineOf(offset) : offset \in {o \in {exp.first + Ahead(d) : d \in 1..Degree} : InMapping(o)}}

Init ==
  /\ \E s \in Setups : exp = s.exp /\ variant = s.variant /\ tail = s.tail /\ hw = s.hw
  /\ pc = "assert"
  /\ rep = 0
  /\ cache \in {{}, AllLines}
  /\ fetched = {}
  /\ hist = [i \in Entries |-> 0]
  /\ vector = {}

\* The next experiment on the same mapping, flushed in between.
Begin(s) ==
  /\ exp' = s.exp /\ variant' = s.variant /\ tail' = s.tail /\ hw' = s.hw
  /\ pc' = "assert"
  /\ rep' = 0
  /\ cache' = {} /\ fetched' = {}
  /\ hist' = [i \in IF s.variant = "2D" THEN 0..(Size - 1) ELSE AllLines |-> 0]
  /\ vector' = {}

\* The assertions at the beginning of collect_cache_histogram*().
CheckBounds ==
  /\ pc = "assert"
  /\ pc' = IF AssertsHold(exp, Size) THEN "flush" ELSE "aborted"
  /\ UNCHANGED <<setup, rep, cache, fetched, hist, vector>>

\* Faulty variant of Flush: nothing is flushed.
FlushForgotten ==
  /\ pc = "flush"
  /\ pc' = "workload"
  /\ UNCHANGED <<setup, rep, cache, fetched, hist, vector>>

\* Each repetition starts with the probed lines flushed.
Flush ==
  /\ pc = "flush"
  /\ cache' = cache \ {Probed(i) : i \in ToSet(ProbeOrder)}
  /\ pc' = "workload"
  /\ UNCHANGED <<setup, rep, fetched, hist, vector>>

Workload ==
  /\ pc = "workload"
  /\ cache' = cache \union WorkloadLines
  /\ pc' = "wait"
  /\ UNCHANGED <<setup, rep, fetched, hist, vector>>

\* What the hardware fetches until the wait is over: nothing, the next strides,
\* or any of them.
Prefetch ==
  /\ pc = "wait"
  /\ \E lines \in SUBSET AheadLines :
       /\ hw = "off" => lines = {}
       /\ hw = "stride" => lines = AheadLines
       /\ cache' = cache \union lines
       /\ fetched' = fetched \union lines
  /\ pc' = "probe"
  /\ UNCHANGED <<setup, rep, hist, vector>>

\* Faulty variant of probe_index: it never leaves the first half of the lines.
probe_index_half == ProbeOrder[(rep % ((Len(ProbeOrder) + 1) \div 2)) + 1]

\* The entry whose line this repetition probes.
probe_index == ProbeOrder[(rep % Len(ProbeOrder)) + 1]

\* probe_single(): reload the line and flush it again.
Probe ==
  /\ pc = "probe"
  /\ LET i == probe_index
     IN  /\ hist' = [hist EXCEPT ![i] = @ + IF Probed(i) \in cache THEN 1 ELSE 0]
         /\ cache' = cache \ {Probed(i)}
  /\ rep' = IF rep + 1 = no_repetitions THEN 0 ELSE rep + 1
  /\ pc' = IF rep + 1 = no_repetitions THEN "normalize" ELSE "flush"
  /\ UNCHANGED <<setup, fetched, vector>>

\* One after the other the entries become parts per thousand of the times they
\* were probed.  A line that is in the list twice is scaled twice, and with
\* fewer repetitions than lines the division is by zero.
Normalize ==
  /\ pc = "normalize"
  /\ LET rounds == no_repetitions \div Len(ProbeOrder)
     IN  IF rounds = 0
         THEN pc' = "aborted" /\ UNCHANGED <<rep, hist>>
         ELSE /\ hist' = [hist EXCEPT ![ProbeOrder[rep + 1]] = (@ * 1000) \div rounds]
              /\ rep' = rep + 1
              /\ pc' = IF rep + 1 = Len(ProbeOrder) THEN "evaluate" ELSE "normalize"
  /\ UNCHANGED <<setup, cache, fetched, vector>>

------------------------------------------------------------------------------
\* evaluate_cache_histogram()

\* What an entry is to the evaluation.  For patterns the entry's index is taken
\* for an offset, which it is in "2D" only, and an access may be a candidate.
Accessed(i) ==
  IF variant \in Patterns THEN offset_accessed_2D(exp, i) ELSE cl_accessed(exp, i)
Candidate(i) ==
  IF variant \in Patterns THEN offset_potential_prefetch_2D(exp, i) ELSE cl_potential_prefetch(exp, i)

HitEntries == {i \in Entries : Accessed(i)}
CandidateEntries == {i \in Entries : Candidate(i)}
MissEntries == Entries \ (HitEntries \union CandidateEntries)

\* The sum over n > 0 entries, divided by n; 0 when there is no entry.
Average(entries) ==
  IF entries = {} THEN 0
  ELSE MapThenSumSet(LAMBDA i : hist[i], entries) \div Cardinality(entries)

\* hit_avg - miss_avg is unsigned: a negative difference becomes a threshold
\* that no histogram value reaches.
prefetch_thresh ==
  LET hit == Average(HitEntries)
      miss == Average(MissEntries)
      thresh == IF hit >= miss THEN miss + ((hit - miss) \div Divisor) ELSE Huge
  IN  IF thresh = 0 THEN 1 ELSE thresh

Evaluate ==
  /\ pc = "evaluate"
  /\ vector' = {i \in CandidateEntries : hist[i] > Noise /\ hist[i] >= prefetch_thresh}
  /\ pc' = "done"
  /\ UNCHANGED <<setup, rep, cache, fetched, hist>>

Ended == pc \in {"done", "aborted"} /\ UNCHANGED vars

Step == CheckBounds \/ Flush \/ Workload \/ Prefetch \/ Probe \/ Normalize \/ Evaluate

Next == Step \/ Ended

Spec == Init /\ [][Next]_vars

------------------------------------------------------------------------------
\* Properties

\* What is reported as prefetched was fetched by the prefetcher and not by the
\* experiment itself: no flush is missing, nothing of an earlier repetition or
\* of the time before the experiment survives in the probed lines, and no line
\* of an access is taken for a candidate (evaluate_cache_histogram():549-552).
\* A pattern with two strides also reports candidates in the lines that it has
\* accessed itself, but nothing that neither of the two explains.
OnlyPrefetches ==
  pc = "done" =>
    {Probed(i) : i \in vector} \subseteq
      IF variant \in Patterns THEN fetched \union WorkloadLines ELSE fetched \ WorkloadLines

\* A prefetcher that always fetches the next strides is found, at each of these
\* lines that the experiment does not access itself; all three ways to collect
\* agree on that, whichever way the stride goes.  The 2D experiment finds it at
\* every entry of these lines where the pattern has an access.
PrefetcherFound ==
  pc = "done" /\ hw = "stride" =>
    /\ variant \notin Patterns => AheadLines \ WorkloadLines \subseteq vector
    /\ variant = "2D" => {i \in CandidateEntries : Probed(i) \in AheadLines} \subseteq vector

\* The experiment aborts before its first access or after all of them, and an
\* experiment that passes the assertions never leaves the mapping.  The
\* assertions do not look at the second stride of a pattern.
NoStrayAccess ==
  pc \notin {"assert", "aborted"} /\ variant \notin Patterns => Accesses(exp) \subseteq 0..(Size - 1)
==============================================================================
