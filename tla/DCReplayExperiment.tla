------------------------- MODULE DCReplayExperiment -------------------------
(***************************************************************************)
(* The data-correlated replay testcase: test_base_test() and identify()    *)
(* with workload_dcreplay_same_pc_different_memory(), which trains in      *)
(* mapping1 and triggers in mapping2, the lines behind it.                 *)
(***************************************************************************)
EXTENDS ProbingExperiment, Integers

CONSTANTS
  ReplayLines,     (* cache lines of each mapping                            *)
  ReplayTraining,  (* training_offsets                                       *)
  ReplayTriggers,  (* how many of them are trigger_offsets                   *)
  ReplayLoops      (* training loops in a repetition: 10                     *)

ASSUME ReplayAssumption ==
  /\ ReplayLines \in Nat \ {0}
  /\ ReplayTraining \in Seq(0..(ReplayLines - 1)) /\ Len(ReplayTraining) > 1
  /\ ReplayTriggers \in 1..Len(ReplayTraining)
  /\ ReplayLoops \in Nat \ {0}

\* From one offset of the training to the next, and the jumps between its end
\* and its beginning in the same mapping, from its end to the triggers and from
\* their end back to it.
ReplayDistance(i) == ReplayTraining[i] - ReplayTraining[i - 1]
ReplayJumps ==
  LET first == Head(ReplayTraining)
      last == Last(ReplayTraining)
      trigger == ReplayTraining[ReplayTriggers]
  IN  {first - last, ReplayLines + first - last, first - trigger - ReplayLines}

\* The offsets of testcase_dcreplay.hh:87-90 are such that a pair of distances
\* tells where in the training it is: no offset is repeated, no pair of distances
\* is (the first one is that from address 0), and no jump is a distance.  The
\* triggers are at least one pair and not the whole training.
ASSUME ReplayDistances ==
  LET n == Len(ReplayTraining)
      pair(i) == <<ReplayDistance(i - 1), ReplayDistance(i)>>
  IN  /\ 3 <= ReplayTriggers /\ ReplayTriggers < n
      /\ ReplayTraining[1] # 0 /\ \A i, j \in 1..n : ReplayTraining[i] = ReplayTraining[j] => i = j
      /\ \A i, j \in 3..n : pair(i) = pair(j) => i = j
      /\ \A i \in 3..n : pair(i) # <<ReplayTraining[1], ReplayDistance(2)>>
      /\ \A i \in 2..n : ReplayDistance(i) \notin ReplayJumps

IsReplay == exp.kind = "dcreplay"

ReplayExperiment ==
  [kind |-> "dcreplay", lines |-> ReplayLines, reps |-> ReplayLines + 1,
   training |-> ReplayTraining, trigger |-> SubSeq(ReplayTraining, 1, ReplayTriggers)]

\* The prefetcher knows the last two accesses of the instruction, and which
\* distance followed a pair of distances the last time.
ReplayInit ==
  /\ exp = ReplayExperiment
  /\ InitExperiment
  /\ seen = [last |-> 0, delta |-> 0, pair |-> <<0, 0>>, table |-> {}]

ReplaySeen(a) ==
  LET delta == a - seen.last
  IN  [last |-> a, delta |-> delta, pair |-> <<seen.delta, delta>>,
       table |-> {entry \in seen.table : entry.pair # seen.pair}
                   \union {[pair |-> seen.pair, next |-> delta]}]

\* It continues with the distance that it knows for the last pair.
ReplayFetch(a) ==
  {a + entry.next : entry \in {e \in ReplaySeen(a).table : e.pair = ReplaySeen(a).pair}}

\* Addresses of mapping1 are 0 to ReplayLines - 1.
mapping1 == 0..(ReplayLines - 1)
mapping2(offset) == ReplayLines + offset

replay_cl_accessed == Triggers

\* Offsets of the training that are no triggers.
replay_cl_potential_prefetch == Trained \ Triggers

\* Where the probing finds the candidates.
Candidates2 == {mapping2(l) : l \in replay_cl_potential_prefetch}
Offsets2(lines) == {l \in AllLines : mapping2(l) \in lines}

\* One access of the training, in mapping1.
ReplayTrain ==
  /\ IsReplay
  /\ pc = "train"
  /\ \E lines \in Fetches(ReplayFetch(exp.training[k]), Candidates2) :
       /\ Load(exp.training[k], lines, ReplaySeen(exp.training[k]))
       /\ fetched' = fetched \union Offsets2(lines)
  /\ IF k = Len(exp.training) THEN pc' = "flush" /\ k' = 1 ELSE k' = k + 1 /\ UNCHANGED pc
  /\ UNCHANGED <<machine, rep, loop, outcome>>

\* The flush of mapping1 at the end of each training loop.
ReplayFlush ==
  /\ IsReplay
  /\ pc = "flush"
  /\ cache' = cache \ mapping1
  /\ loop' = loop + 1
  /\ pc' = IF loop + 1 = ReplayLoops THEN "trigger" ELSE "train"
  /\ UNCHANGED <<machine, rep, k, seen, fetched, outcome>>

\* One access of the trigger, in mapping2.
ReplayTrigger ==
  /\ IsReplay
  /\ pc = "trigger"
  /\ LET a == mapping2(exp.trigger[k])
     IN  \E lines \in Fetches(ReplayFetch(a), Candidates2) :
           /\ Load(a, lines, ReplaySeen(a))
           /\ fetched' = fetched \union Offsets2(lines)
  /\ IF k = Len(exp.trigger) THEN pc' = "probe" /\ UNCHANGED k ELSE k' = k + 1 /\ UNCHANGED pc
  /\ UNCHANGED <<machine, rep, loop, outcome>>

\* Faulty variant of ReplayProbe: it probes the mapping of the training.
ReplayProbeMapping1 ==
  /\ IsReplay
  /\ \E lines \in Fetches({}, Candidates2) : ProbeAt(probe_idx, lines, seen)

\* The probing uses another instruction, which this prefetcher tells apart.
ReplayProbe ==
  /\ IsReplay
  /\ \E lines \in Fetches({}, Candidates2) : ProbeAt(mapping2(probe_idx), lines, seen)

\* test_base_test() and identify().
ReplayEvaluate ==
  /\ IsReplay
  /\ pc = "evaluate"
  /\ vector' = PrefetchVector(replay_cl_accessed, replay_cl_potential_prefetch)
  /\ result' = [replay_existence |-> vector' # {}, identified |-> vector' # {}]
  /\ pc' = "done"
  /\ UNCHANGED <<machine, rep, loop, k, memory, hist>>

ReplayNext == ReplayTrain \/ ReplayFlush \/ ReplayTrigger \/ ReplayProbe \/ ReplayEvaluate

------------------------------------------------------------------------------
\* The testcase identifies a prefetcher that replays distances, by the line
\* that follows the triggers in the training, and nothing on a machine without
\* one: the jump back to mapping1 that the end of each repetition teaches it is
\* forgotten again by the time of the next trigger.
ReplayIdentified ==
  pc = "done" /\ IsReplay /\ hw # "any" =>
    /\ vector = IF hw = "own" THEN {exp.training[ReplayTriggers + 1]} ELSE {}
    /\ result.identified = (hw = "own")
==============================================================================
