---------------------------- MODULE ProbingProofs ----------------------------
(***************************************************************************)
(* Proofs about the stream, the temporal and the data-correlated replay    *)
(* experiment, for all sizes of their mappings, all offsets and            *)
(* repetitions of their trainings, and all prefetchers of the model: what  *)
(* they report was fetched, and the tests report exactly what the          *)
(* prefetcher does, though it sees the probing, too, or remembers what was *)
(* before.                                                                 *)
(***************************************************************************)
EXTENDS MCProbing, Arithmetic

\* The experiments of the three testcases, and what their objects have in common.
Experiments == StreamExperiments \union TemporalExperiments \union {ReplayExperiment}

IsObject(e) ==
  /\ e.kind \in {"stream", "temporal", "dcreplay"}
  /\ e.lines \in Nat \ {0} /\ e.reps = e.lines + 1
  /\ e.training \in Seq(0..(e.lines - 1)) /\ Len(e.training) \in Nat \ {0}
  /\ e.trigger \in Seq(0..(e.lines - 1)) /\ Len(e.trigger) \in Nat \ {0}

LEMMA StreamObject ==
  ASSUME NEW e \in StreamExperiments
  PROVE  /\ IsObject(e) /\ e.kind = "stream" /\ e.lines = StreamLines
         /\ \A i \in 1..Len(e.training) : e.training[i] = First + i - 1
         /\ Len(e.training) >= 2 /\ First + Len(e.training) <= e.lines
<1>1. PICK n \in Sizes :
        e = [kind |-> "stream", lines |-> StreamLines, reps |-> StreamLines + 1,
             training |-> [i \in 1..n |-> First + i - 1], trigger |-> <<First>>]
  BY DEF StreamExperiments
<1>2. n \in Nat /\ n >= 2 /\ First \in Nat /\ First + n <= StreamLines /\ StreamLines \in Nat \ {0}
  BY StreamAssumption
<1>3. \A i \in 1..n : First + i - 1 \in 0..(StreamLines - 1)
  BY <1>2
<1>4. e.training = [i \in 1..n |-> First + i - 1] /\ e.trigger = <<First>>
  BY <1>1
<1>5. e.training \in Seq(0..(StreamLines - 1)) /\ Len(e.training) = n
  BY <1>2, <1>3, <1>4
<1>6. e.trigger \in Seq(0..(StreamLines - 1)) /\ Len(e.trigger) = 1
  BY <1>2, <1>4
<1>7. e.kind = "stream" /\ e.lines = StreamLines /\ e.reps = StreamLines + 1
  BY <1>1
<1>8. QED
  BY <1>2, <1>4, <1>5, <1>6, <1>7 DEF IsObject

LEMMA TemporalObject ==
  ASSUME NEW e \in TemporalExperiments
  PROVE  /\ IsObject(e) /\ e.kind = "temporal" /\ e.lines = TemporalLines
         /\ Len(e.training) = NumAddr /\ NumAddr >= 2
         /\ e.trigger = <<e.training[1]>> /\ Len(e.trigger) = 1
<1>1. PICK offsets \in [1..NumAddr -> 0..(TemporalLines - 1)] :
        e = [kind |-> "temporal", lines |-> TemporalLines, reps |-> TemporalLines + 1,
             training |-> offsets, trigger |-> <<offsets[1]>>]
  BY DEF TemporalExperiments
<1>2. NumAddr \in Nat /\ NumAddr >= 2 /\ TemporalLines \in Nat \ {0}
  BY TemporalAssumption
<1>3. offsets \in Seq(0..(TemporalLines - 1)) /\ Len(offsets) = NumAddr
  BY <1>2
<1>4. e.kind = "temporal" /\ e.lines = TemporalLines /\ e.reps = TemporalLines + 1
      /\ e.training = offsets /\ e.trigger = <<offsets[1]>>
  BY <1>1
<1>5. <<offsets[1]>> \in Seq(0..(TemporalLines - 1)) /\ Len(<<offsets[1]>>) = 1
  BY <1>2, <1>3
<1>6. QED
  BY <1>2, <1>3, <1>4, <1>5 DEF IsObject

LEMMA ReplayObject ==
  /\ IsObject(ReplayExperiment) /\ ReplayExperiment.kind = "dcreplay"
  /\ ReplayExperiment.lines = ReplayLines
<1> DEFINE e == ReplayExperiment
           t == SubSeq(ReplayTraining, 1, ReplayTriggers)
<1>1. e.kind = "dcreplay" /\ e.lines = ReplayLines /\ e.reps = ReplayLines + 1
      /\ e.training = ReplayTraining /\ e.trigger = t
  BY DEF ReplayExperiment
<1>2. /\ ReplayLines \in Nat \ {0} /\ ReplayTraining \in Seq(0..(ReplayLines - 1))
      /\ ReplayTriggers \in 1..Len(ReplayTraining) /\ Len(ReplayTraining) \in Nat \ {0}
  BY ReplayAssumption
<1>3. t \in Seq(0..(ReplayLines - 1)) /\ Len(t) = ReplayTriggers
  BY <1>2
<1> HIDE DEF e, t
<1>4. IsObject(e)
  BY <1>1, <1>2, <1>3 DEF IsObject
<1>5. QED
  BY <1>1, <1>4 DEF e

LEMMA AllObjects ==
  ASSUME NEW e \in Experiments
  PROVE  /\ IsObject(e)
         /\ e.kind = "stream" => e \in StreamExperiments
         /\ e.kind = "temporal" => e \in TemporalExperiments
         /\ e.kind = "dcreplay" => e.lines = ReplayLines
BY StreamObject, TemporalObject, ReplayObject DEF Experiments

------------------------------------------------------------------------------
\* Where the experiment is.
PlaceInv ==
  /\ exp \in Experiments /\ hw \in Hardware
  /\ pc \in {"repeat", "train", "flush", "trigger", "probe", "normalize", "evaluate", "done"}
  /\ IsStream => pc \notin {"flush", "trigger"}
  /\ rep \in 0..exp.reps
  /\ pc \in {"repeat", "train", "flush", "trigger", "probe"} => rep < exp.reps
  /\ pc = "normalize" => rep = exp.reps
  /\ pc = "train" => k \in 1..Len(exp.training)
  /\ pc = "flush" => k = 1
  /\ pc = "trigger" => k \in 1..Len(exp.trigger)

\* What the test takes for its own accesses.
Accessed == IF IsStream THEN Trained ELSE Triggers

\* The lines of the replay test's probed mapping that are in the cache.
Second == {l \in AllLines : mapping2(l) \in cache}

\* No line of the probed mapping is in the cache at the probe but those that the
\* test takes for accessed and those that were fetched.
CacheInv ==
  /\ IsStream /\ pc \in {"train", "probe"} => cache \subseteq Trained \union fetched
  /\ IsTemporal /\ pc = "trigger" => cache = {}
  /\ IsTemporal /\ pc = "probe" => cache \subseteq Triggers \union fetched
  /\ IsReplay /\ pc \in {"train", "flush", "trigger", "probe"} =>
       Second \subseteq Triggers \union fetched
  /\ IsReplay /\ hw # "any" /\ pc \in {"train", "flush"} => Second \subseteq Triggers

HistInv ==
  /\ hist \in [AllLines -> Nat]
  /\ \A l \in AllLines : hist[l] > 0 => l \in Accessed \union fetched

EvidenceInv ==
  /\ CacheInv /\ HistInv /\ OnlyPrefetches
  /\ hw = "none" => fetched = {}

\* What the tests report of the vector.
ResultInv ==
  pc = "done" =>
    /\ IsStream => result.Prefetched = Cardinality(vector)
    /\ IsTemporal => result.triggers_prefetch = (vector # {})
    /\ IsReplay => result.identified = (vector # {})

\* The experiment and the machine stay what they are.
LEMMA MachineFixed ==
  ASSUME [Next]_vars
  PROVE  UNCHANGED machine
BY DEF Next, vars, machine, Flush, Normalize, Ended, StreamNext, StreamWorkload, StreamProbe,
       StreamEvaluate, TemporalNext, TemporalTrain, TemporalFlush, TemporalTrigger, TemporalProbe,
       TemporalEvaluate, ReplayNext, ReplayTrain, ReplayFlush, ReplayTrigger, ReplayProbe,
       ReplayEvaluate, ProbeAt

\* The initial states.
LEMMA InitPlace ==
  ASSUME Init
  PROVE  PlaceInv /\ InitExperiment
<1>1. exp \in Experiments /\ InitExperiment
  BY DEF Init, StreamInit, TemporalInit, ReplayInit, Experiments
<1>2. IsObject(exp)
  BY <1>1, AllObjects
<1>3. QED
  BY <1>1, <1>2 DEF PlaceInv, InitExperiment, IsObject

\* Each step leads to the next place of its experiment.
LEMMA PlaceStep ==
  ASSUME PlaceInv, [Next]_vars
  PROVE  PlaceInv'
<1>1. exp' = exp /\ hw' = hw
  BY MachineFixed DEF machine
<1>2. /\ exp.reps \in Nat \ {0} /\ Len(exp.training) \in Nat \ {0} /\ Len(exp.trigger) \in Nat \ {0}
      /\ (IsTemporal => NumAddr = Len(exp.training) /\ Len(exp.trigger) = 1)
      /\ exp.kind \in {"stream", "temporal", "dcreplay"}
  BY AllObjects, TemporalObject DEF PlaceInv, IsObject, IsTemporal
<1> USE DEF PlaceInv, IsStream, IsTemporal, IsReplay
<1>3. CASE UNCHANGED vars
  BY <1>3 DEF vars, machine
<1>4. CASE Flush \/ Normalize
  BY <1>1, <1>2, <1>4 DEF Flush, Normalize
<1>5. CASE StreamWorkload
  BY <1>1, <1>2, <1>5 DEF StreamWorkload
<1>6. CASE StreamProbe \/ TemporalProbe \/ ReplayProbe
  BY <1>1, <1>2, <1>6 DEF StreamProbe, TemporalProbe, ReplayProbe, ProbeAt
<1>7. CASE StreamEvaluate \/ TemporalEvaluate \/ ReplayEvaluate
  BY <1>1, <1>2, <1>7 DEF StreamEvaluate, TemporalEvaluate, ReplayEvaluate
<1>8. CASE TemporalTrain \/ ReplayTrain
  BY <1>1, <1>2, <1>8 DEF TemporalTrain, ReplayTrain
<1>9. CASE TemporalFlush \/ ReplayFlush
  BY <1>1, <1>2, <1>9 DEF TemporalFlush, ReplayFlush
<1>10. CASE TemporalTrigger \/ ReplayTrigger
  BY <1>1, <1>2, <1>10 DEF TemporalTrigger, ReplayTrigger
<1>11. QED
  BY <1>3, <1>4, <1>5, <1>6, <1>7, <1>8, <1>9, <1>10
  DEF Next, Ended, StreamNext, TemporalNext, ReplayNext

\* What depends on the experiment alone does not change.
LEMMA FixedSets ==
  ASSUME [Next]_vars
  PROVE  /\ exp' = exp /\ hw' = hw /\ AllLines' = AllLines
         /\ Trained' = Trained /\ Triggers' = Triggers /\ Accessed' = Accessed
         /\ IsStream' = IsStream /\ IsTemporal' = IsTemporal /\ IsReplay' = IsReplay
BY MachineFixed DEF machine, AllLines, Trained, Triggers, Accessed, IsStream, IsTemporal, IsReplay

\* Offsets are lines of the mapping, and so is the line that is probed.
LEMMA OffsetsAreLines ==
  ASSUME PlaceInv
  PROVE  /\ Trained \subseteq AllLines /\ Triggers \subseteq AllLines
         /\ \A j \in 1..Len(exp.training) : exp.training[j] \in Trained
         /\ \A j \in 1..Len(exp.trigger) : exp.trigger[j] \in Triggers
         /\ probe_idx \in AllLines /\ rep \in Nat /\ exp.lines \in Nat \ {0}
         /\ IsStream \/ IsTemporal \/ IsReplay
<1>1. IsObject(exp)
  BY AllObjects DEF PlaceInv
<1>3. rep \in Nat
  BY <1>1 DEF PlaceInv, IsObject
<1>4. rep % exp.lines \in 0..(exp.lines - 1)
  BY <1>1, <1>3 DEF IsObject
<1>5. ASSUME NEW n \in Nat, NEW s \in Seq(0..n)
      PROVE  ToSet(s) \subseteq 0..n /\ \A j \in 1..Len(s) : s[j] \in ToSet(s)
  BY DEF ToSet
<1>6. exp.lines - 1 \in Nat /\ AllLines = 0..(exp.lines - 1)
  BY <1>1 DEF IsObject, AllLines
<1>7. Trained \subseteq AllLines /\ \A j \in 1..Len(exp.training) : exp.training[j] \in Trained
  BY <1>1, <1>5, <1>6 DEF IsObject, Trained
<1>8. Triggers \subseteq AllLines /\ \A j \in 1..Len(exp.trigger) : exp.trigger[j] \in Triggers
  BY <1>1, <1>5, <1>6 DEF IsObject, Triggers
<1>9. IsStream \/ IsTemporal \/ IsReplay
  BY <1>1 DEF IsObject, IsStream, IsTemporal, IsReplay
<1>10. QED
  BY <1>1, <1>3, <1>4, <1>6, <1>7, <1>8, <1>9 DEF IsObject, probe_idx

\* What the three kinds of prefetchers fetch.
LEMMA FetchedSubset ==
  ASSUME NEW own, NEW candidates, NEW lines \in Fetches(own, candidates),
         hw \in {"none", "own", "any"}
  PROVE  /\ hw = "none" => lines = {}
         /\ hw = "own" => lines = own
         /\ hw = "any" => lines \subseteq candidates
BY DEF Fetches

------------------------------------------------------------------------------
(***************************************************************************)
(* The replay prefetcher.  The last two distances tell how much of the     *)
(* sequence has been accessed, in whichever of the mappings; what it       *)
(* remembers to follow is the next distance or, at the end of the training *)
(* and of the triggers, a jump.                                            *)
(***************************************************************************)

\* The ends of the training and of the triggers, and the jumps behind them.
End == Len(ReplayTraining)
Wrap == ReplayTraining[1] - ReplayTraining[End]
Over == ReplayLines + ReplayTraining[1] - ReplayTraining[End]
Back == ReplayTraining[1] - ReplayTraining[ReplayTriggers] - ReplayLines

\* The last two distances behind access j of the sequence.
PairsAt(j) ==
  IF j = 1 THEN {<<ReplayDistance(End), Wrap>>, <<ReplayDistance(End), Over>>,
                 <<ReplayDistance(ReplayTriggers), Back>>, <<0, ReplayTraining[1]>>}
  ELSE IF j = 2 THEN {<<x, ReplayDistance(2)>> : x \in {Wrap, Over, Back, ReplayTraining[1]}}
  ELSE {<<ReplayDistance(j - 1), ReplayDistance(j)>>}

\* The distances that may follow.
NextAt(j) ==
  (IF j < End THEN {ReplayDistance(j + 1)} ELSE {Wrap, Over})
    \union (IF j = ReplayTriggers THEN {Back} ELSE {})

\* Behind access j of the sequence in the mapping that begins at base.
At(base, j) ==
  /\ seen.last = base + ReplayTraining[j]
  /\ seen.pair \in PairsAt(j) /\ seen.delta = seen.pair[2]

\* Before the first access of all.
Fresh == seen.last = 0 /\ seen.delta = 0 /\ seen.pair = <<0, 0>>

\* Before a repetition.
AtStart == Fresh \/ At(ReplayLines, ReplayTriggers)

TableRight ==
  \A entry \in seen.table :
    entry.pair # <<0, 0>> => \E j \in 1..End : entry.pair \in PairsAt(j) /\ entry.next \in NextAt(j)

\* It knows what followed the triggers in the training.
TriggersEnd == <<ReplayDistance(ReplayTriggers - 1), ReplayDistance(ReplayTriggers)>>
Learned ==
  {entry.next : entry \in {e \in seen.table : e.pair = TriggersEnd}} = {ReplayDistance(ReplayTriggers + 1)}

ReplaySeenInv ==
  IsReplay =>
    /\ loop \in Nat /\ TableRight
    /\ pc = "repeat" => AtStart
    /\ pc = "train" => IF k > 1 THEN At(0, k - 1) ELSE IF loop > 0 THEN At(0, End) ELSE AtStart
    /\ pc = "flush" => At(0, End)
    /\ pc = "trigger" => IF k > 1 THEN At(ReplayLines, k - 1) ELSE At(0, End)
    /\ pc \in {"probe", "normalize", "evaluate", "done"} => At(ReplayLines, ReplayTriggers)
    /\ (pc = "train" /\ (k > ReplayTriggers + 1 \/ loop > 0)) \/ pc \in {"flush", "trigger", "probe"} => Learned

\* What the offsets of the test are.
LEMMA SequenceShape ==
  /\ ReplayLines \in Nat \ {0} /\ End \in Nat /\ End >= 4 /\ DOMAIN ReplayTraining = 1..End
  /\ ReplayTriggers \in Nat /\ 3 <= ReplayTriggers /\ ReplayTriggers < End
  /\ \A j \in 1..End : ReplayTraining[j] \in 0..(ReplayLines - 1)
  /\ \A i, j \in 1..End : ReplayTraining[i] = ReplayTraining[j] => i = j
<1>1. /\ ReplayLines \in Nat \ {0} /\ End \in Nat /\ ReplayTraining \in Seq(0..(ReplayLines - 1))
      /\ ReplayTriggers \in 1..End
  BY ReplayAssumption DEF End
<1>2. DOMAIN ReplayTraining = 1..End /\ \A j \in 1..End : ReplayTraining[j] \in 0..(ReplayLines - 1)
  BY <1>1 DEF End
<1>3. /\ 3 <= ReplayTriggers /\ ReplayTriggers < End
      /\ \A i, j \in 1..End : ReplayTraining[i] = ReplayTraining[j] => i = j
  BY ReplayDistances DEF End
<1>4. QED
  BY <1>1, <1>2, <1>3

\* What is between them, and the jumps.
LEMMA DistancesShape ==
  /\ \A j \in 2..End : /\ ReplayDistance(j) \in Int /\ ReplayDistance(j) # 0
                       /\ ReplayDistance(j) = ReplayTraining[j] - ReplayTraining[j - 1]
                       /\ ReplayDistance(j) \notin {Wrap, Over, Back}
  /\ \A i, j \in 3..End : ReplayDistance(i - 1) = ReplayDistance(j - 1)
                            /\ ReplayDistance(i) = ReplayDistance(j) => i = j
  /\ \A j \in 3..End : ~(ReplayDistance(j - 1) = ReplayTraining[1] /\ ReplayDistance(j) = ReplayDistance(2))
  /\ Wrap \in Int /\ Over \in Int /\ Back \in Int /\ ReplayTraining[1] \in Int
  /\ Wrap # 0 /\ Over > 0 /\ Back < 0 /\ ReplayTraining[1] # 0
<1>1. /\ ReplayLines \in Nat \ {0} /\ End \in Nat /\ End >= 4
      /\ ReplayTriggers \in Nat /\ 3 <= ReplayTriggers /\ ReplayTriggers < End
      /\ \A j \in 1..End : ReplayTraining[j] \in 0..(ReplayLines - 1)
      /\ \A i, j \in 1..End : ReplayTraining[i] = ReplayTraining[j] => i = j
  BY SequenceShape
<1>2. ReplayJumps = {Wrap, Over, Back}
  <2>1. Head(ReplayTraining) = ReplayTraining[1] /\ Last(ReplayTraining) = ReplayTraining[End]
    BY DEF End, Last
  <2>2. QED
    BY <2>1 DEF ReplayJumps, Wrap, Over, Back
<1>3. /\ ReplayTraining[1] # 0
      /\ \A i, j \in 3..End : <<ReplayDistance(i - 1), ReplayDistance(i)>> =
                              <<ReplayDistance(j - 1), ReplayDistance(j)>> => i = j
      /\ \A i \in 3..End : <<ReplayDistance(i - 1), ReplayDistance(i)>> #
                           <<ReplayTraining[1], ReplayDistance(2)>>
      /\ \A i \in 2..End : ReplayDistance(i) \notin {Wrap, Over, Back}
  BY <1>2, ReplayDistances DEF End
<1>4. ASSUME NEW j \in 2..End
      PROVE  /\ ReplayDistance(j) \in Int /\ ReplayDistance(j) # 0
             /\ ReplayDistance(j) = ReplayTraining[j] - ReplayTraining[j - 1]
  <2>1. j \in 1..End /\ j - 1 \in 1..End /\ j # j - 1
    BY <1>1
  <2>2. ReplayTraining[j] # ReplayTraining[j - 1]
    BY <1>1, <2>1
  <2>3. ReplayTraining[j] \in Int /\ ReplayTraining[j - 1] \in Int
    BY <1>1, <2>1
  <2>4. QED
    BY <2>2, <2>3 DEF ReplayDistance
<1>5. /\ ReplayTraining[1] \in 0..(ReplayLines - 1) /\ ReplayTraining[End] \in 0..(ReplayLines - 1)
      /\ ReplayTraining[ReplayTriggers] \in 0..(ReplayLines - 1)
      /\ ReplayTraining[1] # ReplayTraining[End]
  <2>1. 1 \in 1..End /\ End \in 1..End /\ ReplayTriggers \in 1..End /\ 1 # End
    BY <1>1
  <2>2. QED
    BY <1>1, <2>1
<1>6. /\ Wrap \in Int /\ Over \in Int /\ Back \in Int /\ ReplayTraining[1] \in Int
      /\ Wrap # 0 /\ Over > 0 /\ Back < 0
  BY <1>1, <1>5 DEF Wrap, Over, Back
<1> HIDE DEF Wrap, Over, Back, End, ReplayDistance
<1>7. \A i, j \in 3..End : ReplayDistance(i - 1) = ReplayDistance(j - 1)
                             /\ ReplayDistance(i) = ReplayDistance(j) => i = j
  BY <1>3
<1>8. QED
  BY <1>3, <1>4, <1>6, <1>7

\* The last two distances tell how far the sequence is.
LEMMA PairsApart ==
  ASSUME NEW i \in 1..End, NEW j \in 1..End, NEW p, p \in PairsAt(i)
  PROVE  p # <<0, 0>> /\ (p \in PairsAt(j) => i = j)
<1> DEFINE d(x) == ReplayDistance(x)
           first == ReplayTraining[1]
           jumps == {Wrap, Over, Back}
<1>1. End \in Nat /\ End >= 4 /\ ReplayTriggers \in 2..End
  BY SequenceShape
<1>2. /\ \A x \in 2..End : d(x) # 0 /\ d(x) \notin jumps
      /\ \A x, y \in 3..End : d(x - 1) = d(y - 1) /\ d(x) = d(y) => x = y
      /\ \A x \in 3..End : ~(d(x - 1) = first /\ d(x) = d(2))
      /\ 0 \notin jumps /\ first # 0
  BY DistancesShape
<1> HIDE DEF d, first, jumps
<1>3. \A q \in PairsAt(1) :
        \/ q[1] \in {d(End), d(ReplayTriggers)} /\ q[2] \in jumps /\ q = <<q[1], q[2]>>
        \/ q = <<0, first>>
  BY DEF PairsAt, d, jumps, first
<1>4. \A q \in PairsAt(2) : q[1] \in jumps \union {first} /\ q[2] = d(2) /\ q = <<q[1], q[2]>>
  BY DEF PairsAt, d, jumps, first
<1>5. \A x \in 3..End : PairsAt(x) = {<<d(x - 1), d(x)>>}
  BY <1>1 DEF PairsAt, d
<1>6. 2 \in 2..End /\ End \in 2..End /\ \A x \in 3..End : x \in 2..End /\ x - 1 \in 2..End
  BY <1>1
<1>7. ASSUME NEW q, q \in PairsAt(1) \/ q \in PairsAt(2) PROVE q # <<0, 0>>
  BY <1>1, <1>2, <1>3, <1>4, <1>6, <1>7
<1>8. ASSUME NEW q, q \in PairsAt(1), q \in PairsAt(2) PROVE FALSE
  <2>1. q[2] = d(2) /\ q[1] # 0
    BY <1>2, <1>4, <1>8
  <2>2. q[2] \in jumps
    BY <1>3, <1>8, <2>1
  <2>3. QED
    BY <1>2, <1>6, <2>1, <2>2
<1>9. ASSUME NEW x \in 3..End, NEW q, q \in PairsAt(x)
      PROVE  q # <<0, 0>> /\ q \notin PairsAt(1) /\ q \notin PairsAt(2)
  <2>1. q = <<d(x - 1), d(x)>> /\ d(x - 1) # 0 /\ d(x) # 0 /\ d(x - 1) \notin jumps /\ d(x) \notin jumps
    BY <1>2, <1>5, <1>6, <1>9
  <2>2. q \notin PairsAt(1)
    BY <1>3, <2>1
  <2>3. q \notin PairsAt(2)
    BY <1>2, <1>4, <2>1
  <2>4. QED
    BY <2>1, <2>2, <2>3
<1>10. ASSUME NEW x \in 3..End, NEW y \in 3..End, NEW q, q \in PairsAt(x), q \in PairsAt(y)
       PROVE  x = y
  <2>1. d(x - 1) = d(y - 1) /\ d(x) = d(y)
    BY <1>5, <1>10
  <2>2. QED
    BY <1>2, <2>1
<1>11. i \in 3..End \/ i = 1 \/ i = 2
  BY <1>1
<1>12. j \in 3..End \/ j = 1 \/ j = 2
  BY <1>1
<1>13. QED
  BY <1>7, <1>8, <1>9, <1>10, <1>11, <1>12

\* The second of them is the last one.
LEMMA PairEnds ==
  ASSUME NEW j \in 1..End, NEW p, p \in PairsAt(j)
  PROVE  /\ j > 1 => p[2] = ReplayDistance(j)
         /\ j = 1 => p[2] \in {Wrap, Over, Back, ReplayTraining[1]}
BY SequenceShape DEF PairsAt

\* The triggers end where the training continues.
LEMMA TriggersEndThere ==
  /\ TriggersEnd \in PairsAt(ReplayTriggers) /\ ReplayTriggers \in 1..End
  /\ PairsAt(End) = {<<ReplayDistance(End - 1), ReplayDistance(End)>>} /\ End \in 1..End
  /\ PairsAt(ReplayTriggers) = {TriggersEnd}
BY SequenceShape DEF PairsAt, TriggersEnd

\* Where the next access of the sequence may come from.
Before(base, j) ==
  \/ j > 1 /\ At(base, j - 1)
  \/ j = 1 /\ base = 0 /\ (AtStart \/ At(0, End))
  \/ j = 1 /\ base = ReplayLines /\ At(0, End)

\* It leads from one pair of distances to the next, by one of the distances that
\* may follow.
LEMMA NextPair ==
  ASSUME NEW base \in Int, NEW j \in 1..End, Before(base, j),
         NEW delta, delta = (base + ReplayTraining[j]) - seen.last
  PROVE  /\ <<seen.delta, delta>> \in PairsAt(j)
         /\ seen.pair = <<0, 0>> \/ \E i \in 1..End : /\ seen.pair \in PairsAt(i) /\ delta \in NextAt(i)
                                                      /\ i = ReplayTriggers => j \in {1, i + 1}
<1>1. /\ End \in Nat /\ End >= 4 /\ ReplayLines \in Int
      /\ \A i \in 1..End : ReplayTraining[i] \in Int
      /\ ReplayTriggers \in Nat /\ 3 <= ReplayTriggers /\ ReplayTriggers < End
  BY SequenceShape
<1>2. \A i \in 2..End : ReplayDistance(i) = ReplayTraining[i] - ReplayTraining[i - 1]
  BY DistancesShape
<1>3. CASE j > 1 /\ At(base, j - 1)
  <2>1. j \in 2..End /\ j - 1 \in 1..End /\ (j - 1) + 1 = j
    BY <1>1, <1>3
  <2>2. seen.last = base + ReplayTraining[j - 1] /\ seen.pair \in PairsAt(j - 1)
        /\ seen.delta = seen.pair[2]
    BY <1>3 DEF At
  <2>3. ReplayTraining[j] \in Int /\ ReplayTraining[j - 1] \in Int
    BY <1>1, <2>1
  <2>4. delta = ReplayDistance(j)
    BY <1>2, <2>1, <2>2, <2>3
  <2>5. <<seen.delta, delta>> \in PairsAt(j)
    <3>1. CASE j = 2
      <4>1. seen.delta \in {Wrap, Over, Back, ReplayTraining[1]}
        BY <2>1, <2>2, <3>1, PairEnds
      <4>2. QED
        BY <2>4, <3>1, <4>1 DEF PairsAt
    <3>2. CASE j # 2
      <4>1. seen.delta = ReplayDistance(j - 1)
        BY <2>1, <2>2, <3>2, PairEnds
      <4>2. PairsAt(j) = {<<ReplayDistance(j - 1), ReplayDistance(j)>>}
        BY <2>1, <3>2 DEF PairsAt
      <4>3. QED
        BY <2>4, <4>1, <4>2
    <3>3. QED
      BY <3>1, <3>2
  <2>6. delta \in NextAt(j - 1)
    <3>1. j - 1 < End
      BY <1>1, <2>1
    <3>2. ReplayDistance(j - 1 + 1) \in NextAt(j - 1)
      BY <3>1, Zenon DEF NextAt
    <3>3. QED
      BY <2>1, <2>4, <3>2
  <2>7. QED
    BY <2>1, <2>2, <2>5, <2>6
<1>4. CASE j = 1 /\ At(0, End)
  <2>1. seen.last = ReplayTraining[End] /\ seen.pair \in PairsAt(End) /\ seen.delta = seen.pair[2]
    <3>1. seen.last = 0 + ReplayTraining[End] /\ ReplayTraining[End] \in Int
      BY <1>1, <1>4 DEF At
    <3>2. QED
      BY <1>4, <3>1 DEF At
  <2>2. seen.delta = ReplayDistance(End)
    BY <1>1, <2>1, PairEnds
  <2>3. base = 0 \/ base = ReplayLines
    BY <1>4 DEF Before
  <2>4. delta = (IF base = 0 THEN Wrap ELSE Over)
    <3>1. ReplayTraining[1] \in Int /\ ReplayTraining[End] \in Int
      BY <1>1
    <3>2. QED
      BY <1>1, <1>4, <2>1, <2>3, <3>1 DEF Wrap, Over
  <2>5. delta \in NextAt(End) /\ <<seen.delta, delta>> \in PairsAt(1)
    <3>1. ~(End < End)
      BY <1>1
    <3>2. {Wrap, Over} \subseteq NextAt(End)
      BY <3>1 DEF NextAt
    <3>3. {<<ReplayDistance(End), Wrap>>, <<ReplayDistance(End), Over>>} \subseteq PairsAt(1)
      BY DEF PairsAt
    <3>4. QED
      BY <2>2, <2>4, <3>2, <3>3
  <2>6. End \in 1..End /\ End # ReplayTriggers
    BY <1>1
  <2>7. QED
    BY <1>4, <2>1, <2>5, <2>6
<1>5. CASE j = 1 /\ base = 0 /\ At(ReplayLines, ReplayTriggers)
  <2>1. ReplayTriggers \in 1..End /\ 1 \in 1..End
    BY <1>1
  <2>2. seen.last = ReplayLines + ReplayTraining[ReplayTriggers]
        /\ seen.pair \in PairsAt(ReplayTriggers) /\ seen.delta = seen.pair[2]
    BY <1>5 DEF At
  <2>3. seen.delta = ReplayDistance(ReplayTriggers)
    BY <1>1, <2>1, <2>2, PairEnds
  <2>4. delta = Back
    BY <1>1, <1>5, <2>1, <2>2 DEF Back
  <2>5. delta \in NextAt(ReplayTriggers) /\ <<seen.delta, delta>> \in PairsAt(1)
    BY <2>3, <2>4 DEF NextAt, PairsAt
  <2>6. QED
    BY <1>5, <2>1, <2>2, <2>5
<1>6. CASE j = 1 /\ base = 0 /\ Fresh
  <2>1. delta = ReplayTraining[1]
    <3>1. ReplayTraining[1] \in Int
      BY <1>1
    <3>2. QED
      BY <1>6, <3>1 DEF Fresh
  <2>2. QED
    BY <1>6, <2>1 DEF Fresh, PairsAt
<1>7. QED
  BY <1>3, <1>4, <1>5, <1>6 DEF Before, AtStart

\* One access of the sequence, and what it fetches.
LEMMA ReplayAccess ==
  ASSUME TableRight, NEW base \in Int, NEW j \in 1..End, Before(base, j),
         NEW a, a = base + ReplayTraining[j], seen' = ReplaySeen(a)
  PROVE  /\ At(base, j)' /\ TableRight'
         /\ ReplayFetch(a) \subseteq {a + x : x \in NextAt(j)}
<1>0. PICK delta : delta = (base + ReplayTraining[j]) - seen.last
  OBVIOUS
<1> DEFINE new == [pair |-> seen.pair, next |-> delta]
<1>1. /\ seen'.last = a /\ seen'.delta = delta /\ seen'.pair = <<seen.delta, delta>>
      /\ seen'.table = {e \in seen.table : e.pair # seen.pair} \union {new}
  BY <1>0 DEF ReplaySeen
<1>2. /\ seen'.pair \in PairsAt(j)
      /\ seen.pair = <<0, 0>> \/ \E i \in 1..End : seen.pair \in PairsAt(i) /\ delta \in NextAt(i)
  <2>1. /\ <<seen.delta, delta>> \in PairsAt(j)
        /\ seen.pair = <<0, 0>> \/ \E i \in 1..End : /\ seen.pair \in PairsAt(i) /\ delta \in NextAt(i)
                                                     /\ i = ReplayTriggers => j \in {1, i + 1}
    BY <1>0, NextPair
  <2>2. seen'.pair \in PairsAt(j)
    BY <1>1, <2>1, Zenon
  <2>3. QED
    BY <2>1, <2>2, Zenon
<1>3. seen'.delta = seen'.pair[2]
  BY <1>1
<1>4. At(base, j)'
  BY <1>1, <1>2, <1>3 DEF At
<1>5. new.pair = seen.pair /\ new.next = delta
  OBVIOUS
<1> HIDE DEF new
<1>6. TableRight'
  <2>1. ASSUME NEW e \in seen'.table, e.pair # <<0, 0>>
        PROVE  \E i \in 1..End : e.pair \in PairsAt(i) /\ e.next \in NextAt(i)
    <3>1. CASE e = new
      BY <1>2, <1>5, <2>1, <3>1
    <3>2. CASE e \in seen.table
      BY <2>1, <3>2 DEF TableRight
    <3>3. QED
      BY <1>1, <3>1, <3>2
  <2>2. QED
    BY <2>1 DEF TableRight, PairsAt, NextAt, End, Wrap, Over, Back
<1>7. ASSUME NEW e \in seen'.table, e.pair = seen'.pair PROVE e.next \in NextAt(j)
  <2>1. e.pair \in PairsAt(j) /\ e.pair # <<0, 0>>
    BY <1>2, <1>7, PairsApart
  <2>2. PICK i \in 1..End : e.pair \in PairsAt(i) /\ e.next \in NextAt(i)
    BY <1>6, <2>1 DEF TableRight, PairsAt, NextAt, End, Wrap, Over, Back
  <2>3. i = j
    BY <2>1, <2>2, PairsApart
  <2>4. QED
    BY <2>2, <2>3
<1>8. ReplayFetch(a) = {a + e.next : e \in {x \in seen'.table : x.pair = seen'.pair}}
  BY DEF ReplayFetch
<1>9. QED
  BY <1>4, <1>6, <1>7, <1>8

\* What it learned of the triggers it keeps but behind them, and learns again.
LEMMA LearnedStep ==
  ASSUME NEW a, seen' = ReplaySeen(a),
         \/ Learned /\ seen.pair # TriggersEnd
         \/ seen.pair = TriggersEnd /\ a - seen.last = ReplayDistance(ReplayTriggers + 1)
  PROVE  Learned'
<1> DEFINE delta == a - seen.last
           new == [pair |-> seen.pair, next |-> delta]
           next == ReplayDistance(ReplayTriggers + 1)
           Of(table) == {e \in table : e.pair = TriggersEnd}
<1>1. seen'.table = {e \in seen.table : e.pair # seen.pair} \union {new}
  BY DEF ReplaySeen
<1>2. new.pair = seen.pair /\ new.next = delta
  OBVIOUS
<1>3. Learned <=> {e.next : e \in Of(seen.table)} = {next}
  BY DEF Learned
<1>4. Learned' <=> {e.next : e \in Of(seen'.table)} = {next}
  BY DEF Learned, TriggersEnd, ReplayDistance
<1> HIDE DEF new
<1>5. CASE Learned /\ seen.pair # TriggersEnd
  <2>1. Of(seen'.table) = Of(seen.table)
    BY <1>1, <1>2, <1>5
  <2>2. QED
    BY <1>3, <1>4, <1>5, <2>1
<1>6. CASE seen.pair = TriggersEnd /\ delta = next
  <2>1. Of(seen'.table) = {new}
    BY <1>1, <1>2, <1>6
  <2>2. QED
    BY <1>2, <1>4, <1>6, <2>1
<1>7. QED
  BY <1>5, <1>6

\* The object of the test has these offsets.
LEMMA ReplayShape ==
  ASSUME PlaceInv, IsReplay
  PROVE  /\ exp.training = ReplayTraining /\ Len(exp.training) = End
         /\ Len(exp.trigger) = ReplayTriggers
         /\ \A j \in 1..ReplayTriggers : exp.trigger[j] = ReplayTraining[j]
         /\ exp.lines = ReplayLines /\ AllLines = 0..(ReplayLines - 1)
         /\ Triggers = {ReplayTraining[j] : j \in 1..ReplayTriggers}
         /\ Trained = {ReplayTraining[j] : j \in 1..End}
<1>1. exp = ReplayExperiment
  <2>1. exp \notin StreamExperiments
    BY StreamObject DEF IsReplay
  <2>2. exp \notin TemporalExperiments
    BY TemporalObject DEF IsReplay
  <2>3. QED
    BY <2>1, <2>2 DEF PlaceInv, Experiments
<1>2. /\ ReplayLines \in Nat \ {0} /\ ReplayTraining \in Seq(0..(ReplayLines - 1))
      /\ ReplayTriggers \in 1..Len(ReplayTraining) /\ Len(ReplayTraining) \in Nat \ {0}
  BY ReplayAssumption
<1> DEFINE t == SubSeq(ReplayTraining, 1, ReplayTriggers)
<1>3. Len(t) = ReplayTriggers /\ \A j \in 1..ReplayTriggers : t[j] = ReplayTraining[j]
  BY <1>2
<1>4. t \in Seq(0..(ReplayLines - 1)) /\ Len(t) = ReplayTriggers
  BY <1>2
<1>5. DOMAIN t = 1..ReplayTriggers /\ DOMAIN ReplayTraining = 1..End
  BY <1>2, <1>3, <1>4 DEF End
<1> HIDE DEF t
<1>6. exp.training = ReplayTraining /\ exp.trigger = t /\ exp.lines = ReplayLines
  BY <1>1 DEF ReplayExperiment, t
<1>7. Triggers = {t[j] : j \in 1..ReplayTriggers}
  BY <1>5, <1>6 DEF Triggers, ToSet
<1>8. Trained = {ReplayTraining[j] : j \in 1..End}
  BY <1>5, <1>6 DEF Trained, ToSet
<1>9. Triggers = {ReplayTraining[j] : j \in 1..ReplayTriggers}
  BY <1>3, <1>7
<1>10. QED
  BY <1>3, <1>6, <1>8, <1>9 DEF End, AllLines

\* What does not touch the prefetcher.
LEMMA SeenKept ==
  ASSUME seen' = seen
  PROVE  /\ \A base, j : At(base, j)' <=> At(base, j)
         /\ AtStart' <=> AtStart
         /\ TableRight' <=> TableRight
         /\ Learned' <=> Learned
<1>1. \A base, j : At(base, j)' <=> At(base, j)
  BY DEF At, PairsAt, End, Wrap, Over, Back, ReplayDistance
<1>2. AtStart' <=> AtStart
  BY <1>1 DEF AtStart, Fresh
<1>3. TableRight' <=> TableRight
  BY DEF TableRight, PairsAt, NextAt, End, Wrap, Over, Back, ReplayDistance
<1>4. Learned' <=> Learned
  BY DEF Learned, TriggersEnd, ReplayDistance
<1>5. QED
  BY <1>1, <1>2, <1>3, <1>4

\* Unless it is there the prefetcher is not behind the triggers.
LEMMA NotTriggersEnd ==
  ASSUME NEW base, NEW j \in 1..End, At(base, j), j # ReplayTriggers
  PROVE  seen.pair # TriggersEnd
BY TriggersEndThere, PairsApart DEF At

\* Each step leads to the next access.
LEMMA ReplaySeenStep ==
  ASSUME PlaceInv, ReplaySeenInv, [Next]_vars
  PROVE  ReplaySeenInv'
<1>1. IsReplay' = IsReplay
  BY FixedSets
<1>2. SUFFICES ASSUME IsReplay PROVE ReplaySeenInv'
  BY <1>1 DEF ReplaySeenInv
<1>3. ~IsStream /\ ~IsTemporal
  BY <1>2 DEF IsStream, IsTemporal, IsReplay
<1>4. /\ End \in Nat /\ End >= 4 /\ ReplayTriggers \in Nat /\ 3 <= ReplayTriggers /\ ReplayTriggers < End
      /\ ReplayLines \in Nat \ {0} /\ \A j \in 1..End : ReplayTraining[j] \in Int
  BY SequenceShape
<1>5. /\ exp.training = ReplayTraining /\ Len(exp.training) = End
      /\ Len(exp.trigger) = ReplayTriggers
      /\ \A j \in 1..ReplayTriggers : exp.trigger[j] = ReplayTraining[j]
  BY <1>2, ReplayShape
<1>6. loop \in Nat /\ TableRight
  BY <1>2 DEF ReplaySeenInv
<1>7. CASE UNCHANGED vars
  BY <1>2, <1>7, SeenKept DEF vars, memory, ReplaySeenInv
<1>8. CASE Flush
  <2>1. pc = "repeat" /\ pc' = "train" /\ loop' = 0 /\ k' = 1 /\ seen' = seen
    BY <1>8 DEF Flush
  <2>2. AtStart' /\ TableRight'
    BY <1>2, <2>1, SeenKept DEF ReplaySeenInv
  <2>3. ~(k' > 1) /\ ~(k' > ReplayTriggers + 1) /\ ~(loop' > 0) /\ loop' \in Nat
    BY <1>4, <2>1
  <2>4. QED
    BY <2>1, <2>2, <2>3 DEF ReplaySeenInv
<1>9. CASE ReplayTrain
  <2>1. /\ pc = "train" /\ loop' = loop /\ seen' = ReplaySeen(ReplayTraining[k])
        /\ IF k = End THEN pc' = "flush" /\ k' = 1 ELSE k' = k + 1 /\ pc' = pc
    BY <1>5, <1>9 DEF ReplayTrain, Load
  <2>2. PICK j \in 1..End : j = k
    BY <1>5, <2>1 DEF PlaceInv
  <2>3. Before(0, j)
    <3>1. IF k > 1 THEN At(0, k - 1) ELSE IF loop > 0 THEN At(0, End) ELSE AtStart
      BY <1>2, <2>1 DEF ReplaySeenInv
    <3>2. QED
      BY <2>2, <3>1 DEF Before
  <2>4. ReplayTraining[k] = 0 + ReplayTraining[j]
    BY <1>4, <2>2
  <2>5. At(0, j)' /\ TableRight'
    BY <1>6, <2>1, <2>2, <2>3, <2>4, ReplayAccess
  <2>6. ASSUME k >= ReplayTriggers + 1 \/ loop > 0 PROVE Learned'
    <3>1. CASE k = ReplayTriggers + 1
      <4>1. At(0, ReplayTriggers)
        <5>1. k > 1 /\ k - 1 = ReplayTriggers
          BY <1>4, <3>1
        <5>2. QED
          BY <1>2, <2>1, <5>1 DEF ReplaySeenInv
      <4>2. seen.pair = TriggersEnd /\ seen.last = 0 + ReplayTraining[ReplayTriggers]
        BY <4>1, TriggersEndThere DEF At
      <4>3. ReplayTriggers + 1 \in 2..End /\ ReplayTriggers + 1 - 1 = ReplayTriggers
            /\ ReplayTriggers \in 1..End
        BY <1>4
      <4>4. ReplayDistance(ReplayTriggers + 1) = ReplayTraining[ReplayTriggers + 1] - ReplayTraining[ReplayTriggers]
        BY <4>3, DistancesShape
      <4>5. ReplayTraining[k] - seen.last = ReplayDistance(ReplayTriggers + 1)
        BY <1>4, <3>1, <4>2, <4>3, <4>4
      <4>6. QED
        BY <2>1, <4>2, <4>5, LearnedStep
    <3>2. CASE k # ReplayTriggers + 1
      <4>1. Learned
        BY <1>2, <1>4, <2>1, <2>2, <2>6, <3>2 DEF ReplaySeenInv
      <4>2. PICK i \in 1..End : At(0, i) /\ i # ReplayTriggers
        <5>1. CASE k > 1
          <6>1. k - 1 \in 1..End /\ k - 1 # ReplayTriggers
            BY <1>4, <2>2, <3>2, <5>1
          <6>2. At(0, k - 1)
            BY <1>2, <2>1, <5>1 DEF ReplaySeenInv
          <6>3. QED
            BY <6>1, <6>2
        <5>2. CASE ~(k > 1)
          <6>1. loop > 0 /\ End \in 1..End /\ End # ReplayTriggers
            BY <1>4, <2>2, <2>6, <5>2
          <6>2. At(0, End)
            BY <1>2, <2>1, <5>2, <6>1 DEF ReplaySeenInv
          <6>3. QED
            BY <6>1, <6>2
        <5>3. QED
          BY <5>1, <5>2
      <4>3. seen.pair # TriggersEnd
        BY <4>2, NotTriggersEnd
      <4>4. QED
        BY <2>1, <4>1, <4>3, LearnedStep
    <3>3. QED
      BY <3>1, <3>2
  <2>7. CASE k = End
    <3>1. Learned'
      BY <1>4, <2>6, <2>7
    <3>2. At(0, End)'
      BY <2>2, <2>5, <2>7 DEF At
    <3>3. QED
      BY <1>6, <2>1, <2>5, <2>7, <3>1, <3>2 DEF ReplaySeenInv
  <2>8. CASE k # End
    <3>1. k' = j + 1 /\ pc' = "train" /\ k' > 1 /\ k' - 1 = j
      BY <2>1, <2>2, <2>8
    <3>2. At(0, k - 1)'
      BY <2>5, <3>1 DEF At
    <3>3. (k' > ReplayTriggers + 1 \/ loop' > 0) => Learned'
      BY <1>4, <2>1, <2>2, <2>6, <3>1
    <3>4. QED
      BY <1>6, <2>1, <2>5, <3>1, <3>2, <3>3 DEF ReplaySeenInv
  <2>9. QED
    BY <2>7, <2>8
<1>10. CASE ReplayFlush
  <2>1. /\ pc = "flush" /\ loop' = loop + 1 /\ k' = k /\ seen' = seen
        /\ pc' \in {"trigger", "train"}
    BY <1>10 DEF ReplayFlush
  <2>2. k = 1
    BY <2>1 DEF PlaceInv
  <2>3. At(0, End)' /\ TableRight' /\ Learned'
    BY <1>2, <2>1, SeenKept DEF ReplaySeenInv
  <2>4. k' = 1 /\ loop' \in Nat /\ loop' > 0
    BY <1>6, <2>1, <2>2
  <2>5. QED
    BY <2>1, <2>3, <2>4 DEF ReplaySeenInv
<1>11. CASE ReplayTrigger
  <2>1. /\ pc = "trigger" /\ loop' = loop /\ seen' = ReplaySeen(mapping2(exp.trigger[k]))
        /\ IF k = ReplayTriggers THEN pc' = "probe" /\ k' = k ELSE k' = k + 1 /\ pc' = pc
    BY <1>5, <1>11 DEF ReplayTrigger, Load
  <2>2. PICK j \in 1..End : j = k /\ j \in 1..ReplayTriggers
    <3>1. k \in 1..ReplayTriggers
      BY <1>5, <2>1 DEF PlaceInv
    <3>2. QED
      BY <1>4, <3>1
  <2>3. mapping2(exp.trigger[k]) = ReplayLines + ReplayTraining[j]
    BY <1>5, <2>2 DEF mapping2
  <2>4. Before(ReplayLines, j)
    <3>1. IF k > 1 THEN At(ReplayLines, k - 1) ELSE At(0, End)
      BY <1>2, <2>1 DEF ReplaySeenInv
    <3>2. QED
      BY <2>2, <3>1 DEF Before
  <2>5. At(ReplayLines, j)' /\ TableRight'
    <3>1. ReplayLines \in Int /\ seen' = ReplaySeen(ReplayLines + ReplayTraining[j])
      BY <1>4, <2>1, <2>3
    <3>2. QED
      BY <1>6, <2>4, <3>1, ReplayAccess
  <2>6. Learned'
    <3>1. PICK base \in Int, i \in 1..End : At(base, i) /\ i # ReplayTriggers
      <4>1. CASE k > 1
        <5>1. k - 1 \in 1..End /\ k - 1 # ReplayTriggers
          BY <1>4, <2>2, <4>1
        <5>2. At(ReplayLines, k - 1)
          BY <1>2, <2>1, <4>1 DEF ReplaySeenInv
        <5>3. QED
          BY <1>4, <5>1, <5>2
      <4>2. CASE ~(k > 1)
        <5>1. At(0, End) /\ End \in 1..End /\ End # ReplayTriggers
          BY <1>2, <1>4, <2>1, <4>2 DEF ReplaySeenInv
        <5>2. QED
          BY <1>4, <5>1
      <4>3. QED
        BY <4>1, <4>2
    <3>2. seen.pair # TriggersEnd
      BY <3>1, NotTriggersEnd
    <3>3. QED
      BY <1>2, <2>1, <3>2, LearnedStep DEF ReplaySeenInv
  <2>7. CASE k = ReplayTriggers
    <3>1. At(ReplayLines, ReplayTriggers)'
      BY <2>2, <2>5, <2>7 DEF At
    <3>2. QED
      BY <1>6, <2>1, <2>5, <2>6, <2>7, <3>1 DEF ReplaySeenInv
  <2>8. CASE k # ReplayTriggers
    <3>1. k' = j + 1 /\ pc' = "trigger" /\ k' > 1 /\ k' - 1 = j
      BY <2>1, <2>2, <2>8
    <3>2. At(ReplayLines, k - 1)'
      BY <2>5, <3>1 DEF At
    <3>3. QED
      BY <1>6, <2>1, <2>5, <2>6, <3>1, <3>2 DEF ReplaySeenInv
  <2>9. QED
    BY <2>7, <2>8
<1>12. CASE ReplayProbe
  <2>1. seen' = seen /\ loop' = loop /\ pc = "probe" /\ pc' \in {"normalize", "repeat"}
    BY <1>12 DEF ReplayProbe, ProbeAt
  <2>2. At(ReplayLines, ReplayTriggers)' /\ TableRight' /\ AtStart'
    BY <1>2, <2>1, SeenKept DEF ReplaySeenInv, AtStart
  <2>3. QED
    BY <1>6, <2>1, <2>2 DEF ReplaySeenInv
<1>13. CASE Normalize \/ ReplayEvaluate
  <2>1. /\ seen' = seen /\ loop' = loop /\ pc \in {"normalize", "evaluate"}
        /\ pc' \in {"evaluate", "done"}
    BY <1>13 DEF Normalize, ReplayEvaluate, memory
  <2>2. At(ReplayLines, ReplayTriggers)' /\ TableRight'
    BY <1>2, <2>1, SeenKept DEF ReplaySeenInv
  <2>3. QED
    BY <1>6, <2>1, <2>2 DEF ReplaySeenInv
<1>14. QED
  BY <1>3, <1>7, <1>8, <1>9, <1>10, <1>11, <1>12, <1>13
  DEF Next, Ended, StreamNext, TemporalNext, ReplayNext, StreamWorkload, StreamProbe, StreamEvaluate,
      TemporalTrain, TemporalFlush, TemporalTrigger, TemporalProbe, TemporalEvaluate

\* What it fetches in the training is in the mapping that is flushed, or the first
\* of the triggers.
LEMMA TrainingFetch ==
  ASSUME PlaceInv, ReplaySeenInv, ReplayTrain, NEW l \in AllLines,
         mapping2(l) \in ReplayFetch(exp.training[k])
  PROVE  l \in Triggers
<1>1. IsReplay /\ pc = "train" /\ seen' = ReplaySeen(exp.training[k])
  BY DEF ReplayTrain, Load
<1>2. /\ exp.training = ReplayTraining /\ Len(exp.training) = End
      /\ AllLines = 0..(ReplayLines - 1)
      /\ Triggers = {ReplayTraining[j] : j \in 1..ReplayTriggers}
  BY <1>1, ReplayShape
<1>3. /\ End \in Nat /\ End >= 4 /\ ReplayTriggers \in Nat /\ 3 <= ReplayTriggers /\ ReplayTriggers < End
      /\ ReplayLines \in Nat \ {0} /\ \A j \in 1..End : ReplayTraining[j] \in 0..(ReplayLines - 1)
  BY SequenceShape
<1>4. PICK j \in 1..End : j = k
  BY <1>1, <1>2 DEF PlaceInv
<1>5. Before(0, j) /\ TableRight
  <2>1. TableRight /\ IF k > 1 THEN At(0, k - 1) ELSE IF loop > 0 THEN At(0, End) ELSE AtStart
    BY <1>1 DEF ReplaySeenInv
  <2>2. QED
    BY <1>4, <2>1 DEF Before
<1>6. exp.training[k] = 0 + ReplayTraining[j]
  BY <1>2, <1>3, <1>4
<1>7. ReplayFetch(exp.training[k]) \subseteq {exp.training[k] + x : x \in NextAt(j)}
  <2>1. PICK a : a = exp.training[k]
    OBVIOUS
  <2>2. a = 0 + ReplayTraining[j] /\ seen' = ReplaySeen(a)
    BY <1>1, <1>6, <2>1
  <2>3. ReplayFetch(a) \subseteq {a + x : x \in NextAt(j)}
    BY <1>5, <2>2, ReplayAccess
  <2>4. QED
    BY <2>1, <2>3
<1>8. PICK x \in NextAt(j) : mapping2(l) = ReplayTraining[j] + x
  BY <1>2, <1>4, <1>7
<1>9. /\ ReplayLines + l = ReplayTraining[j] + x /\ l \in Nat /\ ReplayTraining[j] \in Int
      /\ ReplayTraining[1] \in 0..(ReplayLines - 1) /\ ReplayTraining[1] \in Triggers
  BY <1>2, <1>3, <1>8 DEF mapping2
<1>10. CASE j < End /\ x = ReplayDistance(j + 1)
  <2>1. j + 1 \in 2..End /\ j + 1 \in 1..End /\ j + 1 - 1 = j
    BY <1>3, <1>10
  <2>2. x = ReplayTraining[j + 1] - ReplayTraining[j] /\ ReplayTraining[j + 1] \in 0..(ReplayLines - 1)
    BY <1>3, <1>10, <2>1, DistancesShape
  <2>3. QED
    BY <1>3, <1>9, <2>2
<1>11. CASE j = End /\ x = Wrap
  BY <1>3, <1>9, <1>11 DEF Wrap
<1>12. CASE j = End /\ x = Over
  <2>1. l = ReplayTraining[1]
    BY <1>3, <1>9, <1>12 DEF Over
  <2>2. QED
    BY <1>9, <2>1
<1>13. CASE j = ReplayTriggers /\ x = Back
  BY <1>3, <1>9, <1>13 DEF Back
<1>14. QED
  BY <1>3, <1>8, <1>10, <1>11, <1>12, <1>13 DEF NextAt

\* What it fetches at the triggers are the next ones and then the line that
\* follows in the training.
LEMMA TriggerFetch ==
  ASSUME PlaceInv, ReplaySeenInv, ReplaySeenInv', ReplayTrigger,
         NEW F, F = {l \in AllLines : mapping2(l) \in ReplayFetch(mapping2(exp.trigger[k]))}
  PROVE  IF k = Len(exp.trigger) THEN F = {ReplayTraining[ReplayTriggers + 1]} ELSE F \subseteq Triggers
<1> DEFINE a == mapping2(exp.trigger[k])
<1>1. IsReplay /\ pc = "trigger" /\ seen' = ReplaySeen(a)
  BY DEF ReplayTrigger, Load
<1>2. /\ Len(exp.trigger) = ReplayTriggers /\ AllLines = 0..(ReplayLines - 1)
      /\ \A j \in 1..ReplayTriggers : exp.trigger[j] = ReplayTraining[j]
      /\ Triggers = {ReplayTraining[j] : j \in 1..ReplayTriggers}
  BY <1>1, ReplayShape
<1>3. /\ End \in Nat /\ End >= 4 /\ ReplayTriggers \in Nat /\ 3 <= ReplayTriggers /\ ReplayTriggers < End
      /\ ReplayLines \in Nat \ {0} /\ \A j \in 1..End : ReplayTraining[j] \in 0..(ReplayLines - 1)
  BY SequenceShape
<1>4. PICK j \in 1..ReplayTriggers : j = k
  BY <1>1, <1>2 DEF PlaceInv
<1>5. a = ReplayLines + ReplayTraining[j] /\ j \in 1..End
  BY <1>2, <1>3, <1>4 DEF mapping2
<1> HIDE DEF a
<1>6. Before(ReplayLines, j) /\ TableRight
  <2>1. TableRight /\ IF k > 1 THEN At(ReplayLines, k - 1) ELSE At(0, End)
    BY <1>1 DEF ReplaySeenInv
  <2>2. QED
    BY <1>4, <2>1 DEF Before
<1>7. ReplayFetch(a) \subseteq {a + x : x \in NextAt(j)}
  <2>1. ReplayLines \in Int
    BY <1>3
  <2>2. QED
    BY <1>1, <1>5, <1>6, <2>1, ReplayAccess
<1>8. j + 1 \in 2..End /\ j + 1 \in 1..End /\ j + 1 - 1 = j /\ j < End /\ j # End
  BY <1>3, <1>4
<1>9. /\ ReplayDistance(j + 1) = ReplayTraining[j + 1] - ReplayTraining[j]
      /\ ReplayTraining[j + 1] \in 0..(ReplayLines - 1) /\ ReplayTraining[j] \in 0..(ReplayLines - 1)
  BY <1>3, <1>5, <1>8, DistancesShape
<1>10. a + ReplayDistance(j + 1) = mapping2(ReplayTraining[j + 1])
  BY <1>3, <1>5, <1>9 DEF mapping2
<1>11. ASSUME NEW l \in AllLines PROVE mapping2(l) = mapping2(ReplayTraining[j + 1]) => l = ReplayTraining[j + 1]
  BY <1>2, <1>3, <1>9 DEF mapping2
<1>12. CASE k = Len(exp.trigger)
  <2>1. j = ReplayTriggers /\ pc' = "probe"
    BY <1>2, <1>4, <1>12 DEF ReplayTrigger
  <2>2. IsReplay' = IsReplay
    BY DEF IsReplay, ReplayTrigger, machine
  <2>3. At(ReplayLines, ReplayTriggers)' /\ Learned'
    BY <1>1, <2>1, <2>2 DEF ReplaySeenInv
  <2>4. seen'.pair \in PairsAt(ReplayTriggers)
    BY <2>3 DEF At, PairsAt, End, Wrap, Over, Back, ReplayDistance
  <2>5. seen'.pair = TriggersEnd
    BY <2>4, TriggersEndThere
  <2>6. {e.next : e \in {x \in seen'.table : x.pair = TriggersEnd}} = {ReplayDistance(ReplayTriggers + 1)}
    BY <2>3 DEF Learned, TriggersEnd, ReplayDistance
  <2>7. ReplayFetch(a) = {a + e.next : e \in {x \in seen'.table : x.pair = TriggersEnd}}
    BY <1>1, <2>5 DEF ReplayFetch
  <2>8. ReplayFetch(a) = {a + ReplayDistance(ReplayTriggers + 1)}
    BY <2>6, <2>7
  <2>9. ReplayFetch(a) = {mapping2(ReplayTraining[j + 1])} /\ ReplayTraining[j + 1] \in AllLines
    BY <1>2, <1>9, <1>10, <2>1, <2>8
  <2>10. F = {ReplayTraining[j + 1]}
    BY <1>11, <2>9 DEF a
  <2>11. QED
    BY <1>12, <2>1, <2>10
<1>13. CASE k # Len(exp.trigger)
  <2>1. j # ReplayTriggers /\ j + 1 \in 1..ReplayTriggers
    BY <1>2, <1>3, <1>4, <1>13
  <2>2. NextAt(j) = {ReplayDistance(j + 1)}
    BY <1>8, <2>1 DEF NextAt
  <2>3. ReplayFetch(a) \subseteq {mapping2(ReplayTraining[j + 1])}
    BY <1>7, <1>10, <2>2
  <2>4. F \subseteq {ReplayTraining[j + 1]}
    BY <1>11, <2>3 DEF a
  <2>5. QED
    BY <1>2, <1>13, <2>1, <2>4
<1>14. QED
  BY <1>12, <1>13

------------------------------------------------------------------------------
\* The workload and its flush account for every line in the cache.
LEMMA CacheStep ==
  ASSUME PlaceInv, CacheInv, ReplaySeenInv, [Next]_vars
  PROVE  CacheInv' /\ fetched \subseteq fetched'
<1>1. /\ exp' = exp /\ hw' = hw /\ AllLines' = AllLines
      /\ Trained' = Trained /\ Triggers' = Triggers
      /\ IsStream' = IsStream /\ IsTemporal' = IsTemporal /\ IsReplay' = IsReplay
  BY FixedSets
<1>2. /\ Trained \subseteq AllLines /\ Triggers \subseteq AllLines
      /\ \A j \in 1..Len(exp.training) : exp.training[j] \in Trained
      /\ \A j \in 1..Len(exp.trigger) : exp.trigger[j] \in Triggers
      /\ exp.lines \in Nat \ {0}
  BY OffsetsAreLines
<1>3. IsReplay => AllLines = mapping1 /\ ReplayLines \in Nat \ {0}
  BY AllObjects, ReplayAssumption DEF PlaceInv, IsReplay, AllLines, mapping1
<1>4. exp' = exp => \A l \in AllLines : mapping2(l)' = mapping2(l)
  BY DEF mapping2
<1>5. hw \in {"none", "own", "any"}
  BY ProbingAssumption DEF PlaceInv
<1>6. \A x, y \in Int : mapping2(x) = mapping2(y) => x = y
  BY ReplayAssumption DEF mapping2
<1>7. \A a \in mapping1 : \A x \in AllLines : mapping2(x) # a
  BY ReplayAssumption, <1>2 DEF mapping1, mapping2, AllLines
<1>8. IsStream \/ IsTemporal \/ IsReplay
  BY OffsetsAreLines
<1>9. ~(IsStream /\ IsTemporal) /\ ~(IsStream /\ IsReplay) /\ ~(IsTemporal /\ IsReplay)
  BY DEF IsStream, IsTemporal, IsReplay
<1>10. CASE UNCHANGED vars
  BY <1>1, <1>10 DEF vars, memory, CacheInv, Second, mapping2
<1>11. CASE Flush
  <2>1. pc' = "train" /\ cache' = {} /\ fetched' = fetched
    BY <1>11 DEF Flush
  <2>2. Second' = {}
    BY <2>1 DEF Second
  <2>3. QED
    BY <1>1, <2>1, <2>2 DEF CacheInv
<1>12. CASE StreamWorkload
  <2>1. PICK lines \in Fetches(StreamFetch(exp.training[k]), stream_cl_potential_prefetch) :
          /\ cache' = cache \union {exp.training[k]} \union lines
          /\ fetched' = fetched \union lines
    BY <1>12 DEF StreamWorkload, Load
  <2>2. IsStream /\ pc = "train" /\ k \in 1..Len(exp.training)
    BY <1>12 DEF StreamWorkload, PlaceInv
  <2>3. exp.training[k] \in Trained
    BY <1>2, <2>2
  <2>4. cache' \subseteq Trained \union fetched'
    BY <2>1, <2>2, <2>3 DEF CacheInv
  <2>5. QED
    BY <1>1, <1>9, <2>1, <2>2, <2>4 DEF CacheInv
<1>13. CASE TemporalTrain \/ TemporalFlush
  BY <1>1, <1>9, <1>13 DEF TemporalTrain, TemporalFlush, CacheInv
<1>14. CASE TemporalTrigger
  <2>1. PICK lines \in Fetches(TemporalFetch(exp.trigger[1]), Trained) :
          /\ cache' = cache \union {exp.trigger[1]} \union lines
          /\ fetched' = fetched \union lines
    BY <1>14 DEF TemporalTrigger, Load
  <2>2. IsTemporal /\ pc = "trigger" /\ pc' = "probe" /\ k \in 1..Len(exp.trigger)
    BY <1>14 DEF TemporalTrigger, PlaceInv
  <2>3. Len(exp.trigger) = 1
    BY <2>2, AllObjects, TemporalObject DEF PlaceInv, IsTemporal
  <2>4. exp.trigger[1] \in Triggers
    BY <1>2, <2>3
  <2>5. QED
    BY <1>1, <1>9, <2>1, <2>2, <2>4 DEF CacheInv
<1>15. CASE ReplayTrain
  <2> DEFINE a == exp.training[k]
             cand == Candidates2
             own == ReplayFetch(a)
  <2>1. PICK lines \in Fetches(own, cand) :
          /\ cache' = cache \union {a} \union lines
          /\ fetched' = fetched \union {l \in AllLines : mapping2(l) \in lines}
    BY <1>15 DEF ReplayTrain, Load, Offsets2
  <2>2. IsReplay /\ pc = "train" /\ pc' \in {"train", "flush"} /\ k \in 1..Len(exp.training)
    BY <1>15 DEF ReplayTrain, PlaceInv
  <2>3. a \in mapping1
    BY <1>2, <1>3, <2>2
  <2>4. ASSUME NEW l \in AllLines, mapping2(l) \in own PROVE l \in Triggers
    BY <1>15, <2>4, TrainingFetch
  <2> HIDE DEF own, a, cand
  <2>5. Second' = {l \in AllLines : mapping2(l) \in cache'}
    BY <1>1 DEF Second, mapping2
  <2>6. ASSUME NEW l \in Second'
        PROVE  l \in Triggers \union fetched' /\ (hw # "any" => l \in Triggers)
    <3>1. l \in AllLines /\ mapping2(l) \in cache' /\ mapping2(l) # a
      BY <1>3, <1>7, <2>2, <2>3, <2>5
    <3>2. CASE mapping2(l) \in cache
      BY <2>1, <2>2, <3>1, <3>2 DEF CacheInv, Second
    <3>3. CASE mapping2(l) \in lines
      <4>1. l \in fetched'
        BY <2>1, <3>1, <3>3
      <4>2. hw # "any" => mapping2(l) \in own
        BY <1>5, <2>1, <3>3, FetchedSubset
      <4>3. QED
        BY <2>4, <3>1, <4>1, <4>2
    <3>4. QED
      BY <2>1, <3>1, <3>2, <3>3
  <2>7. QED
    BY <1>1, <1>9, <2>1, <2>2, <2>6 DEF CacheInv
<1>16. CASE ReplayFlush
  <2>1. IsReplay /\ pc = "flush" /\ fetched' = fetched /\ cache' \subseteq cache
    BY <1>16 DEF ReplayFlush
  <2>2. Second' \subseteq Second
    BY <1>1, <2>1 DEF Second, mapping2
  <2>3. QED
    BY <1>1, <1>9, <2>1, <2>2 DEF CacheInv
<1>17. CASE ReplayTrigger
  <2> DEFINE a == mapping2(exp.trigger[k])
             cand == Candidates2
  <2>1. PICK lines \in Fetches(ReplayFetch(a), cand) :
          /\ cache' = cache \union {a} \union lines
          /\ fetched' = fetched \union {l \in AllLines : mapping2(l) \in lines}
    BY <1>17 DEF ReplayTrigger, Load, Offsets2
  <2>2. IsReplay /\ pc = "trigger" /\ pc' \in {"trigger", "probe"} /\ k \in 1..Len(exp.trigger)
    BY <1>17 DEF ReplayTrigger, PlaceInv
  <2>3. exp.trigger[k] \in Triggers /\ exp.trigger[k] \in AllLines
    BY <1>2, <2>2
  <2>4. Second' = {l \in AllLines : mapping2(l) \in cache'}
    BY <1>1 DEF Second, mapping2
  <2>5. ASSUME NEW l \in Second' PROVE l \in Triggers \union fetched'
    <3>1. l \in AllLines /\ mapping2(l) \in cache'
      BY <2>4
    <3>2. CASE mapping2(l) = a
      <4>1. l \in Int /\ exp.trigger[k] \in Int
        BY <1>3, <2>2, <2>3, <3>1 DEF mapping1
      <4>2. QED
        BY <1>6, <2>3, <3>2, <4>1
    <3>3. CASE mapping2(l) \in cache
      BY <2>1, <2>2, <3>1, <3>3 DEF CacheInv, Second
    <3>4. CASE mapping2(l) \in lines
      BY <2>1, <3>1, <3>4
    <3>5. QED
      BY <2>1, <3>1, <3>2, <3>3, <3>4
  <2>6. QED
    BY <1>1, <1>9, <2>1, <2>2, <2>5 DEF CacheInv
<1>18. CASE StreamProbe \/ TemporalProbe \/ ReplayProbe \/ Normalize
            \/ StreamEvaluate \/ TemporalEvaluate \/ ReplayEvaluate
  <2>1. fetched' = fetched /\ pc' \in {"repeat", "normalize", "evaluate", "done"}
    BY <1>18 DEF StreamProbe, TemporalProbe, ReplayProbe, ProbeAt, Normalize, memory,
                 StreamEvaluate, TemporalEvaluate, ReplayEvaluate
  <2>2. QED
    BY <2>1 DEF CacheInv
<1>19. QED
  BY <1>10, <1>11, <1>12, <1>13, <1>14, <1>15, <1>16, <1>17, <1>18
  DEF Next, Ended, StreamNext, TemporalNext, ReplayNext

\* A counter of 0 stays 0 when it is scaled, and every counter a number.
LEMMA ScaledCounter ==
  ASSUME PlaceInv, NEW n \in Nat
  PROVE  /\ (n * 1000) \div (exp.reps \div exp.lines) \in Nat
         /\ (0 * 1000) \div (exp.reps \div exp.lines) = 0
<1>1. PICK L \in Nat \ {0} : exp.lines = L /\ exp.reps = L + 1
  BY AllObjects DEF PlaceInv, IsObject
<1>2. (L * 1 + 0) \div L = 1
  BY <1>1, DivUnique
<1>3. 1 <= (L + 1) \div L /\ (L + 1) \div L \in Nat
  BY <1>1
<1> DEFINE r == (L + 1) \div L
<1>4. r \in Nat \ {0}
  BY <1>3
<1> HIDE DEF r
<1>5. (n * 1000) \div r \in Nat /\ 0 \div r = 0
  BY <1>4
<1>6. QED
  BY <1>1, <1>5 DEF r

\* A probe that hits, hits a line that was accessed or fetched.
LEMMA ProbeExplained ==
  ASSUME PlaceInv, CacheInv, HistInv, [Next]_vars,
         NEW address, NEW lines, NEW next, ProbeAt(address, lines, next),
         address \in cache => probe_idx \in Accessed \union fetched
  PROVE  HistInv'
<1>1. AllLines' = AllLines /\ Accessed' = Accessed /\ fetched' = fetched /\ probe_idx \in AllLines
  BY FixedSets, OffsetsAreLines DEF ProbeAt
<1>2. hist' = [hist EXCEPT ![probe_idx] = @ + IF address \in cache THEN 1 ELSE 0]
  BY DEF ProbeAt
<1>3. hist' \in [AllLines -> Nat]
  BY <1>1, <1>2 DEF HistInv
<1>4. ASSUME NEW l \in AllLines, hist'[l] > 0 PROVE l \in Accessed \union fetched
  <2>1. CASE hist[l] > 0
    BY <2>1 DEF HistInv
  <2>2. CASE ~(hist[l] > 0)
    <3>1. hist[l] = 0
      BY <2>2 DEF HistInv
    <3>2. l = probe_idx /\ address \in cache
      BY <1>1, <1>2, <1>4, <3>1 DEF HistInv
    <3>3. QED
      BY <3>2
  <2>3. QED
    BY <2>1, <2>2
<1>5. QED
  BY <1>1, <1>3, <1>4 DEF HistInv

\* Counters above 0 are those of lines that were accessed or fetched, and the
\* accessed ones are no candidates.
LEMMA HistStep ==
  ASSUME PlaceInv, CacheInv, ReplaySeenInv, HistInv, OnlyPrefetches, [Next]_vars
  PROVE  HistInv' /\ OnlyPrefetches'
<1>1. /\ AllLines' = AllLines /\ Accessed' = Accessed /\ fetched \subseteq fetched'
      /\ probe_idx \in AllLines
  BY FixedSets, CacheStep, OffsetsAreLines
<1>2. ~(IsStream /\ IsTemporal) /\ ~(IsStream /\ IsReplay) /\ ~(IsTemporal /\ IsReplay)
  BY DEF IsStream, IsTemporal, IsReplay
<1>3. CASE UNCHANGED <<hist, vector>>
  BY <1>1, <1>3 DEF HistInv, OnlyPrefetches
<1>4. CASE StreamProbe
  <2>1. IsStream /\ pc = "probe" /\ vector' = vector
    BY <1>4 DEF StreamProbe, ProbeAt
  <2>2. probe_idx \in cache => probe_idx \in Accessed \union fetched
    BY <2>1 DEF CacheInv, Accessed
  <2>3. HistInv'
    BY <1>4, <2>2, ProbeExplained DEF StreamProbe
  <2>4. QED
    BY <1>1, <2>1, <2>3 DEF OnlyPrefetches
<1>5. CASE TemporalProbe
  <2>1. IsTemporal /\ pc = "probe" /\ vector' = vector
    BY <1>5 DEF TemporalProbe, ProbeAt
  <2>2. probe_idx \in cache => probe_idx \in Accessed \union fetched
    BY <1>2, <2>1 DEF CacheInv, Accessed
  <2>3. HistInv'
    BY <1>5, <2>2, ProbeExplained DEF TemporalProbe
  <2>4. QED
    BY <1>1, <2>1, <2>3 DEF OnlyPrefetches
<1>6. CASE ReplayProbe
  <2>1. IsReplay /\ pc = "probe" /\ vector' = vector
    BY <1>6 DEF ReplayProbe, ProbeAt
  <2>2. mapping2(probe_idx) \in cache => probe_idx \in Accessed \union fetched
    <3>1. SUFFICES ASSUME mapping2(probe_idx) \in cache PROVE probe_idx \in Triggers \union fetched
      BY <1>2, <2>1 DEF Accessed
    <3>2. probe_idx \in Second
      BY <1>1, <3>1 DEF Second
    <3>3. QED
      BY <2>1, <3>2 DEF CacheInv
  <2>3. HistInv'
    BY <1>6, <2>2, ProbeExplained DEF ReplayProbe
  <2>4. QED
    BY <1>1, <2>1, <2>3 DEF OnlyPrefetches
<1>7. CASE Normalize
  <2>1. /\ hist' = [l \in AllLines |-> (hist[l] * 1000) \div (exp.reps \div exp.lines)]
        /\ vector' = vector
    BY <1>7 DEF Normalize
  <2>2. \A n \in Nat : (n * 1000) \div (exp.reps \div exp.lines) \in Nat
    BY ScaledCounter
  <2>3. hist' \in [AllLines -> Nat]
    BY <2>1, <2>2 DEF HistInv
  <2>4. ASSUME NEW l \in AllLines, hist'[l] > 0 PROVE hist[l] > 0
    <3>1. hist'[l] = (hist[l] * 1000) \div (exp.reps \div exp.lines)
      BY <2>1
    <3>2. hist[l] # 0
      <4>1. (0 * 1000) \div (exp.reps \div exp.lines) = 0
        BY ScaledCounter
      <4>2. ASSUME hist[l] = 0 PROVE hist'[l] = 0
        BY <3>1, <4>1, <4>2
      <4>3. QED
        BY <2>4, <4>2
    <3>3. QED
      BY <3>2 DEF HistInv
  <2>5. QED
    BY <1>1, <2>1, <2>3, <2>4 DEF HistInv, OnlyPrefetches
<1>8. CASE StreamEvaluate \/ TemporalEvaluate \/ ReplayEvaluate
  <2>1. PICK candidates \in SUBSET AllLines :
          /\ candidates \intersect Accessed = {}
          /\ vector' \subseteq {l \in candidates : hist[l] > Noise}
    <3>1. CASE StreamEvaluate
      <4>1. IsStream /\ vector' = PrefetchVector(stream_cl_accessed, stream_cl_potential_prefetch)
        BY <3>1 DEF StreamEvaluate
      <4>2. /\ stream_cl_potential_prefetch \subseteq AllLines
            /\ stream_cl_potential_prefetch \intersect Accessed = {}
        BY <4>1 DEF stream_cl_potential_prefetch, stream_cl_accessed, Accessed
      <4>3. QED
        BY <4>1, <4>2 DEF PrefetchVector
    <3>2. CASE TemporalEvaluate
      <4> DEFINE c == temporal_cl_potential_prefetch \ temporal_cl_accessed
      <4>1. IsTemporal /\ vector' = PrefetchVector(temporal_cl_accessed, c)
        BY <3>2 DEF TemporalEvaluate
      <4>2. c \subseteq AllLines /\ c \intersect Accessed = {}
        BY <1>2, <4>1, OffsetsAreLines
        DEF temporal_cl_potential_prefetch, temporal_cl_accessed, Accessed
      <4>3. QED
        BY <4>1, <4>2 DEF PrefetchVector
    <3>3. CASE ReplayEvaluate
      <4>1. IsReplay /\ vector' = PrefetchVector(replay_cl_accessed, replay_cl_potential_prefetch)
        BY <3>3 DEF ReplayEvaluate
      <4>2. /\ replay_cl_potential_prefetch \subseteq AllLines
            /\ replay_cl_potential_prefetch \intersect Accessed = {}
        BY <1>2, <4>1, OffsetsAreLines DEF replay_cl_potential_prefetch, Accessed
      <4>3. QED
        BY <4>1, <4>2 DEF PrefetchVector
    <3>4. QED
      BY <1>8, <3>1, <3>2, <3>3
  <2>2. hist' = hist
    BY <1>8 DEF StreamEvaluate, TemporalEvaluate, ReplayEvaluate
  <2>3. ASSUME NEW l \in vector' PROVE l \in fetched
    <3>1. l \in AllLines /\ l \notin Accessed /\ hist[l] > Noise
      BY <2>1
    <3>2. hist[l] > 0
      BY <3>1, ProbingAssumption DEF HistInv
    <3>3. QED
      BY <3>1, <3>2 DEF HistInv
  <2>4. QED
    BY <1>1, <2>2, <2>3 DEF HistInv, OnlyPrefetches
<1>9. CASE Flush \/ StreamWorkload \/ TemporalTrain \/ TemporalFlush \/ TemporalTrigger
           \/ ReplayTrain \/ ReplayFlush \/ ReplayTrigger \/ Ended \/ UNCHANGED vars
  BY <1>3, <1>9 DEF Flush, StreamWorkload, TemporalTrain, TemporalFlush, TemporalTrigger,
    ReplayTrain, ReplayFlush, ReplayTrigger, Ended, vars, outcome
<1>10. QED
  BY <1>4, <1>5, <1>6, <1>7, <1>8, <1>9 DEF Next, StreamNext, TemporalNext, ReplayNext

\* Without a prefetcher nothing is fetched, and the report is that of the vector.
LEMMA ReportStep ==
  ASSUME PlaceInv, ResultInv, hw = "none" => fetched = {}, [Next]_vars
  PROVE  ResultInv' /\ (hw' = "none" => fetched' = {})
<1>1. /\ hw' = hw /\ IsStream' = IsStream /\ IsTemporal' = IsTemporal /\ IsReplay' = IsReplay
      /\ hw \in {"none", "own", "any"}
  BY FixedSets, ProbingAssumption DEF PlaceInv
<1>2. ~(IsStream /\ IsTemporal) /\ ~(IsStream /\ IsReplay) /\ ~(IsTemporal /\ IsReplay)
  BY DEF IsStream, IsTemporal, IsReplay
<1>3. CASE StreamWorkload
  <2>1. PICK lines \in Fetches(StreamFetch(exp.training[k]), stream_cl_potential_prefetch) :
          fetched' = fetched \union lines
    BY <1>3 DEF StreamWorkload
  <2>2. pc' # "done"
    BY <1>3 DEF StreamWorkload
  <2>3. QED
    BY <1>1, <2>1, <2>2, FetchedSubset DEF ResultInv
<1>4. CASE TemporalTrigger
  <2>1. PICK lines \in Fetches(TemporalFetch(exp.trigger[1]), Trained) :
          fetched' = fetched \union lines
    BY <1>4 DEF TemporalTrigger
  <2>2. pc' # "done"
    BY <1>4 DEF TemporalTrigger
  <2>3. QED
    BY <1>1, <2>1, <2>2, FetchedSubset DEF ResultInv
<1>5. CASE ReplayTrain \/ ReplayTrigger
  <2>1. PICK own : \E lines \in Fetches(own, Candidates2) : fetched' = fetched \union Offsets2(lines)
    BY <1>5 DEF ReplayTrain, ReplayTrigger
  <2>2. PICK lines \in Fetches(own, Candidates2) : fetched' = fetched \union Offsets2(lines)
    BY <2>1
  <2>3. pc' # "done"
    BY <1>5 DEF ReplayTrain, ReplayTrigger, PlaceInv
  <2>4. hw = "none" => lines = {}
    BY <1>1, <2>2, FetchedSubset
  <2>5. QED
    BY <1>1, <2>2, <2>3, <2>4 DEF ResultInv, Offsets2
<1>6. CASE StreamEvaluate \/ TemporalEvaluate \/ ReplayEvaluate
  BY <1>1, <1>2, <1>6 DEF StreamEvaluate, TemporalEvaluate, ReplayEvaluate, memory, ResultInv
<1>7. CASE UNCHANGED fetched /\ (pc' # "done" \/ UNCHANGED vars)
  BY <1>1, <1>7 DEF vars, outcome, ResultInv
<1>8. CASE Flush \/ StreamProbe \/ TemporalTrain \/ TemporalFlush \/ TemporalProbe
           \/ ReplayFlush \/ ReplayProbe \/ Normalize \/ Ended \/ UNCHANGED vars
  BY <1>7, <1>8 DEF Flush, StreamProbe, TemporalTrain, TemporalFlush, TemporalProbe, ReplayFlush,
    ReplayProbe, ProbeAt, Normalize, Ended, vars, memory, PlaceInv
<1>9. QED
  BY <1>3, <1>4, <1>5, <1>6, <1>8 DEF Next, StreamNext, TemporalNext, ReplayNext

ProbingInv == PlaceInv /\ ResultInv /\ ReplaySeenInv /\ EvidenceInv

\* The invariant holds throughout.
LEMMA ProbingInductive == Spec => []ProbingInv
<1>1. Init => ProbingInv
  <2> SUFFICES ASSUME Init PROVE ProbingInv
    OBVIOUS
  <2>1. PlaceInv /\ InitExperiment
    BY InitPlace
  <2>2. pc = "repeat" /\ loop = 0
    BY <2>1 DEF InitExperiment
  <2>3. ReplaySeenInv
    <3>1. ASSUME IsReplay PROVE ReplayInit
      <4>1. ~StreamInit
        BY <3>1, StreamObject DEF StreamInit, IsReplay
      <4>2. ~TemporalInit
        BY <3>1, TemporalObject DEF TemporalInit, IsReplay
      <4>3. QED
        BY <4>1, <4>2 DEF Init
    <3>2. ASSUME IsReplay PROVE Fresh /\ seen.table = {}
      BY <3>1, <3>2 DEF ReplayInit, Fresh
    <3>3. QED
      BY <2>2, <3>2 DEF ReplaySeenInv, AtStart, TableRight
  <2>4. QED
    BY <2>1, <2>3 DEF ProbingInv, InitExperiment, ResultInv, EvidenceInv, CacheInv, HistInv, OnlyPrefetches
<1>2. ProbingInv /\ [Next]_vars => ProbingInv'
  <2> SUFFICES ASSUME ProbingInv, [Next]_vars PROVE ProbingInv'
    OBVIOUS
  <2>1. PlaceInv' /\ ResultInv' /\ (hw' = "none" => fetched' = {})
    BY PlaceStep, ReportStep DEF ProbingInv, EvidenceInv
  <2>2. ReplaySeenInv'
    BY ReplaySeenStep DEF ProbingInv
  <2>3. CacheInv' /\ HistInv' /\ OnlyPrefetches'
    BY CacheStep, HistStep DEF ProbingInv, EvidenceInv
  <2>4. QED
    BY <2>1, <2>2, <2>3 DEF ProbingInv, EvidenceInv
<1>3. QED
  BY <1>1, <1>2, PTL DEF Spec

\* What the stream, the temporal and the replay test report was fetched upon a
\* load of the workload (evaluate_cache_histogram()), not only loaded by it or
\* fetched upon a probe, for all mappings, offsets, loops and thresholds, and
\* whichever candidates the prefetcher fetches.  In the replay test it may have
\* been fetched upon a load of the training, as mapping2 is not flushed then.
THEOREM ProbingReportsOnlyPrefetches == Spec => []OnlyPrefetches
<1>1. ProbingInv => OnlyPrefetches
  BY DEF ProbingInv, EvidenceInv
<1>2. QED
  BY <1>1, ProbingInductive, PTL

\* On a machine without a prefetcher the replay test identifies none
\* (TestCaseDCReplay::identify()), for all loops and thresholds.
THEOREM NoReplayIdentified ==
  Spec => [](hw = "none" => ReplayIdentified)
<1>1. ProbingInv => (hw = "none" => ReplayIdentified)
  BY DEF ProbingInv, EvidenceInv, ResultInv, OnlyPrefetches, ReplayIdentified
<1>2. QED
  BY <1>1, ProbingInductive, PTL

------------------------------------------------------------------------------
(***************************************************************************)
(* What is found.  When the prefetcher is the one that the test is about,  *)
(* or there is none, the lines that show in the histogram are known.       *)
(***************************************************************************)

\* Average() is a quotient of the sum that Arithmetic speaks of.
LEMMA AverageSum ==
  ASSUME NEW lines
  PROVE  Average(lines) = IF lines = {} THEN 0 ELSE SumOver(hist, lines) \div Cardinality(lines)
BY Zenon DEF Average, MapThenSumSet, MapThenFoldSet, SumOver, IsSum, Picked

\* The average of counters between two numbers is between them.
LEMMA AverageOfLines ==
  ASSUME PlaceInv, NEW S \in SUBSET AllLines, S # {}, NEW lo \in Nat, NEW hi \in Nat,
         \A l \in S : hist[l] \in lo..hi
  PROVE  Average(S) \in lo..hi
<1>1. IsFiniteSet(AllLines)
  <2>1. 0 \in Int /\ exp.lines - 1 \in Int
    BY OffsetsAreLines
  <2>2. QED
    BY <2>1, FS_Interval DEF AllLines
<1>2. IsFiniteSet(S)
  BY <1>1, FS_Subset
<1>3. SumOver(hist, S) \div Cardinality(S) \in lo..hi
  BY <1>2, AverageBetween
<1>4. QED
  BY <1>3, AverageSum

\* Counters of lines that were in the cache whenever they were probed.
Shows(count) == count \in Nat /\ 1000 <= count /\ count <= 2000

\* When the accessed lines show, and no line shows that is neither accessed nor a
\* candidate, then the candidates that show are those that are reported.
LEMMA ShownReported ==
  ASSUME PlaceInv, Noise < 1000, Divisor >= 2,
         NEW accessed \in SUBSET AllLines, accessed # {}, NEW candidates \in SUBSET AllLines,
         NEW shown, accessed \subseteq shown, shown \subseteq accessed \union candidates,
         \A l \in AllLines : IF l \in shown THEN Shows(hist[l]) ELSE hist[l] = 0
  PROVE  PrefetchVector(accessed, candidates) = candidates \intersect shown
<1> DEFINE hit == Average(accessed)
           others == AllLines \ (accessed \union candidates)
           miss == Average(others)
           thresh == prefetch_thresh(accessed, candidates)
<1>1. Noise \in Nat /\ Divisor \in Nat \ {0}
  BY ProbingAssumption
<1>2. Shows(hit)
  <2> DEFINE lo == 1000
             hi == 2000
  <2>1. \A l \in accessed : hist[l] \in lo..hi
    BY DEF Shows
  <2>2. lo \in Nat /\ hi \in Nat
    OBVIOUS
  <2> HIDE DEF lo, hi
  <2>3. Average(accessed) \in lo..hi
    BY <2>1, <2>2, AverageOfLines
  <2> HIDE DEF hit
  <2>4. hit \in lo..hi
    BY <2>3 DEF hit
  <2>5. QED
    BY <2>4 DEF Shows, lo, hi
<1>3. miss = 0
  <2>1. CASE others = {}
    BY <2>1, AverageSum
  <2>2. CASE others # {}
    <3>1. \A l \in others : hist[l] \in 0..0
      OBVIOUS
    <3> HIDE DEF others
    <3>2. others \in SUBSET AllLines
      BY DEF others
    <3>3. Average(others) \in 0..0
      BY <2>2, <3>1, <3>2, AverageOfLines
    <3>4. QED
      BY <3>3
  <2>3. QED
    BY <2>1, <2>2
<1> DEFINE part == hit \div Divisor
<1>4. part \in Nat /\ part <= 1000
  <2> HIDE DEF hit
  <2>1. hit \in Nat /\ Divisor * 0 <= hit /\ hit <= Divisor * 1000
    BY <1>1, <1>2 DEF Shows
  <2>2. part \in 0..1000
    BY <1>1, <2>1, DivBetween
  <2>3. QED
    BY <2>2
<1>5. thresh \in Nat /\ thresh <= 1000
  <2>1. thresh = LET t == IF hit >= miss THEN miss + ((hit - miss) \div Divisor) ELSE Huge
                 IN  IF t = 0 THEN 1 ELSE t
    BY DEF prefetch_thresh
  <2> HIDE DEF hit, miss
  <2>2. hit >= miss /\ hit - miss = hit
    BY <1>2, <1>3 DEF Shows
  <2>3. miss + ((hit - miss) \div Divisor) = part
    BY <1>3, <1>4, <2>2
  <2>4. thresh = IF part = 0 THEN 1 ELSE part
    BY <2>1, <2>2, <2>3
  <2> HIDE DEF thresh, part
  <2>5. QED
    BY <1>4, <2>4
<1>6. PrefetchVector(accessed, candidates) = {l \in candidates : hist[l] > Noise /\ hist[l] >= thresh}
  BY DEF PrefetchVector
<1> HIDE DEF thresh
<1>7. ASSUME NEW l \in candidates
      PROVE  (hist[l] > Noise /\ hist[l] >= thresh) <=> l \in shown
  <2>1. CASE l \in shown
    <3> DEFINE count == hist[l]
    <3>1. Shows(count)
      BY <2>1
    <3> HIDE DEF count
    <3>2. count > Noise /\ count >= thresh
      BY <1>1, <1>5, <3>1 DEF Shows
    <3>3. QED
      BY <2>1, <3>2 DEF count
  <2>2. CASE l \notin shown
    <3>1. hist[l] = 0
      BY <2>2
    <3>2. QED
      BY <1>1, <2>2, <3>1
  <2>3. QED
    BY <2>1, <2>2
<1>8. QED
  BY <1>6, <1>7

\* Probes in turn of lines that are in the cache whenever they are probed give
\* counters of 1000 to 2000, the others 0.
LEMMA ScaledTurns ==
  ASSUME PlaceInv, NEW l \in AllLines
  PROVE  /\ Shows((Turns(l, exp.reps, exp.lines) * 1000) \div (exp.reps \div exp.lines))
         /\ (0 * 1000) \div (exp.reps \div exp.lines) = 0
<1>1. PICK L \in Nat \ {0} : exp.lines = L /\ exp.reps = L + 1
  BY AllObjects DEF PlaceInv, IsObject
<1>2. L + 1 \in Nat /\ Rounds(L + 1, L) # 0
  BY <1>1 DEF Rounds
<1>3. l \in 0..(L - 1)
  BY <1>1 DEF AllLines
<1> DEFINE n == L + 1
           s == PerThousand(Turns(l, n, L), Rounds(n, L))
<1>4. s \in Nat /\ 1000 <= s /\ s <= 2000
  <2> HIDE DEF n
  <2>1. n \in Nat /\ Rounds(n, L) # 0
    BY <1>2 DEF n
  <2>2. QED
    BY <1>1, <1>3, <2>1, TurnsScaled
<1>5. s = (Turns(l, exp.reps, exp.lines) * 1000) \div (exp.reps \div exp.lines)
  BY <1>1 DEF PerThousand, Rounds
<1> HIDE DEF s
<1>6. Shows(s)
  BY <1>4 DEF Shows
<1>7. (0 * 1000) \div (exp.reps \div exp.lines) = 0
  BY ScaledCounter
<1>8. QED
  BY <1>5, <1>6, <1>7

------------------------------------------------------------------------------
(***************************************************************************)
(* The stream prefetcher.  It knows how many loads of the page came before *)
(* one of the training, whatever the probing was, except in the repetition *)
(* after the probe of the line before the first load.  In that repetition  *)
(* it may start earlier, but then the line that is probed is a load's own. *)
(***************************************************************************)

\* Lines do not change their order with that of their pages.
LEMMA PageOrder ==
  ASSUME NEW a \in Nat, NEW b \in Nat, a <= b
  PROVE  a \div PageLines <= b \div PageLines
<1>1. PICK P \in Nat \ {0} : PageLines = P
  BY StreamAssumption
<1> DEFINE q == b \div P
<1>2. q \in Nat /\ P * q <= b /\ b <= P * (q + 1) - 1
  BY <1>1
<1>3. a \div P \in Nat /\ P * (a \div P) <= a
  BY <1>1
<1> DEFINE p == a \div P
<1> HIDE DEF p, q
<1>4. p \in Nat /\ P * p <= a
  BY <1>3 DEF p
<1>5. ASSUME p >= q + 1 PROVE FALSE
  <2>1. P * p >= P * (q + 1)
    BY <1>1, <1>2, <1>4, <1>5
  <2>2. P * p \in Nat /\ P * (q + 1) \in Nat
    BY <1>1, <1>2, <1>4
  <2>3. QED
    BY <1>2, <1>4, <2>1, <2>2
<1>6. QED
  BY <1>1, <1>2, <1>4, <1>5 DEF p, q

\* A page that two lines share has all lines between them.
LEMMA PageBetween ==
  ASSUME NEW a \in Nat, NEW b \in Nat, NEW c \in Nat, a <= b, b <= c, SamePage(a, c)
  PROVE  SamePage(a, b) /\ SamePage(b, c)
<1> DEFINE p == a \div PageLines
           q == b \div PageLines
           r == c \div PageLines
<1>1. p <= q /\ q <= r
  BY PageOrder
<1>2. p \in Int /\ q \in Int /\ r \in Int
  BY StreamAssumption
<1>3. p = r
  BY DEF SamePage
<1> HIDE DEF p, q, r
<1>4. p = q /\ q = r
  BY <1>1, <1>2, <1>3
<1>5. QED
  BY <1>4 DEF SamePage, p, q, r

\* The loads of the page of a line that came before it, and the number of them
\* that the prefetcher counts.
LoadsBefore(a) == {b \in First..(a - 1) : SamePage(b, a)}
Known(a) ==
  IF Cardinality(LoadsBefore(a)) < Confirm THEN Cardinality(LoadsBefore(a)) ELSE Confirm

LEMMA LoadsBeforeFinite ==
  ASSUME NEW a \in Nat
  PROVE  IsFiniteSet(LoadsBefore(a)) /\ Cardinality(LoadsBefore(a)) \in Nat
<1>1. First \in Int /\ a - 1 \in Int
  BY StreamAssumption
<1>2. IsFiniteSet(First..(a - 1)) /\ LoadsBefore(a) \in SUBSET (First..(a - 1))
  BY <1>1, FS_Interval DEF LoadsBefore
<1>3. IsFiniteSet(LoadsBefore(a))
  BY <1>2, FS_Subset
<1>4. QED
  BY <1>3, FS_CardinalityType

\* The first load has none before it.
LEMMA FirstKnown == Known(First) = 0
<1>1. LoadsBefore(First) = {}
  BY StreamAssumption DEF LoadsBefore
<1>2. QED
  BY <1>1, FS_EmptySet, StreamAssumption DEF Known

\* One load more of the same page counts one up; the first of a page counts none.
LEMMA NextLoad ==
  ASSUME NEW a \in Nat, First <= a
  PROVE  Cardinality(LoadsBefore(a + 1)) =
           IF SamePage(a + 1, a) THEN Cardinality(LoadsBefore(a)) + 1 ELSE 0
<1>1. First \in Nat
  BY StreamAssumption
<1>2. CASE SamePage(a + 1, a)
  <2>1. LoadsBefore(a + 1) = LoadsBefore(a) \union {a}
    <3>1. ASSUME NEW b \in Nat PROVE SamePage(b, a + 1) <=> SamePage(b, a)
      BY <1>2 DEF SamePage
    <3>2. SamePage(a, a)
      BY DEF SamePage
    <3>3. QED
      BY <1>1, <3>1, <3>2 DEF LoadsBefore
  <2>2. a \notin LoadsBefore(a)
    BY DEF LoadsBefore
  <2>3. Cardinality(LoadsBefore(a) \union {a}) = Cardinality(LoadsBefore(a)) + 1
    BY <2>2, LoadsBeforeFinite, FS_AddElement
  <2>4. QED
    BY <1>2, <2>1, <2>3
<1>3. CASE ~SamePage(a + 1, a)
  <2>1. ASSUME NEW b \in LoadsBefore(a + 1) PROVE FALSE
    <3>1. b \in Nat /\ b <= a /\ SamePage(b, a + 1)
      BY <1>1 DEF LoadsBefore
    <3>2. SamePage(a, a + 1)
      BY <3>1, PageBetween
    <3>3. QED
      BY <1>3, <3>2 DEF SamePage
  <2>2. LoadsBefore(a + 1) = {}
    BY <2>1
  <2>3. QED
    BY <1>3, <2>2, FS_EmptySet
<1>4. QED
  BY <1>2, <1>3

\* The last load, and whether it confirms a stream.
LastLoad == Last(exp.training)
Enough == LastPageLoads > Confirm

\* The form of the training.
LEMMA StreamShape ==
  ASSUME PlaceInv, IsStream
  PROVE  /\ First \in Nat /\ Len(exp.training) \in Nat /\ Len(exp.training) >= 2
         /\ \A j \in 1..Len(exp.training) : exp.training[j] = First + j - 1
         /\ LastLoad = First + Len(exp.training) - 1 /\ LastLoad \in Nat
         /\ Trained = First..LastLoad /\ LastLoad < exp.lines /\ exp.lines = StreamLines
         /\ StreamLines \in Nat \ {0} /\ Confirm \in Nat \ {0} /\ Degree \in Nat
         /\ Head(exp.training) = First
<1>1. /\ IsObject(exp) /\ exp.lines = StreamLines
      /\ \A i \in 1..Len(exp.training) : exp.training[i] = First + i - 1
      /\ Len(exp.training) >= 2 /\ First + Len(exp.training) <= exp.lines
  BY AllObjects, StreamObject DEF PlaceInv, IsStream
<1>2. /\ First \in Nat /\ StreamLines \in Nat \ {0} /\ Confirm \in Nat \ {0} /\ Degree \in Nat
  BY StreamAssumption
<1>3. Len(exp.training) \in Nat /\ DOMAIN exp.training = 1..Len(exp.training)
  BY <1>1 DEF IsObject
<1>4. LastLoad = First + Len(exp.training) - 1
  BY <1>1, <1>3 DEF LastLoad, Last
<1>5. Head(exp.training) = First
  <2>1. exp.training[1] = First
    BY <1>1, <1>2, <1>3
  <2>2. QED
    BY <1>1, <2>1 DEF IsObject
<1>6. Trained = First..LastLoad
  <2>1. ASSUME NEW l \in First..LastLoad PROVE l \in Trained
    <3> DEFINE j == l - First + 1
    <3>1. j \in 1..Len(exp.training) /\ First + j - 1 = l
      BY <1>2, <1>3, <1>4
    <3>2. exp.training[j] = First + j - 1
      BY <1>1, <3>1
    <3>3. QED
      BY <1>3, <3>1, <3>2 DEF Trained, ToSet
  <2>2. ASSUME NEW l \in Trained PROVE l \in First..LastLoad
    <3>1. PICK j \in 1..Len(exp.training) : l = exp.training[j]
      BY <1>3 DEF Trained, ToSet
    <3>2. QED
      BY <1>1, <1>2, <1>3, <1>4, <3>1
  <2>3. QED
    BY <2>1, <2>2
<1>7. QED
  BY <1>1, <1>2, <1>3, <1>4, <1>5, <1>6

\* How many loads the page of the last one has.
LEMMA LastPage ==
  ASSUME PlaceInv, IsStream
  PROVE  LastPageLoads = Cardinality(LoadsBefore(LastLoad)) + 1
<1>1. First \in Nat /\ LastLoad \in Nat /\ Trained = First..LastLoad /\ First <= LastLoad
  BY StreamShape
<1>2. {l \in Trained : SamePage(l, LastLoad)} = LoadsBefore(LastLoad) \union {LastLoad}
  <2>1. SamePage(LastLoad, LastLoad)
    BY DEF SamePage
  <2>2. QED
    BY <1>1, <2>1 DEF LoadsBefore
<1>3. LastLoad \notin LoadsBefore(LastLoad)
  BY <1>1 DEF LoadsBefore
<1>4. QED
  BY <1>1, <1>2, <1>3, LoadsBeforeFinite, FS_AddElement DEF LastPageLoads, LastLoad

\* What the prefetcher knows of the loads.
StreamSeenInv ==
  /\ IsStream /\ (pc = "repeat" \/ (pc = "train" /\ k = 1)) =>
       seen.last = IF rep = 0 THEN StreamLines ELSE rep - 1
  /\ IsStream /\ pc = "train" /\ k > 1 =>
       /\ seen.last = First + k - 2
       /\ rep # First => seen.run = Known(First + k - 2)

\* What it knows after the load that comes next.
LEMMA StreamLoadSeen ==
  ASSUME PlaceInv, StreamSeenInv, IsStream, pc = "train", NEW a, a = exp.training[k]
  PROVE  /\ a = First + k - 1 /\ a \in Nat /\ First <= a /\ a <= LastLoad
         /\ a \in Trained
         /\ rep # First => StreamSeen(a).run = Known(a)
<1>1. /\ First \in Nat /\ k \in 1..Len(exp.training) /\ Len(exp.training) \in Nat
      /\ LastLoad = First + Len(exp.training) - 1 /\ Trained = First..LastLoad
      /\ LastLoad < StreamLines /\ StreamLines \in Nat /\ Confirm \in Nat
  BY StreamShape DEF PlaceInv
<1>2. a = First + k - 1 /\ a \in Nat /\ First <= a /\ a <= LastLoad
  BY <1>1, StreamShape
<1>3. ASSUME rep # First PROVE StreamSeen(a).run = Known(a)
  <2>1. CASE k = 1
    <3>1. a = First /\ seen.last = IF rep = 0 THEN StreamLines ELSE rep - 1
      BY <1>1, <1>2, <2>1 DEF StreamSeenInv
    <3>2. rep \in Nat
      BY OffsetsAreLines
    <3>3. a # seen.last + 1
      BY <1>1, <1>2, <1>3, <3>1, <3>2
    <3>4. StreamSeen(a).run = 0
      BY <3>3 DEF StreamSeen
    <3>5. QED
      BY <3>1, <3>4, FirstKnown
  <2>2. CASE k > 1
    <3> DEFINE b == First + k - 2
               n == Cardinality(LoadsBefore(b))
    <3>1. b \in Nat /\ First <= b /\ a = b + 1
      BY <1>1, <1>2, <2>2
    <3>2. seen.last = b /\ seen.run = Known(b)
      BY <1>3, <2>2 DEF StreamSeenInv
    <3> HIDE DEF b
    <3>3. n \in Nat
      BY <3>1, LoadsBeforeFinite
    <3>4. Cardinality(LoadsBefore(a)) = IF SamePage(a, b) THEN n + 1 ELSE 0
      BY <3>1, NextLoad
    <3>5. StreamSeen(a).run = IF SamePage(a, b)
                              THEN IF Known(b) < Confirm THEN Known(b) + 1 ELSE Confirm ELSE 0
      BY <3>1, <3>2 DEF StreamSeen
    <3> HIDE DEF n
    <3>6. Known(b) = IF n < Confirm THEN n ELSE Confirm
      BY DEF Known, n
    <3>7. Confirm \in Nat \ {0}
      BY StreamAssumption
    <3>8. Known(a) = IF SamePage(a, b) THEN (IF n + 1 < Confirm THEN n + 1 ELSE Confirm) ELSE 0
      BY <3>4, <3>7 DEF Known
    <3>9. QED
      BY <3>3, <3>5, <3>6, <3>7, <3>8
  <2>3. QED
    BY <1>1, <2>1, <2>2
<1>4. QED
  BY <1>1, <1>2, <1>3

\* It fetches lines that are loaded anyway or lie ahead of the last load, the
\* latter if and only if the page of the last load has enough of them.
LEMMA StreamLoadFetch ==
  ASSUME PlaceInv, StreamSeenInv, IsStream, pc = "train"
  PROVE  /\ StreamFetch(exp.training[k]) \subseteq Trained \union Ahead
         /\ rep # First /\ ~Enough => StreamFetch(exp.training[k]) \subseteq Trained
         /\ rep # First /\ Enough /\ k = Len(exp.training) =>
              Ahead \subseteq StreamFetch(exp.training[k])
<1> DEFINE a == exp.training[k]
<1>1. /\ a \in Nat /\ First <= a /\ a <= LastLoad /\ a = First + k - 1
      /\ rep # First => StreamSeen(a).run = Known(a)
  BY StreamLoadSeen
<1>2. /\ First \in Nat /\ LastLoad \in Nat /\ Trained = First..LastLoad /\ Degree \in Nat
      /\ Confirm \in Nat \ {0} /\ LastLoad = First + Len(exp.training) - 1
  BY StreamShape
<1>3. Ahead = {l \in AllLines : l > LastLoad /\ l <= LastLoad + Degree /\ SamePage(l, LastLoad)}
  BY DEF Ahead, LastLoad
<1>4. StreamFetch(a) = {l \in AllLines : a < l /\ l <= a + Degree /\ SamePage(l, a)
                                         /\ StreamSeen(a).run = Confirm}
  BY DEF StreamFetch
<1> HIDE DEF a
<1>5. AllLines \subseteq Nat
  BY DEF AllLines
<1>6. ASSUME NEW l \in StreamFetch(a), l \notin Trained
      PROVE  l \in Ahead /\ SamePage(a, LastLoad)
  <2>1. l \in AllLines /\ l \in Nat /\ a < l /\ l <= a + Degree /\ SamePage(a, l)
    BY <1>4, <1>5, <1>6 DEF SamePage
  <2>2. l > LastLoad
    BY <1>1, <1>2, <1>6, <2>1
  <2>3. SamePage(a, LastLoad) /\ SamePage(LastLoad, l)
    BY <1>1, <1>2, <2>1, <2>2, PageBetween
  <2>4. l <= LastLoad + Degree
    BY <1>1, <1>2, <2>1
  <2>5. QED
    BY <1>3, <2>1, <2>2, <2>3, <2>4 DEF SamePage
<1> DEFINE n == Cardinality(LoadsBefore(LastLoad))
<1>7. n \in Nat /\ (Enough <=> n + 1 > Confirm)
  BY <1>2, LoadsBeforeFinite, LastPage DEF Enough
<1>8. ASSUME rep # First, ~Enough, SamePage(a, LastLoad) PROVE StreamSeen(a).run # Confirm
  <2>1. LoadsBefore(a) \in SUBSET LoadsBefore(LastLoad)
    BY <1>1, <1>2, <1>8 DEF LoadsBefore, SamePage
  <2>2. Cardinality(LoadsBefore(a)) <= n /\ Cardinality(LoadsBefore(a)) \in Nat
    BY <1>1, <1>2, <2>1, LoadsBeforeFinite, FS_Subset
  <2>3. Cardinality(LoadsBefore(a)) < Confirm
    BY <1>2, <1>7, <1>8, <2>2
  <2>4. QED
    BY <1>1, <1>2, <1>8, <2>2, <2>3 DEF Known
<1>9. ASSUME rep # First, Enough, k = Len(exp.training) PROVE Ahead \subseteq StreamFetch(a)
  <2>1. a = LastLoad
    BY <1>1, <1>2, <1>9
  <2>2. StreamSeen(a).run = Confirm
    BY <1>1, <1>2, <1>7, <1>9, <2>1 DEF Known
  <2>3. QED
    BY <1>3, <1>4, <2>1, <2>2
<1>10. rep # First /\ ~Enough => StreamFetch(a) \subseteq Trained
  BY <1>4, <1>6, <1>8
<1>11. StreamFetch(a) \subseteq Trained \union Ahead
  BY <1>6
<1>12. QED
  BY <1>9, <1>10, <1>11 DEF a

\* The steps keep what the prefetcher knows.
LEMMA StreamSeenStep ==
  ASSUME PlaceInv, StreamSeenInv, [Next]_vars
  PROVE  StreamSeenInv'
<1>1. IsStream' = IsStream /\ exp' = exp
  BY FixedSets
<1>2. SUFFICES ASSUME IsStream PROVE StreamSeenInv'
  BY <1>1 DEF StreamSeenInv
<1>3. ~IsTemporal /\ ~IsReplay
  BY <1>2 DEF IsStream, IsTemporal, IsReplay
<1>4. CASE Flush \/ UNCHANGED vars
  <2>1. CASE Flush
    <3>1. pc = "repeat" /\ pc' = "train" /\ k' = 1 /\ seen' = seen /\ rep' = rep
      BY <2>1 DEF Flush
    <3>2. seen.last = IF rep = 0 THEN StreamLines ELSE rep - 1
      BY <1>2, <3>1 DEF StreamSeenInv
    <3>3. seen'.last = IF rep' = 0 THEN StreamLines ELSE rep' - 1
      BY <3>1, <3>2
    <3>4. ~(k' > 1)
      BY <3>1
    <3>5. QED
      BY <3>3, <3>4 DEF StreamSeenInv
  <2>2. CASE UNCHANGED vars
    <3>1. pc' = pc /\ k' = k /\ seen' = seen /\ rep' = rep
      BY <2>2 DEF vars, memory
    <3>2. Known(First + k - 2)' = Known(First + k - 2)
      BY <3>1 DEF Known, LoadsBefore, SamePage
    <3>3. QED
      BY <1>1, <3>1, <3>2 DEF StreamSeenInv
  <2>3. QED
    BY <1>4, <2>1, <2>2
<1>5. CASE StreamWorkload
  <2> DEFINE a == exp.training[k]
  <2>1. /\ pc = "train" /\ seen' = StreamSeen(a) /\ rep' = rep
        /\ IF k = Len(exp.training) THEN pc' = "probe" /\ k' = k ELSE k' = k + 1 /\ pc' = "train"
    BY <1>5 DEF StreamWorkload, Load
  <2>2. a = First + k - 1 /\ (rep # First => StreamSeen(a).run = Known(a)) /\ StreamSeen(a).last = a
    BY <1>2, <2>1, StreamLoadSeen DEF StreamSeen
  <2>3. CASE k = Len(exp.training)
    BY <2>1, <2>3 DEF StreamSeenInv
  <2>4. CASE k # Len(exp.training)
    <3>1. k' = k + 1 /\ pc' = "train" /\ k \in Nat /\ k >= 1 /\ First \in Nat
      BY <2>1, <2>4, StreamAssumption DEF PlaceInv
    <3>2. First + k' - 2 = a /\ k' > 1 /\ k' # 1
      BY <2>2, <3>1
    <3> HIDE DEF a
    <3>3. seen'.last = First + k' - 2 /\ (rep' # First => seen'.run = Known(First + k' - 2))
      BY <2>1, <2>2, <3>2
    <3>4. QED
      BY <3>1, <3>2, <3>3 DEF StreamSeenInv, Known, LoadsBefore, SamePage
  <2>5. QED
    BY <2>3, <2>4
<1>6. CASE StreamProbe
  <2>1. /\ seen'.last = probe_idx /\ rep' = rep + 1
        /\ pc' = IF rep + 1 = exp.reps THEN "normalize" ELSE "repeat"
    BY <1>6 DEF StreamProbe, ProbeAt, StreamSeen
  <2>2. CASE pc' = "repeat"
    <3>1. rep \in Nat /\ exp.lines \in Nat \ {0} /\ exp.reps = exp.lines + 1 /\ rep < exp.reps
      BY <1>6, OffsetsAreLines, AllObjects DEF PlaceInv, IsObject, StreamProbe, ProbeAt
    <3>2. rep < exp.lines
      BY <2>1, <2>2, <3>1
    <3>3. (exp.lines * 0 + rep) % exp.lines = rep
      BY <3>1, <3>2, DivUnique
    <3>4. probe_idx = rep
      BY <3>1, <3>3 DEF probe_idx
    <3>5. QED
      BY <2>1, <2>2, <3>1, <3>4 DEF StreamSeenInv
  <2>3. QED
    BY <2>1, <2>2 DEF StreamSeenInv
<1>7. CASE Normalize \/ StreamEvaluate
  BY <1>7 DEF Normalize, StreamEvaluate, StreamSeenInv
<1>8. QED
  BY <1>3, <1>4, <1>5, <1>6, <1>7
  DEF Next, Ended, StreamNext, TemporalNext, ReplayNext, TemporalTrain, TemporalFlush,
      TemporalTrigger, TemporalProbe, TemporalEvaluate, ReplayTrain, ReplayFlush, ReplayTrigger,
      ReplayProbe, ReplayEvaluate

\* What the loads and the prefetcher bring into the cache: the lines that are
\* loaded, and those ahead of them if the stream is confirmed.
StreamLinesInv ==
  IsStream /\ hw # "any" =>
    /\ pc \in {"train", "probe"} =>
         /\ cache \subseteq Trained \union Ahead
         /\ hw = "none" \/ (~Enough /\ rep # First) => cache \subseteq Trained
    /\ pc = "train" => \A j \in 1..(k - 1) : exp.training[j] \in cache
    /\ pc = "probe" =>
         /\ Trained \subseteq cache
         /\ hw = "own" /\ Enough /\ rep # First => Ahead \subseteq cache

StreamShown == Trained \union (IF hw = "own" /\ Enough THEN Ahead ELSE {})

\* What depends on the training alone does not change.
LEMMA FixedAhead ==
  ASSUME [Next]_vars
  PROVE  Ahead' = Ahead /\ Enough' = Enough /\ StreamShown' = StreamShown
<1>1. /\ exp' = exp /\ hw' = hw /\ AllLines' = AllLines /\ Trained' = Trained
  BY FixedSets
<1>2. Ahead' = Ahead
  BY <1>1 DEF Ahead, SamePage
<1>3. Enough' = Enough
  BY <1>1 DEF Enough, LastPageLoads, SamePage
<1>4. QED
  BY <1>1, <1>2, <1>3 DEF StreamShown

LEMMA StreamLinesStep ==
  ASSUME PlaceInv, StreamSeenInv, StreamLinesInv, [Next]_vars
  PROVE  StreamLinesInv'
<1>1. /\ IsStream' = IsStream /\ exp' = exp /\ hw' = hw /\ Trained' = Trained
      /\ Ahead' = Ahead /\ Enough' = Enough /\ hw \in {"none", "own", "any"}
  BY FixedSets, FixedAhead, ProbingAssumption DEF PlaceInv
<1>2. SUFFICES ASSUME IsStream, hw # "any" PROVE StreamLinesInv'
  BY <1>1 DEF StreamLinesInv
<1>3. ~IsTemporal /\ ~IsReplay
  BY <1>2 DEF IsStream, IsTemporal, IsReplay
<1>4. CASE Flush
  <2>1. pc' = "train" /\ k' = 1 /\ cache' = {}
    BY <1>4 DEF Flush
  <2>2. 1..(k' - 1) = {}
    BY <2>1
  <2>3. QED
    BY <1>1, <2>1, <2>2 DEF StreamLinesInv
<1>5. CASE UNCHANGED vars
  BY <1>1, <1>5 DEF vars, memory, StreamLinesInv
<1>6. CASE StreamWorkload
  <2> DEFINE a == exp.training[k]
             n == Len(exp.training)
  <2>1. PICK lines \in Fetches(StreamFetch(a), stream_cl_potential_prefetch) :
          cache' = cache \union {a} \union lines
    BY <1>6 DEF StreamWorkload, Load
  <2>2. /\ pc = "train" /\ rep' = rep /\ k \in 1..n /\ n \in Nat
        /\ IF k = n THEN pc' = "probe" /\ k' = k ELSE k' = k + 1 /\ pc' = "train"
    BY <1>2, <1>6, StreamShape DEF StreamWorkload, PlaceInv
  <2>3. /\ hw = "none" => lines = {}
        /\ hw = "own" => lines = StreamFetch(a)
    BY <1>1, <2>1, FetchedSubset
  <2>4. a \in Trained
    BY <1>2, <2>2, StreamLoadSeen
  <2>5. /\ StreamFetch(a) \subseteq Trained \union Ahead
        /\ rep # First /\ ~Enough => StreamFetch(a) \subseteq Trained
        /\ rep # First /\ Enough /\ k = n => Ahead \subseteq StreamFetch(a)
    BY <1>2, <2>2, StreamLoadFetch
  <2>6. \A j \in 1..k : exp.training[j] \in cache'
    <3>1. \A j \in 1..(k - 1) : exp.training[j] \in cache
      BY <1>2, <2>2 DEF StreamLinesInv
    <3>2. \A j \in 1..k : j \in 1..(k - 1) \/ j = k
      BY <2>2
    <3>3. QED
      BY <2>1, <3>1, <3>2
  <2> DEFINE f == StreamFetch(a)
  <2> HIDE DEF a, f
  <2>7. /\ cache' \subseteq Trained \union Ahead
        /\ hw = "none" \/ (~Enough /\ rep # First) => cache' \subseteq Trained
    <3>1. /\ cache \subseteq Trained \union Ahead
          /\ hw = "none" \/ (~Enough /\ rep # First) => cache \subseteq Trained
      BY <1>2, <2>2 DEF StreamLinesInv
    <3>2. lines \subseteq Trained \union Ahead
      BY <1>1, <1>2, <2>3, <2>5
    <3>3. hw = "none" \/ (~Enough /\ rep # First) => lines \subseteq Trained
      BY <1>1, <1>2, <2>3, <2>5
    <3>4. QED
      BY <2>1, <2>4, <3>1, <3>2, <3>3
  <2>8. CASE k = n
    <3>1. Trained \subseteq cache'
      <4>1. DOMAIN exp.training = 1..n
        BY AllObjects DEF PlaceInv, IsObject
      <4>2. QED
        BY <2>6, <2>8, <4>1 DEF Trained, ToSet
    <3>2. hw = "own" /\ Enough /\ rep # First => Ahead \subseteq cache'
      BY <2>1, <2>3, <2>5, <2>8
    <3>3. pc' = "probe"
      BY <2>2, <2>8
    <3>4. QED
      BY <1>1, <2>2, <2>7, <3>1, <3>2, <3>3 DEF StreamLinesInv
  <2>9. CASE k # n
    <3>1. k' = k + 1 /\ pc' = "train"
      BY <2>2, <2>9
    <3>2. 1..(k' - 1) = 1..k
      BY <2>2, <3>1
    <3>3. QED
      BY <1>1, <2>2, <2>6, <2>7, <3>1, <3>2 DEF StreamLinesInv
  <2>10. QED
    BY <2>8, <2>9
<1>7. CASE StreamProbe \/ Normalize \/ StreamEvaluate
  BY <1>7 DEF StreamProbe, ProbeAt, Normalize, StreamEvaluate, StreamLinesInv
<1>8. QED
  BY <1>3, <1>4, <1>5, <1>6, <1>7
  DEF Next, Ended, StreamNext, TemporalNext, ReplayNext, TemporalTrain, TemporalFlush,
      TemporalTrigger, TemporalProbe, TemporalEvaluate, ReplayTrain, ReplayFlush, ReplayTrigger,
      ReplayProbe, ReplayEvaluate

\* The line that is probed is in the cache if and only if it is one that shows.
LEMMA StreamProbed ==
  ASSUME PlaceInv, StreamLinesInv, IsStream, hw # "any", pc = "probe"
  PROVE  probe_idx \in cache <=> probe_idx \in StreamShown
<1>1. hw \in {"none", "own"}
  BY ProbingAssumption DEF PlaceInv
<1>2. CASE rep = First
  <2>1. /\ First \in Nat /\ LastLoad \in Nat /\ First <= LastLoad /\ LastLoad < exp.lines
        /\ Trained = First..LastLoad /\ exp.lines \in Nat \ {0}
    BY StreamShape, OffsetsAreLines
  <2>2. (exp.lines * 0 + First) % exp.lines = First
    BY <2>1, DivUnique
  <2>3. probe_idx = First
    BY <1>2, <2>1, <2>2 DEF probe_idx
  <2>4. probe_idx \in Trained
    BY <2>1, <2>3
  <2>5. QED
    BY <2>4 DEF StreamLinesInv, StreamShown
<1>3. CASE rep # First
  BY <1>1, <1>3 DEF StreamLinesInv, StreamShown
<1>4. QED
  BY <1>2, <1>3

------------------------------------------------------------------------------
(***************************************************************************)
(* The temporal prefetcher.  During a training it knows the line after the *)
(* last load of the trigger so far; whatever it knew before is overwritten *)
(* in each training, since the trigger is the first line of it.            *)
(***************************************************************************)
TheTrigger == exp.trigger[1]

\* Among the first n loads of a training the last one of the trigger is in place i.
LastTrigger(i, n) ==
  /\ i \in 1..n /\ exp.training[i] = TheTrigger
  /\ \A j \in (i + 1)..n : exp.training[j] # TheTrigger

\* The line that came after the last load of the trigger among the first n loads.
Follows(line, n) == \E i \in 1..n : LastTrigger(i, n) /\ line = exp.training[i + 1]

TableInv ==
  IsTemporal =>
    /\ seen.last \in 0..exp.lines /\ seen.next \in [AllLines -> 0..exp.lines]
    /\ pc = "train" /\ k > 1 => seen.last = exp.training[k - 1]
    /\ pc = "train" /\ k > 2 => Follows(seen.next[TheTrigger], k - 2)
    /\ pc \in {"flush", "trigger"} =>
         /\ seen.last = exp.training[NumAddr]
         /\ Follows(seen.next[TheTrigger], NumAddr - 1)

\* What the training is.
LEMMA TemporalShape ==
  ASSUME PlaceInv, IsTemporal
  PROVE  /\ NumAddr \in Nat /\ NumAddr >= 2 /\ Len(exp.training) = NumAddr
         /\ \A j \in 1..NumAddr : exp.training[j] \in AllLines
         /\ TheTrigger = exp.training[1] /\ Triggers = {TheTrigger}
         /\ exp.lines \in Nat \ {0} /\ exp.lines = TemporalLines /\ AllLines = 0..(exp.lines - 1)
<1>1. /\ IsObject(exp) /\ exp.lines = TemporalLines /\ Len(exp.training) = NumAddr /\ NumAddr >= 2
      /\ exp.trigger = <<exp.training[1]>>
  BY AllObjects, TemporalObject DEF PlaceInv, IsTemporal
<1>2. NumAddr \in Nat
  BY TemporalAssumption
<1>3. \A j \in 1..NumAddr : exp.training[j] \in AllLines
  BY <1>1, OffsetsAreLines
<1>4. TheTrigger = exp.training[1] /\ Triggers = {TheTrigger}
  BY <1>1 DEF TheTrigger, Triggers, ToSet
<1>5. QED
  BY <1>1, <1>2, <1>3, <1>4 DEF IsObject, AllLines

\* What the prefetcher knows after a load of the training.
LEMMA TemporalLoaded ==
  ASSUME PlaceInv, TableInv, IsTemporal, pc = "train", NEW s, s = TemporalSeen(exp.training[k])
  PROVE  /\ s.last \in 0..exp.lines /\ s.next \in [AllLines -> 0..exp.lines]
         /\ s.last = exp.training[k]
         /\ k > 1 => Follows(s.next[TheTrigger], k - 1)
<1>1. /\ NumAddr \in Nat /\ NumAddr >= 2 /\ k \in 1..NumAddr
      /\ \A j \in 1..NumAddr : exp.training[j] \in AllLines
      /\ TheTrigger = exp.training[1] /\ exp.lines \in Nat \ {0} /\ AllLines = 0..(exp.lines - 1)
      /\ exp.lines = TemporalLines
  BY TemporalShape DEF PlaceInv
<1>2. seen.last \in 0..exp.lines /\ seen.next \in [AllLines -> 0..exp.lines]
  BY DEF TableInv
<1>3. /\ s.last = exp.training[k]
      /\ s.next = IF seen.last = TemporalLines THEN seen.next
                  ELSE [seen.next EXCEPT ![seen.last] = exp.training[k]]
  BY DEF TemporalSeen
<1>4. exp.training[k] \in AllLines /\ exp.training[k] \in 0..exp.lines
  BY <1>1
<1>5. s.next \in [AllLines -> 0..exp.lines]
  BY <1>1, <1>2, <1>3, <1>4
<1>6. ASSUME k > 1 PROVE Follows(s.next[TheTrigger], k - 1)
  <2>1. seen.last = exp.training[k - 1] /\ seen.last \in AllLines /\ k - 1 \in 1..NumAddr
    BY <1>1, <1>6 DEF TableInv
  <2>2. s.next = [seen.next EXCEPT ![seen.last] = exp.training[k]]
    BY <1>1, <1>3, <2>1
  <2>3. TheTrigger \in AllLines
    BY <1>1
  <2>4. CASE exp.training[k - 1] = TheTrigger
    <3>1. s.next[TheTrigger] = exp.training[k]
      BY <1>2, <2>1, <2>2, <2>3, <2>4
    <3> DEFINE i == k - 1
    <3>2. i \in 1..(k - 1) /\ i + 1 = k /\ (i + 1)..(k - 1) = {}
      BY <1>1, <1>6
    <3>3. LastTrigger(i, k - 1)
      BY <2>4, <3>2 DEF LastTrigger
    <3>4. QED
      BY <3>1, <3>2, <3>3 DEF Follows
  <2>5. CASE exp.training[k - 1] # TheTrigger
    <3>1. k > 2
      BY <1>1, <1>6, <2>5
    <3>2. PICK i \in 1..(k - 2) :
            LastTrigger(i, k - 2) /\ seen.next[TheTrigger] = exp.training[i + 1]
      BY <3>1 DEF TableInv, Follows
    <3>3. s.next[TheTrigger] = exp.training[i + 1]
      BY <1>2, <2>1, <2>2, <2>3, <2>5, <3>2
    <3>4. \A j \in (i + 1)..(k - 1) : exp.training[j] # TheTrigger
      <4>1. \A j \in (i + 1)..(k - 1) : j \in (i + 1)..(k - 2) \/ j = k - 1
        BY <1>1, <3>2
      <4>2. QED
        BY <2>5, <3>2, <4>1 DEF LastTrigger
    <3>5. i \in 1..(k - 1)
      BY <1>1
    <3>6. LastTrigger(i, k - 1)
      BY <3>2, <3>4, <3>5 DEF LastTrigger
    <3>7. QED
      BY <3>3, <3>5, <3>6 DEF Follows
  <2>6. QED
    BY <2>4, <2>5
<1>7. QED
  BY <1>1, <1>3, <1>4, <1>5, <1>6

\* A table stays one with every access.
LEMMA TemporalAccessed ==
  ASSUME PlaceInv, TableInv, IsTemporal, NEW a \in AllLines
  PROVE  /\ TemporalSeen(a).last \in 0..exp.lines
         /\ TemporalSeen(a).next \in [AllLines -> 0..exp.lines]
<1>1. /\ exp.lines \in Nat \ {0} /\ AllLines = 0..(exp.lines - 1) /\ exp.lines = TemporalLines
  BY TemporalShape
<1>2. seen.last \in 0..exp.lines /\ seen.next \in [AllLines -> 0..exp.lines]
  BY DEF TableInv
<1>3. a \in 0..exp.lines
  BY <1>1
<1>4. QED
  BY <1>1, <1>2, <1>3 DEF TemporalSeen

\* The steps keep what the prefetcher knows.
LEMMA TableStep ==
  ASSUME PlaceInv, TableInv, [Next]_vars
  PROVE  TableInv'
<1>1. /\ IsTemporal' = IsTemporal /\ exp' = exp /\ AllLines' = AllLines
      /\ TheTrigger' = TheTrigger
  BY FixedSets DEF TheTrigger
<1>2. SUFFICES ASSUME IsTemporal PROVE TableInv'
  BY <1>1 DEF TableInv
<1>3. ~IsStream /\ ~IsReplay
  BY <1>2 DEF IsStream, IsTemporal, IsReplay
<1>4. /\ NumAddr \in Nat /\ NumAddr >= 2 /\ Len(exp.training) = NumAddr
      /\ TheTrigger \in AllLines
  BY <1>2, TemporalShape
<1>5. CASE UNCHANGED vars
  <2>1. seen' = seen /\ pc' = pc /\ k' = k
    BY <1>5 DEF vars, memory
  <2>2. Follows(seen.next[TheTrigger], k - 2)' <=> Follows(seen.next[TheTrigger], k - 2)
    BY <1>1, <2>1 DEF Follows, LastTrigger
  <2>3. Follows(seen.next[TheTrigger], NumAddr - 1)' <=> Follows(seen.next[TheTrigger], NumAddr - 1)
    BY <1>1, <2>1 DEF Follows, LastTrigger
  <2>4. QED
    BY <1>1, <2>1, <2>2, <2>3 DEF TableInv
<1>6. CASE Flush
  BY <1>1, <1>2, <1>6 DEF Flush, TableInv
<1>7. CASE TemporalTrain
  <2> DEFINE s == TemporalSeen(exp.training[k])
  <2>1. /\ pc = "train" /\ seen' = s /\ k \in 1..NumAddr
        /\ IF k = NumAddr THEN pc' = "flush" /\ k' = 1 ELSE k' = k + 1 /\ pc' = "train"
    BY <1>4, <1>7 DEF TemporalTrain, Load, PlaceInv
  <2>2. /\ s.last \in 0..exp.lines /\ s.next \in [AllLines -> 0..exp.lines]
        /\ s.last = exp.training[k]
        /\ k > 1 => Follows(s.next[TheTrigger], k - 1)
    BY <1>2, <2>1, TemporalLoaded
  <2> HIDE DEF s
  <2>3. ASSUME k > 1 PROVE Follows(seen'.next[TheTrigger'], k - 1)
    BY <1>1, <2>1, <2>2, <2>3
  <2>4. CASE k = NumAddr
    <3>1. Follows(seen'.next[TheTrigger'], NumAddr - 1)
      BY <1>4, <2>3, <2>4
    <3>2. Follows(seen.next[TheTrigger], NumAddr - 1)'
      BY <1>1, <3>1 DEF Follows, LastTrigger
    <3>3. QED
      BY <1>1, <2>1, <2>2, <2>4, <3>2 DEF TableInv
  <2>5. CASE k # NumAddr
    <3>1. k' = k + 1 /\ pc' = "train" /\ k' - 1 = k /\ k' - 2 = k - 1 /\ (k' > 2 => k > 1)
      BY <1>4, <2>1, <2>5
    <3>2. ASSUME k' > 2 PROVE Follows(seen'.next[TheTrigger'], k' - 2)
      BY <2>3, <3>1, <3>2
    <3>3. k' > 2 => Follows(seen.next[TheTrigger], k - 2)'
      BY <1>1, <3>2 DEF Follows, LastTrigger
    <3>4. QED
      BY <1>1, <2>1, <2>2, <3>1, <3>3 DEF TableInv
  <2>6. QED
    BY <2>4, <2>5
<1>8. CASE TemporalFlush
  <2>1. pc = "flush" /\ pc' \in {"trigger", "train"} /\ seen' = seen /\ k' = 1
    BY <1>8 DEF TemporalFlush, PlaceInv
  <2>2. Follows(seen.next[TheTrigger], NumAddr - 1)'
    BY <1>1, <1>2, <2>1 DEF TableInv, Follows, LastTrigger
  <2>3. QED
    BY <1>1, <1>2, <2>1, <2>2 DEF TableInv
<1>9. CASE TemporalTrigger \/ TemporalProbe
  <2>1. PICK a \in AllLines : seen' = TemporalSeen(a)
    <3>1. probe_idx \in AllLines /\ exp.trigger[1] = TheTrigger
      BY OffsetsAreLines DEF TheTrigger
    <3>2. QED
      BY <1>4, <1>9, <3>1 DEF TemporalTrigger, TemporalProbe, ProbeAt, Load
  <2>2. pc' \in {"probe", "normalize", "repeat"}
    BY <1>9 DEF TemporalTrigger, TemporalProbe, ProbeAt
  <2>3. /\ TemporalSeen(a).last \in 0..exp.lines
        /\ TemporalSeen(a).next \in [AllLines -> 0..exp.lines]
    BY <1>2, TemporalAccessed
  <2>4. QED
    BY <1>1, <2>1, <2>2, <2>3 DEF TableInv
<1>10. CASE Normalize \/ TemporalEvaluate
  BY <1>1, <1>2, <1>10 DEF Normalize, TemporalEvaluate, memory, TableInv
<1>11. QED
  BY <1>3, <1>5, <1>6, <1>7, <1>8, <1>9, <1>10
  DEF Next, Ended, StreamNext, TemporalNext, ReplayNext, StreamWorkload, StreamProbe,
      StreamEvaluate, ReplayTrain, ReplayFlush, ReplayTrigger, ReplayProbe, ReplayEvaluate

\* The trigger has a last load in the training, and Successor is the line that
\* follows that one.
LEMMA LastTriggerExists ==
  ASSUME PlaceInv, IsTemporal
  PROVE  \E i \in 1..NumAddr : LastTrigger(i, NumAddr)
<1>1. NumAddr \in Nat /\ NumAddr >= 2 /\ TheTrigger = exp.training[1]
  BY TemporalShape
<1> DEFINE Loads == {i \in 1..NumAddr : exp.training[i] = TheTrigger}
           C == {i..NumAddr : i \in Loads}
<1>2. IsFiniteSet(1..NumAddr) /\ C \in SUBSET (SUBSET (1..NumAddr)) /\ C # {}
  <2>1. IsFiniteSet(1..NumAddr)
    BY <1>1, FS_Interval
  <2>2. \A i \in Loads : i..NumAddr \subseteq 1..NumAddr
    BY <1>1
  <2>3. 1 \in Loads
    BY <1>1
  <2>4. QED
    BY <2>1, <2>2, <2>3
<1>3. PICK T \in C : \A U \in C : U \subseteq T => U = T
  <2> DEFINE S == 1..NumAddr
  <2>1. IsFiniteSet(S) /\ C \in SUBSET (SUBSET S) /\ C # {}
    BY <1>2
  <2> HIDE DEF C, S
  <2>2. QED
    BY <2>1, SmallestSubset
<1>4. PICK i \in Loads : T = i..NumAddr
  OBVIOUS
<1>5. ASSUME NEW j \in (i + 1)..NumAddr, exp.training[j] = TheTrigger PROVE FALSE
  <2>1. j \in Loads /\ j..NumAddr \in C /\ j..NumAddr \subseteq i..NumAddr
    BY <1>1, <1>5
  <2>2. j..NumAddr = i..NumAddr
    BY <1>3, <1>4, <2>1
  <2>3. i \in i..NumAddr /\ i \notin j..NumAddr
    BY <1>1, <1>5
  <2>4. QED
    BY <2>2, <2>3
<1>6. LastTrigger(i, NumAddr)
  BY <1>5 DEF LastTrigger
<1>7. QED
  BY <1>6

LEMMA SuccessorIs ==
  ASSUME PlaceInv, IsTemporal, NEW i \in 1..NumAddr, LastTrigger(i, NumAddr)
  PROVE  Successor = exp.training[IF i = NumAddr THEN 1 ELSE i + 1]
<1>1. NumAddr \in Nat /\ NumAddr >= 2
  BY TemporalShape
<1> DEFINE Ends(j) == /\ exp.training[j] = exp.trigger[1]
                      /\ \A h \in (j + 1)..NumAddr : exp.training[h] # exp.trigger[1]
           occurrence == CHOOSE j \in 1..NumAddr : Ends(j)
<1>2. Ends(i)
  BY DEF LastTrigger, TheTrigger
<1>3. occurrence \in 1..NumAddr /\ Ends(occurrence)
  <2> HIDE DEF Ends
  <2>1. QED
    BY <1>2
<1> HIDE DEF occurrence
<1>4. ~(occurrence < i) /\ ~(i < occurrence)
  <2>1. occurrence < i => i \in (occurrence + 1)..NumAddr
    BY <1>1, <1>3
  <2>2. i < occurrence => occurrence \in (i + 1)..NumAddr
    BY <1>1, <1>3
  <2>3. QED
    BY <1>2, <1>3, <2>1, <2>2
<1>5. occurrence = i
  BY <1>1, <1>3, <1>4
<1>6. Successor = exp.training[(i % NumAddr) + 1]
  BY <1>5 DEF Successor, occurrence
<1>7. i % NumAddr = IF i = NumAddr THEN 0 ELSE i
  <2>1. CASE i = NumAddr
    <3>1. (NumAddr * 1 + 0) % NumAddr = 0
      BY <1>1, DivUnique
    <3>2. QED
      BY <1>1, <2>1, <3>1
  <2>2. CASE i # NumAddr
    <3>1. i \in Nat /\ i < NumAddr
      BY <1>1, <2>2
    <3>2. (NumAddr * 0 + i) % NumAddr = i
      BY <1>1, <3>1, DivUnique
    <3>3. QED
      BY <1>1, <2>2, <3>1, <3>2
  <2>3. QED
    BY <2>1, <2>2
<1>8. QED
  BY <1>1, <1>6, <1>7

LEMMA SuccessorTrained ==
  ASSUME PlaceInv, IsTemporal
  PROVE  Successor \in Trained
<1>1. /\ NumAddr \in Nat /\ NumAddr >= 2 /\ Len(exp.training) = NumAddr
  BY TemporalShape
<1>2. PICK i \in 1..NumAddr : LastTrigger(i, NumAddr)
  BY LastTriggerExists
<1>3. Successor = exp.training[IF i = NumAddr THEN 1 ELSE i + 1]
  BY <1>2, SuccessorIs
<1>4. (IF i = NumAddr THEN 1 ELSE i + 1) \in 1..Len(exp.training)
  BY <1>1
<1>5. QED
  BY <1>3, <1>4, OffsetsAreLines

\* Upon the trigger the prefetcher fetches the successor, unless that is the trigger.
LEMMA SuccessorFetched ==
  ASSUME PlaceInv, TableInv, IsTemporal, pc = "trigger"
  PROVE  TemporalFetch(TheTrigger) = {Successor} \ {TheTrigger}
<1>1. /\ NumAddr \in Nat /\ NumAddr >= 2 /\ exp.training[1] = TheTrigger /\ TheTrigger \in AllLines
      /\ \A j \in 1..NumAddr : exp.training[j] \in AllLines
      /\ exp.lines \in Nat \ {0} /\ exp.lines = TemporalLines /\ AllLines = 0..(exp.lines - 1)
  BY TemporalShape
<1>2. /\ seen.next \in [AllLines -> 0..exp.lines] /\ seen.last = exp.training[NumAddr]
      /\ Follows(seen.next[TheTrigger], NumAddr - 1)
  BY DEF TableInv
<1>3. seen.last \in AllLines /\ seen.last # TemporalLines
  BY <1>1, <1>2
<1>4. TemporalSeen(TheTrigger).next = [seen.next EXCEPT ![seen.last] = TheTrigger]
  BY <1>3 DEF TemporalSeen
<1>5. Successor \in AllLines
  BY SuccessorTrained, OffsetsAreLines
<1>6. TemporalSeen(TheTrigger).next[TheTrigger] = Successor
  <2>1. CASE exp.training[NumAddr] = TheTrigger
    <3>1. LastTrigger(NumAddr, NumAddr)
      BY <1>1, <2>1 DEF LastTrigger
    <3>2. Successor = TheTrigger
      BY <1>1, <3>1, SuccessorIs
    <3>3. QED
      BY <1>1, <1>2, <1>4, <2>1, <3>2
  <2>2. CASE exp.training[NumAddr] # TheTrigger
    <3>1. PICK i \in 1..(NumAddr - 1) :
            LastTrigger(i, NumAddr - 1) /\ seen.next[TheTrigger] = exp.training[i + 1]
      BY <1>2 DEF Follows
    <3>2. i \in 1..NumAddr /\ i # NumAddr
      BY <1>1
    <3>3. LastTrigger(i, NumAddr)
      <4>1. \A j \in (i + 1)..NumAddr : j \in (i + 1)..(NumAddr - 1) \/ j = NumAddr
        BY <1>1
      <4>2. QED
        BY <2>2, <3>1, <3>2, <4>1 DEF LastTrigger
    <3>4. Successor = exp.training[i + 1]
      BY <3>2, <3>3, SuccessorIs
    <3>5. QED
      BY <1>1, <1>2, <1>3, <1>4, <2>2, <3>1, <3>4
  <2>3. QED
    BY <2>1, <2>2
<1>7. QED
  BY <1>5, <1>6 DEF TemporalFetch

\* The trigger and the line that is fetched upon it are in the cache at the probe.
TemporalShown == Triggers \union (IF hw = "own" THEN {Successor} ELSE {})

TemporalLinesInv == IsTemporal /\ hw # "any" /\ pc = "probe" => cache = TemporalShown

LEMMA FixedSuccessor ==
  ASSUME [Next]_vars
  PROVE  Successor' = Successor /\ TemporalShown' = TemporalShown
<1>1. exp' = exp /\ hw' = hw /\ Triggers' = Triggers
  BY FixedSets
<1>2. Successor' = Successor
  BY <1>1 DEF Successor
<1>3. QED
  BY <1>1, <1>2 DEF TemporalShown

LEMMA TemporalLinesStep ==
  ASSUME PlaceInv, CacheInv, TableInv, TemporalLinesInv, [Next]_vars
  PROVE  TemporalLinesInv'
<1>1. /\ IsTemporal' = IsTemporal /\ exp' = exp /\ hw' = hw /\ Triggers' = Triggers
      /\ Successor' = Successor /\ hw \in {"none", "own", "any"}
  BY FixedSets, FixedSuccessor, ProbingAssumption DEF PlaceInv
<1>2. SUFFICES ASSUME IsTemporal, hw # "any", pc' = "probe" PROVE cache' = TemporalShown
  BY <1>1 DEF TemporalLinesInv, TemporalShown
<1>3. ~IsStream /\ ~IsReplay
  BY <1>2 DEF IsStream, IsTemporal, IsReplay
<1>4. CASE UNCHANGED vars
  BY <1>2, <1>4 DEF vars, memory, TemporalLinesInv
<1>5. CASE TemporalTrigger
  <2>1. PICK lines \in Fetches(TemporalFetch(TheTrigger), Trained) :
          cache' = cache \union {TheTrigger} \union lines
    BY <1>5 DEF TemporalTrigger, Load, TheTrigger
  <2>2. pc = "trigger" /\ cache = {}
    BY <1>2, <1>5 DEF TemporalTrigger, CacheInv
  <2>3. /\ TemporalFetch(TheTrigger) = {Successor} \ {TheTrigger}
        /\ Triggers = {TheTrigger}
    BY <1>2, <2>2, SuccessorFetched, TemporalShape
  <2>4. lines = IF hw = "own" THEN {Successor} \ {TheTrigger} ELSE {}
    BY <1>1, <1>2, <2>1, <2>3, FetchedSubset
  <2>5. QED
    BY <2>1, <2>2, <2>3, <2>4 DEF TemporalShown
<1>6. CASE Flush \/ TemporalTrain \/ TemporalFlush \/ TemporalProbe \/ Normalize \/ TemporalEvaluate
  BY <1>2, <1>6 DEF Flush, TemporalTrain, TemporalFlush, TemporalProbe, ProbeAt, Normalize,
    TemporalEvaluate
<1>7. QED
  BY <1>3, <1>4, <1>5, <1>6
  DEF Next, Ended, StreamNext, TemporalNext, ReplayNext, StreamWorkload, StreamProbe,
      StreamEvaluate, ReplayTrain, ReplayFlush, ReplayTrigger, ReplayProbe, ReplayEvaluate

------------------------------------------------------------------------------
(***************************************************************************)
(* The replay prefetcher: it follows the triggers, and behind the last one *)
(* it fetches what comes next in the training.                             *)
(***************************************************************************)
ReplayShown == Triggers \union (IF hw = "own" THEN {ReplayTraining[ReplayTriggers + 1]} ELSE {})

ReplayLinesInv ==
  IsReplay /\ hw # "any" =>
    /\ pc = "trigger" => /\ Second \subseteq Triggers
                         /\ \A j \in 1..Len(exp.trigger) : j < k => exp.trigger[j] \in Second
    /\ pc = "probe" => Second = ReplayShown

\* The line behind the triggers in the training is none of them.
LEMMA NextIsNoTrigger ==
  ASSUME PlaceInv, IsReplay
  PROVE  ReplayTraining[ReplayTriggers + 1] \in Trained \ Triggers
<1>1. /\ Triggers = {ReplayTraining[j] : j \in 1..ReplayTriggers}
      /\ Trained = {ReplayTraining[j] : j \in 1..End}
  BY ReplayShape
<1>2. /\ End \in Nat /\ ReplayTriggers \in Nat /\ 3 <= ReplayTriggers /\ ReplayTriggers < End
      /\ \A i, j \in 1..End : ReplayTraining[i] = ReplayTraining[j] => i = j
  BY SequenceShape
<1>3. ReplayTriggers + 1 \in 1..End
      /\ \A j \in 1..ReplayTriggers : j \in 1..End /\ j # ReplayTriggers + 1
  BY <1>2
<1>4. QED
  BY <1>1, <1>2, <1>3

\* One trigger after the other comes into the cache, and at last the next line.
LEMMA ReplayLinesStep ==
  ASSUME PlaceInv, CacheInv, ReplaySeenInv, ReplaySeenInv', ReplayLinesInv, [Next]_vars
  PROVE  ReplayLinesInv'
<1>1. /\ exp' = exp /\ hw' = hw /\ AllLines' = AllLines /\ Triggers' = Triggers
      /\ IsReplay' = IsReplay /\ hw \in {"none", "own", "any"}
  BY FixedSets, ProbingAssumption DEF PlaceInv
<1>2. SUFFICES ASSUME IsReplay, hw # "any", pc' \in {"trigger", "probe"} PROVE ReplayLinesInv'
  BY <1>1 DEF ReplayLinesInv
<1>3. ~IsStream /\ ~IsTemporal
  BY <1>2 DEF IsStream, IsTemporal, IsReplay
<1>4. ReplayShown' = ReplayShown
  BY <1>1 DEF ReplayShown
<1>5. Second' = {l \in AllLines : mapping2(l) \in cache'}
  BY <1>1 DEF Second, mapping2
<1>6. CASE UNCHANGED vars
  <2>1. Second' = Second /\ k' = k /\ pc' = pc
    BY <1>5, <1>6 DEF vars, memory, Second
  <2>2. QED
    BY <1>1, <1>4, <2>1 DEF ReplayLinesInv
<1>7. CASE ReplayFlush
  <2>1. pc = "flush" /\ cache' \subseteq cache /\ k' = k /\ pc' # "probe"
    BY <1>7 DEF ReplayFlush
  <2>2. k = 1 /\ Second \subseteq Triggers
    BY <1>2, <2>1 DEF PlaceInv, CacheInv
  <2>3. Second' \subseteq Triggers
    BY <1>5, <2>1, <2>2 DEF Second
  <2>4. \A j \in 1..Len(exp.trigger) : ~(j < k')
    BY <2>1, <2>2
  <2>5. QED
    BY <1>1, <2>1, <2>3, <2>4 DEF ReplayLinesInv
<1>8. CASE ReplayTrigger
  <2> DEFINE a == mapping2(exp.trigger[k])
             own == {l \in AllLines : mapping2(l) \in ReplayFetch(a)}
             cand == Candidates2
             new == IF hw = "own" THEN own ELSE {}
             m == Len(exp.trigger)
  <2>1. /\ pc = "trigger" /\ k \in 1..m /\ m \in Nat
        /\ IF k = m THEN pc' = "probe" /\ k' = k ELSE k' = k + 1 /\ pc' = pc
    BY <1>8, AllObjects DEF ReplayTrigger, PlaceInv, IsObject
  <2>2. PICK lines \in Fetches(ReplayFetch(a), cand) : cache' = cache \union {a} \union lines
    BY <1>8 DEF ReplayTrigger, Load
  <2>3. lines = IF hw = "own" THEN ReplayFetch(a) ELSE {}
    BY <1>1, <1>2, <2>2, FetchedSubset
  <2>4. /\ exp.trigger[k] \in Triggers /\ exp.trigger[k] \in AllLines
        /\ \A l \in AllLines : mapping2(l) = a => l = exp.trigger[k]
    <3>1. exp.trigger[k] \in Triggers /\ exp.trigger[k] \in AllLines
      BY <2>1, OffsetsAreLines
    <3>2. AllLines \subseteq Int /\ ReplayLines \in Int
      BY ReplayAssumption DEF AllLines
    <3>3. ASSUME NEW l \in AllLines, NEW t \in AllLines, mapping2(l) = mapping2(t)
          PROVE  l = t
      <4>1. l \in Int /\ t \in Int /\ ReplayLines + l = ReplayLines + t
        BY <3>2, <3>3 DEF mapping2
      <4> HIDE <3>3
      <4>2. QED
        BY <3>2, <4>1
    <3>4. QED
      BY <3>1, <3>3
  <2>5. IF k = m THEN own = {ReplayTraining[ReplayTriggers + 1]} ELSE own \subseteq Triggers
    BY <1>8, TriggerFetch
  <2>6. Second \subseteq Triggers /\ \A j \in 1..m : j < k => exp.trigger[j] \in Second
    BY <1>2, <2>1 DEF ReplayLinesInv
  <2>7. Second' = Second \union {exp.trigger[k]} \union new
    BY <1>5, <2>2, <2>3, <2>4 DEF Second
  <2> HIDE DEF a, own, cand
  <2>8. CASE k = m
    <3>1. Triggers = {exp.trigger[j] : j \in 1..m}
      <4>1. exp.trigger \in Seq(0..(exp.lines - 1))
        BY AllObjects DEF PlaceInv, IsObject
      <4>2. DOMAIN exp.trigger = 1..m
        BY <4>1
      <4>3. QED
        BY <4>2 DEF Triggers, ToSet
    <3>2. \A j \in 1..m : j = k \/ j < k
      BY <2>1, <2>8
    <3>3. Triggers \subseteq Second'
      BY <2>6, <2>7, <3>1, <3>2
    <3>4. Second' = ReplayShown
      BY <2>4, <2>5, <2>6, <2>7, <2>8, <3>3 DEF ReplayShown
    <3>5. QED
      BY <1>4, <2>1, <2>8, <3>4 DEF ReplayLinesInv
  <2>9. CASE k # m
    <3>1. k' = k + 1 /\ pc' = "trigger"
      BY <2>1, <2>9
    <3>2. Second' \subseteq Triggers
      BY <2>4, <2>5, <2>6, <2>7, <2>9
    <3>3. ASSUME NEW j \in 1..m, j < k' PROVE exp.trigger[j] \in Second'
      <4>1. j = k \/ j < k
        BY <2>1, <3>1, <3>3
      <4>2. QED
        BY <2>6, <2>7, <4>1
    <3>4. QED
      BY <1>1, <3>1, <3>2, <3>3 DEF ReplayLinesInv
  <2>10. QED
    BY <2>8, <2>9
<1>9. CASE Flush \/ ReplayTrain \/ ReplayProbe \/ Normalize \/ ReplayEvaluate
  <2>1. pc' \notin {"trigger", "probe"}
    BY <1>9 DEF Flush, ReplayTrain, ReplayProbe, ProbeAt, Normalize, ReplayEvaluate
  <2>2. QED
    BY <1>2, <2>1
<1>10. QED
  BY <1>3, <1>6, <1>7, <1>8, <1>9
  DEF Next, Ended, StreamNext, TemporalNext, ReplayNext, StreamWorkload, StreamProbe, StreamEvaluate,
      TemporalTrain, TemporalFlush, TemporalTrigger, TemporalProbe, TemporalEvaluate

------------------------------------------------------------------------------
(***************************************************************************)
(* The histogram.  The lines that show are counted whenever they are       *)
(* probed, and no other line ever is.                                      *)
(***************************************************************************)
Shown == IF IsStream THEN StreamShown ELSE IF IsTemporal THEN TemporalShown ELSE ReplayShown

\* The candidates of the evaluation.
Candidates ==
  IF IsStream THEN stream_cl_potential_prefetch
  ELSE IF IsTemporal THEN temporal_cl_potential_prefetch \ temporal_cl_accessed
  ELSE replay_cl_potential_prefetch

\* What shows are the accessed lines and some candidates.
LEMMA ShownCovered ==
  ASSUME PlaceInv
  PROVE  /\ Accessed \in SUBSET AllLines /\ Accessed # {} /\ Candidates \in SUBSET AllLines
         /\ Candidates \intersect Accessed = {}
         /\ Accessed \subseteq Shown /\ Shown \subseteq Accessed \union Candidates
<1>1. /\ Trained \subseteq AllLines /\ Triggers \subseteq AllLines
  BY OffsetsAreLines
<1>2. CASE IsStream
  <2>1. /\ First \in Nat /\ LastLoad \in Nat /\ First <= LastLoad
        /\ Trained = First..LastLoad /\ Head(exp.training) = First
    BY <1>2, StreamShape
  <2>2. Candidates = {l \in AllLines : l >= First} \ Trained
    BY <1>2, <2>1 DEF Candidates, stream_cl_potential_prefetch, stream_cl_accessed
  <2>3. Ahead \subseteq AllLines /\ \A l \in Ahead : l > LastLoad
    BY DEF Ahead, LastLoad
  <2>4. AllLines \subseteq Int
    BY DEF AllLines
  <2>5. ASSUME NEW l \in Ahead PROVE l \in Candidates
    BY <2>1, <2>2, <2>3, <2>4
  <2>6. First \in Trained
    BY <2>1
  <2>7. QED
    BY <1>1, <1>2, <2>2, <2>5, <2>6 DEF Accessed, Shown, StreamShown
<1>3. CASE IsTemporal /\ ~IsStream
  <2>1. Triggers # {} /\ Triggers \subseteq Trained /\ Successor \in Trained
    <3>1. /\ Triggers = {TheTrigger} /\ TheTrigger = exp.training[1]
          /\ Len(exp.training) = NumAddr /\ NumAddr \in Nat /\ NumAddr >= 2
      BY <1>3, TemporalShape
    <3>2. TheTrigger \in Trained
      BY <3>1, OffsetsAreLines
    <3>3. QED
      BY <1>3, <3>1, <3>2, SuccessorTrained
  <2>2. Candidates = Trained \ Triggers
    BY <1>3 DEF Candidates, temporal_cl_potential_prefetch, temporal_cl_accessed
  <2>3. QED
    BY <1>1, <1>3, <2>1, <2>2 DEF Accessed, Shown, TemporalShown
<1>4. CASE IsReplay
  <2>1. ~IsStream /\ ~IsTemporal
    BY <1>4 DEF IsStream, IsTemporal, IsReplay
  <2>2. Candidates = Trained \ Triggers /\ Accessed = Triggers /\ Shown = ReplayShown
    BY <2>1 DEF Candidates, replay_cl_potential_prefetch, Accessed, Shown
  <2>3. Triggers # {}
    <3>1. 1 \in 1..Len(exp.trigger)
      BY AllObjects DEF PlaceInv, IsObject
    <3>2. QED
      BY <3>1, OffsetsAreLines
  <2>4. ReplayTraining[ReplayTriggers + 1] \in Trained \ Triggers
    BY <1>4, NextIsNoTrigger
  <2>5. QED
    BY <1>1, <2>2, <2>3, <2>4 DEF ReplayShown
<1>5. QED
  BY <1>2, <1>3, <1>4, OffsetsAreLines

\* The histogram before and after its normalisation, and the vector.
ExactInv ==
  hw # "any" =>
    /\ hist \in [AllLines -> Nat]
    /\ pc \notin {"evaluate", "done"} =>
         \A l \in AllLines : hist[l] = IF l \in Shown THEN Turns(l, rep, exp.lines) ELSE 0
    /\ pc = "evaluate" =>
         \A l \in AllLines : IF l \in Shown THEN Shows(hist[l]) ELSE hist[l] = 0
    /\ pc = "done" => vector = Shown \ Accessed

LinesInv == StreamSeenInv /\ StreamLinesInv /\ TableInv /\ TemporalLinesInv /\ ReplayLinesInv

\* What shows does not change.
LEMMA FixedShown ==
  ASSUME [Next]_vars
  PROVE  Shown' = Shown
<1>1. /\ hw' = hw /\ Triggers' = Triggers
      /\ IsStream' = IsStream /\ IsTemporal' = IsTemporal
  BY FixedSets
<1>2. ReplayShown' = ReplayShown
  BY <1>1 DEF ReplayShown
<1>3. QED
  BY <1>1, <1>2, FixedAhead, FixedSuccessor DEF Shown

\* The address of the line that is probed.
Probed == IF IsReplay THEN mapping2(probe_idx) ELSE probe_idx

\* A probe hits if and only if its line shows.
LEMMA ProbedShows ==
  ASSUME PlaceInv, LinesInv, hw # "any", pc = "probe"
  PROVE  Probed \in cache <=> probe_idx \in Shown
<1>1. probe_idx \in AllLines /\ (IsStream \/ IsTemporal \/ IsReplay)
  BY OffsetsAreLines
<1>2. CASE IsStream
  <2>1. Probed = probe_idx /\ Shown = StreamShown
    BY <1>2 DEF Probed, Shown, IsStream, IsReplay
  <2>2. QED
    BY <1>2, <2>1, StreamProbed DEF LinesInv
<1>3. CASE IsTemporal
  <2>1. Probed = probe_idx /\ Shown = TemporalShown
    BY <1>3 DEF Probed, Shown, IsStream, IsTemporal, IsReplay
  <2>2. QED
    BY <1>3, <2>1 DEF LinesInv, TemporalLinesInv
<1>4. CASE IsReplay
  <2>1. Probed = mapping2(probe_idx) /\ Shown = ReplayShown
    BY <1>4 DEF Probed, Shown, IsStream, IsTemporal, IsReplay
  <2>2. Second = ReplayShown
    BY <1>4 DEF LinesInv, ReplayLinesInv
  <2>3. QED
    BY <1>1, <2>1, <2>2 DEF Second
<1>5. QED
  BY <1>1, <1>2, <1>3, <1>4

\* The counter of the line that is probed.
LEMMA ExactProbe ==
  ASSUME PlaceInv, LinesInv, ExactInv, hw # "any", [Next]_vars,
         NEW lines, NEW next, ProbeAt(Probed, lines, next)
  PROVE  ExactInv'
<1>1. exp' = exp /\ hw' = hw /\ AllLines' = AllLines /\ Accessed' = Accessed
  BY FixedSets
<1>2. Shown' = Shown
  BY FixedShown
<1>3. /\ pc = "probe" /\ rep' = rep + 1 /\ pc' \in {"normalize", "repeat"}
      /\ hist' = [hist EXCEPT ![probe_idx] = @ + IF Probed \in cache THEN 1 ELSE 0]
  BY DEF ProbeAt
<1>4. Probed \in cache <=> probe_idx \in Shown
  BY <1>3, ProbedShows
<1>5. probe_idx \in AllLines /\ rep \in Nat /\ exp.lines \in Nat \ {0}
  BY OffsetsAreLines
<1>6. hist \in [AllLines -> Nat] /\ hist' \in [AllLines -> Nat]
  BY <1>3, <1>5 DEF ExactInv
<1>7. ASSUME NEW l \in AllLines
      PROVE  hist'[l] = IF l \in Shown THEN Turns(l, rep + 1, exp.lines) ELSE 0
  <2>1. hist[l] = IF l \in Shown THEN Turns(l, rep, exp.lines) ELSE 0
    BY <1>3 DEF ExactInv
  <2>2. /\ Turns(l, rep, exp.lines) \in Nat
        /\ Turns(l, rep + 1, exp.lines) = Turns(l, rep, exp.lines) + IF l = probe_idx THEN 1 ELSE 0
    BY <1>5, NextTurn DEF AllLines, probe_idx
  <2>3. hist'[l] = IF l = probe_idx /\ l \in Shown THEN hist[l] + 1 ELSE hist[l]
    BY <1>3, <1>4, <1>5, <1>6
  <2>4. QED
    BY <2>1, <2>2, <2>3
<1>8. QED
  BY <1>1, <1>2, <1>3, <1>6, <1>7 DEF ExactInv

\* The steps keep the histogram exact, and the evaluation reports the lines that
\* show and were not accessed.
LEMMA ExactStep ==
  ASSUME PlaceInv, LinesInv, ExactInv, Noise < 1000, Divisor >= 2, [Next]_vars
  PROVE  ExactInv'
<1>1. exp' = exp /\ hw' = hw /\ AllLines' = AllLines /\ Accessed' = Accessed
  BY FixedSets
<1>2. SUFFICES ASSUME hw # "any" PROVE ExactInv'
  BY <1>1 DEF ExactInv
<1>3. Shown' = Shown
  BY FixedShown
<1>4. ~(IsStream /\ IsTemporal) /\ ~(IsStream /\ IsReplay) /\ ~(IsTemporal /\ IsReplay)
  BY DEF IsStream, IsTemporal, IsReplay
<1>5. CASE UNCHANGED vars
  BY <1>1, <1>3, <1>5 DEF vars, outcome, ExactInv
<1>6. CASE Flush \/ StreamWorkload \/ TemporalTrain \/ TemporalFlush \/ TemporalTrigger
           \/ ReplayTrain \/ ReplayFlush \/ ReplayTrigger
  <2>1. /\ hist' = hist /\ rep' = rep
        /\ pc \notin {"evaluate", "done"} /\ pc' \notin {"evaluate", "done"}
    BY <1>6 DEF Flush, StreamWorkload, TemporalTrain, TemporalFlush, TemporalTrigger, ReplayTrain,
      ReplayFlush, ReplayTrigger, outcome
  <2>2. QED
    BY <1>1, <1>2, <1>3, <2>1 DEF ExactInv
<1>7. CASE StreamProbe \/ TemporalProbe \/ ReplayProbe
  <2>1. \E lines, next : ProbeAt(Probed, lines, next)
    BY <1>4, <1>7 DEF StreamProbe, TemporalProbe, ReplayProbe, Probed
  <2>2. QED
    BY <1>2, <2>1, ExactProbe
<1>8. CASE Normalize
  <2>1. /\ pc = "normalize" /\ pc' = "evaluate" /\ rep = exp.reps
        /\ hist' = [l \in AllLines |-> (hist[l] * 1000) \div (exp.reps \div exp.lines)]
    BY <1>8 DEF Normalize, PlaceInv
  <2>2. ASSUME NEW l \in AllLines
        PROVE  IF l \in Shown THEN Shows(hist'[l]) ELSE hist'[l] = 0
    <3>1. hist[l] = IF l \in Shown THEN Turns(l, exp.reps, exp.lines) ELSE 0
      BY <1>2, <2>1 DEF ExactInv
    <3>2. hist'[l] = (hist[l] * 1000) \div (exp.reps \div exp.lines)
      BY <2>1
    <3>3. /\ Shows((Turns(l, exp.reps, exp.lines) * 1000) \div (exp.reps \div exp.lines))
          /\ (0 * 1000) \div (exp.reps \div exp.lines) = 0
      BY ScaledTurns
    <3>4. CASE l \in Shown
      <4>1. hist[l] = Turns(l, exp.reps, exp.lines)
        BY <3>1, <3>4
      <4>2. QED
        BY <3>2, <3>3, <3>4, <4>1
    <3>5. CASE l \notin Shown
      <4>1. hist[l] = 0
        BY <3>1, <3>5
      <4>2. QED
        BY <3>2, <3>3, <3>5, <4>1
    <3>6. QED
      BY <3>4, <3>5
  <2>3. hist' \in [AllLines -> Nat]
    <3>1. \A l \in AllLines : hist'[l] \in Nat
      BY <2>2 DEF Shows
    <3>2. QED
      BY <2>1, <3>1
  <2>4. QED
    BY <1>1, <1>3, <2>1, <2>2, <2>3 DEF ExactInv
<1>9. CASE StreamEvaluate \/ TemporalEvaluate \/ ReplayEvaluate
  <2>1. /\ pc = "evaluate" /\ pc' = "done" /\ hist' = hist
        /\ vector' = PrefetchVector(Accessed, Candidates)
    BY <1>4, <1>9 DEF StreamEvaluate, TemporalEvaluate, ReplayEvaluate, Accessed, Candidates,
      stream_cl_accessed, temporal_cl_accessed, replay_cl_accessed
  <2>2. \A l \in AllLines : IF l \in Shown THEN Shows(hist[l]) ELSE hist[l] = 0
    BY <1>2, <2>1 DEF ExactInv
  <2>3. PrefetchVector(Accessed, Candidates) = Candidates \intersect Shown
    BY <1>2, <2>2, ShownCovered, ShownReported
  <2>4. vector' = Shown \ Accessed
    BY <1>2, <2>1, <2>3, ShownCovered
  <2>5. QED
    BY <1>1, <1>2, <1>3, <2>1, <2>4 DEF ExactInv
<1>10. QED
  BY <1>5, <1>6, <1>7, <1>8, <1>9 DEF Next, Ended, StreamNext, TemporalNext, ReplayNext

ExactlyInv == ProbingInv /\ LinesInv /\ ExactInv

\* The invariant holds throughout.
LEMMA ExactInductive ==
  ASSUME Noise < 1000, Divisor >= 2
  PROVE  Spec => []ExactlyInv
<1>1. Init => LinesInv /\ ExactInv
  <2> SUFFICES ASSUME Init PROVE LinesInv /\ ExactInv
    OBVIOUS
  <2>1. PlaceInv /\ InitExperiment /\ (StreamInit \/ TemporalInit \/ ReplayInit)
    BY InitPlace DEF Init
  <2>2. pc = "repeat" /\ rep = 0 /\ hist = [l \in AllLines |-> 0]
    BY <2>1 DEF InitExperiment
  <2>3. IsStream => seen.last = StreamLines
    <3>1. ASSUME IsStream PROVE StreamInit
      <4>1. ~TemporalInit
        BY <3>1, TemporalObject DEF TemporalInit, IsStream
      <4>2. ~ReplayInit
        BY <3>1, ReplayObject DEF ReplayInit, IsStream
      <4>3. QED
        BY <2>1, <4>1, <4>2
    <3>2. QED
      BY <3>1 DEF StreamInit
  <2>4. IsTemporal =>
          seen.last = TemporalLines /\ seen.next \in [0..(TemporalLines - 1) -> 0..TemporalLines]
    <3>1. ASSUME IsTemporal PROVE TemporalInit
      <4>1. ~StreamInit
        BY <3>1, StreamObject DEF StreamInit, IsTemporal
      <4>2. ~ReplayInit
        BY <3>1, ReplayObject DEF ReplayInit, IsTemporal
      <4>3. QED
        BY <2>1, <4>1, <4>2
    <3>2. QED
      BY <3>1 DEF TemporalInit
  <2>5. LinesInv
    <3>1. StreamSeenInv /\ StreamLinesInv /\ TemporalLinesInv /\ ReplayLinesInv
      BY <2>2, <2>3 DEF StreamSeenInv, StreamLinesInv, TemporalLinesInv, ReplayLinesInv
    <3>2. ASSUME IsTemporal PROVE exp.lines = TemporalLines /\ TemporalLines \in Nat
      BY <2>1, <3>2, TemporalShape
    <3>3. TableInv
      BY <2>2, <2>4, <3>2 DEF TableInv, AllLines
    <3>4. QED
      BY <3>1, <3>3 DEF LinesInv
  <2>6. ExactInv
    <3>1. \A l \in AllLines : Turns(l, 0, exp.lines) = 0
      BY <2>1, OffsetsAreLines, NextTurn DEF AllLines
    <3>2. QED
      BY <2>2, <3>1 DEF ExactInv
  <2>7. QED
    BY <2>5, <2>6
<1>2. ProbingInv /\ LinesInv /\ ExactInv /\ [Next]_vars => LinesInv' /\ ExactInv'
  <2> SUFFICES ASSUME ProbingInv, LinesInv, ExactInv, [Next]_vars PROVE LinesInv' /\ ExactInv'
    OBVIOUS
  <2>1. PlaceInv /\ CacheInv /\ ReplaySeenInv
    BY DEF ProbingInv, EvidenceInv
  <2>2. StreamSeenInv' /\ StreamLinesInv' /\ TableInv'
    BY <2>1, StreamSeenStep, StreamLinesStep, TableStep DEF LinesInv
  <2>3. TemporalLinesInv' /\ ReplayLinesInv'
    BY <2>1, TemporalLinesStep, ReplaySeenStep, ReplayLinesStep DEF LinesInv
  <2>4. ExactInv'
    BY <2>1, ExactStep
  <2>5. QED
    BY <2>2, <2>3, <2>4 DEF LinesInv
<1>3. QED
  BY <1>1, <1>2, ProbingInductive, PTL DEF Spec, ExactlyInv

\* The number that the stream test reports is that of the lines that a stream
\* prefetcher is ahead of the loads at their end, and 0 when there is none or the
\* page of the last load has too few (TestCaseStream::test_base_test()): for all
\* sizes of the mapping and of its pages, all numbers of loads, steps to confirm a
\* stream and degrees, and thresholds below a full counter.
THEOREM StreamCountExact ==
  ASSUME Noise < 1000, Divisor >= 2
  PROVE  Spec => []StreamCounted
<1>1. ExactlyInv => StreamCounted
  <2> SUFFICES ASSUME ExactlyInv, pc = "done", IsStream, hw # "any"
      PROVE  result.Prefetched = IF hw = "own" /\ Enough THEN Cardinality(Ahead) ELSE 0
    BY DEF StreamCounted, Enough
  <2>1. PlaceInv /\ result.Prefetched = Cardinality(vector)
    BY DEF ExactlyInv, ProbingInv, ResultInv
  <2>2. vector = StreamShown \ Trained
    BY DEF ExactlyInv, ProbingInv, ExactInv, Shown, Accessed
  <2>3. Trained = First..LastLoad /\ LastLoad \in Nat
    BY <2>1, StreamShape
  <2>4. \A l \in Ahead : l \in Int /\ l > LastLoad
    BY DEF Ahead, LastLoad, AllLines
  <2>5. vector = IF hw = "own" /\ Enough THEN Ahead ELSE {}
    BY <2>2, <2>3, <2>4 DEF StreamShown
  <2>6. QED
    BY <2>1, <2>5, FS_EmptySet
<1>2. QED
  BY <1>1, ExactInductive, PTL

\* The temporal test reports the line that follows the last load of the trigger in
\* the training if a temporal prefetcher is there, and nothing that it knew before
\* or learned from the probing (test_trigger_same_pc_same_memory()): for all
\* mappings, random offsets, repeated ones among them, and numbers of loops.
THEOREM TemporalSuccessor ==
  ASSUME Noise < 1000, Divisor >= 2
  PROVE  Spec => []TemporalTold
<1>1. ExactlyInv => TemporalTold
  <2> SUFFICES ASSUME ExactlyInv, pc = "done", IsTemporal, hw # "any"
      PROVE  /\ vector = (IF hw = "own" THEN {Successor} ELSE {}) \ Triggers
             /\ result.triggers_prefetch = (vector # {})
    BY DEF TemporalTold
  <2>1. result.triggers_prefetch = (vector # {}) /\ ~IsStream
    BY DEF ExactlyInv, ProbingInv, ResultInv, IsStream, IsTemporal
  <2>2. vector = TemporalShown \ Triggers
    BY <2>1 DEF ExactlyInv, ExactInv, Shown, Accessed
  <2>3. QED
    BY <2>1, <2>2 DEF TemporalShown
<1>2. QED
  BY <1>1, ExactInductive, PTL

\* The replay test reports the line that follows the triggers in the training if a
\* replay prefetcher is there, of the other mapping, and nothing that the training
\* or a jump between the mappings left behind (TestCaseDCReplay::test_base_test()
\* and identify()): for all mappings, all offsets that ReplayDistances allows and
\* numbers of loops.
THEOREM ReplayFollowed ==
  ASSUME Noise < 1000, Divisor >= 2
  PROVE  Spec => []ReplayIdentified
<1>1. ExactlyInv => ReplayIdentified
  <2> SUFFICES ASSUME ExactlyInv, pc = "done", IsReplay, hw # "any"
      PROVE  /\ vector = IF hw = "own" THEN {exp.training[ReplayTriggers + 1]} ELSE {}
             /\ result.identified = (hw = "own")
    BY DEF ReplayIdentified
  <2>1. PlaceInv /\ result.identified = (vector # {}) /\ ~IsStream /\ ~IsTemporal
    BY DEF ExactlyInv, ProbingInv, ResultInv, IsStream, IsTemporal, IsReplay
  <2>2. vector = ReplayShown \ Triggers
    BY <2>1 DEF ExactlyInv, ExactInv, Shown, Accessed
  <2>3. exp.training = ReplayTraining /\ ReplayTraining[ReplayTriggers + 1] \notin Triggers
    BY <2>1, ReplayShape, NextIsNoTrigger
  <2>4. vector = IF hw = "own" THEN {exp.training[ReplayTriggers + 1]} ELSE {}
    BY <2>2, <2>3 DEF ReplayShown
  <2>5. QED
    BY <2>1, <2>4
<1>2. QED
  BY <1>1, ExactInductive, PTL
=============================================================================
