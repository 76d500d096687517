---------------------------- MODULE SmsExperiment ----------------------------
(***************************************************************************)
(* The experiments of the SMS testcase: identify(), which tests the same   *)
(* instruction on the same memory at several positions, and characterize(),*)
(* which repeats that test elsewhere, tests different instructions on      *)
(* different memory, and dies at the beginning of test_region_boundary.    *)
(* The tests behind that are modelled from their own beginnings.           *)
(* The cache and a region prefetcher (SMS) are part of the environment.    *)
(*                                                                         *)
(* Only cache lines of mapping2, which is probed, are modelled; the        *)
(* offsets of these tests all are multiples of a line.                     *)
(***************************************************************************)
EXTENDS AccessOrder, LoadInstructions

CONSTANTS
  Lines,        (* cache lines of mapping2                                   *)
  SameOffsets,  (* training_offsets of the tests with the same instruction   *)
  OtherOffsets, (* training_offsets of the tests with different instructions *)
  EntryOffsets, (* training_offsets of test_training_entries                 *)
  MaxEntries,   (* regions trained in test_training_entries: 2..MaxEntries   *)
  RegionLines,  (* lines of every other page that access_regions touches     *)
  Positions,    (* identify() runs mapping2_position 0..Positions - 1        *)
  Loops,        (* training loops per repetition                             *)
  Reps,         (* no_repetitions                                            *)
  Noise,        (* noise_thresh                                              *)
  Divisor,      (* threshold_multiplier is 1/Divisor                         *)
  Huge,         (* stands for a threshold near 2^64                          *)
  Hardware      (* prefetchers: how they key, when they store a pattern, bits*)
                (* of an instruction's address that they look at, regions    *)
                (* they can be trained on at once, and whether               *)
                (* random_activity() makes them forget what they have learned*)

ASSUME SmsAssumption ==
  /\ Lines \in Nat \ {0}
  /\ \A offsets \in {SameOffsets, OtherOffsets, EntryOffsets} :
       offsets \in Seq(0..(Lines - 1)) /\ Len(offsets) > 1 /\ IsInjective(offsets)
  /\ MaxEntries \in Nat /\ MaxEntries >= 2
  /\ RegionLines \subseteq 0..(Lines - 1)
  /\ Positions \in Nat \ {0} /\ Loops \in Nat \ {0}
  /\ Reps \in Nat /\ Reps >= Lines
  /\ Noise \in Nat /\ Divisor \in Nat \ {0} /\ Huge \in Nat
  /\ Hardware \subseteq [key: {"none", "pc", "offset", "any"}, store: {"at_once", "evicted"},
                         bits: Nat, entries: Nat, forgets: BOOLEAN]

VARIABLES
  hw,          (* the prefetcher of this machine                             *)
  test,        (* 0..Positions - 1 in identify(), then characterize()        *)
  regions,     (* access_regions                                             *)
  info,        (* additional_info: colliding_bits or entries                 *)
  pc,
  rep, loop,   (* repetition, training loop                                  *)
  cache,       (* lines of mapping2 in the cache                             *)
  learned,     (* keys under which the prefetcher has stored the pattern     *)
  fetched,     (* lines that it fetched since the experiment began           *)
  hist,        (* cache_histogram                                            *)
  vector,      (* prefetch_vector: the lines that are true                   *)
  result,      (* JSON object that the last test returned                    *)
  identified,  (* flag that identify() returns                               *)
  detected     (* has any prefetch vector of identify() been non-empty?      *)

experiment == <<hw, test, regions, info, orderVars>>
memory == <<cache, learned, fetched>>
outcome == <<hist, vector, result, identified, detected>>
vars == <<experiment, pc, rep, loop, memory, outcome>>

AllLines == 0..(Lines - 1)
SamePc == test <= Positions
Different == Positions + 1
RegionBoundary == Positions + 2
Direction == Positions + 3
PcCollision == Positions + 4
TrainingEntries == Positions + 5

training_offsets ==
  CASE SamePc                                 -> SameOffsets
    [] test \in {Different, PcCollision}      -> OtherOffsets
    [] test \in {RegionBoundary, Direction}   -> order
    [] test = TrainingEntries                 -> EntryOffsets
trigger == Head(training_offsets)
Trained == ToSet(training_offsets)

\* Does mapping2 lie inside mapping1, in a page that access_regions touches?
Overlaps == test < Positions /\ test % 2 = 0

Init ==
  /\ hw \in Hardware
  /\ test \in {0, Direction, PcCollision, TrainingEntries}
  /\ regions = FALSE
  /\ info = CASE test = PcCollision -> MinBits [] test = TrainingEntries -> 2 [] OTHER -> 0
  /\ OrderInit
  /\ pc = IF test = Direction THEN "order" ELSE "repeat"
  /\ rep = 0 /\ loop = 0
  /\ cache \in {{}, AllLines}
  /\ learned = {} /\ fetched = {}
  /\ hist = [l \in AllLines |-> 0]
  /\ vector = {}
  /\ result = [status |-> TRUE]
  /\ identified = FALSE /\ detected = FALSE

\* The order of the accesses is made up.
MakeOrder ==
  /\ pc = "order"
  /\ IF OrderDone THEN pc' = "repeat" /\ UNCHANGED orderVars
     ELSE pc' = "order" /\ (Draw \/ Pass \/ Repair(test = Direction))
  /\ UNCHANGED <<hw, test, regions, info, rep, loop, memory, outcome>>

\* The flush at the beginning of a repetition.
FlushFirst ==
  /\ pc = "repeat"
  /\ cache' = {}
  /\ loop' = 0
  /\ pc' = "train"
  /\ UNCHANGED <<experiment, rep, learned, fetched, outcome>>

\* As the prefetcher tells instructions apart.
Seen(address) == address % 2 ^ hw.bits

\* The instruction that trains.
TrainingPc ==
  CASE test = PcCollision -> Seen(get_maccess_functions(info).first)
    [] test = Different   -> "first_maccess"
    [] OTHER              -> "maccess_noinline"

\* Faulty variant of TriggerPc: the test uses one function for all accesses.
TriggerPcSame == TrainingPc

TriggerPc ==
  CASE test = PcCollision -> Seen(get_maccess_functions(info).second)
    [] test = Different   -> "second_maccess"
    [] OTHER              -> "maccess_noinline"

\* In test_training_entries other regions are trained before the last access;
\* the first of them is the page of the experiment itself.
Survives == test = TrainingEntries => info <= hw.entries

\* What it stores when the training is complete in its eyes: the pattern of what
\* it has seen of the region.
Pattern == Trained \ IF Survives THEN {} ELSE {Last(training_offsets)}
Stored ==
  IF hw.key \in {"none", "any"} THEN {}
  ELSE {[pc |-> TrainingPc, first |-> trigger, lines |-> Pattern]}

\* A new pattern replaces the old one under its key.
Learn(patterns) ==
  {known \in learned : \A new \in patterns : <<known.pc, known.first>> # <<new.pc, new.first>>}
    \union patterns

\* The workload of these tests reads through the null pointer that they pass.
NullPassed == test \in {RegionBoundary, Direction}

Die ==
  /\ pc = "train" /\ NullPassed
  /\ pc' = "segv"
  /\ UNCHANGED <<experiment, rep, loop, memory, outcome>>

\* One pass over training_offsets; in mapping1 for different memory.
Train ==
  /\ pc = "train" /\ ~NullPassed
  /\ cache' = IF SamePc THEN cache \union Trained ELSE cache
  /\ learned' = IF hw.store = "at_once" \/ ~Survives THEN Learn(Stored) ELSE learned
  /\ pc' = IF SamePc THEN "regions" ELSE "trigger"
  /\ UNCHANGED <<experiment, rep, loop, fetched, outcome>>

\* Faulty variant of AccessRegions: there are none, whatever the flag says.
AccessRegionsNever ==
  /\ pc = "regions"
  /\ pc' = "flush"
  /\ UNCHANGED <<experiment, rep, loop, memory, outcome>>

\* Accesses to other pages make the prefetcher store what it is training on.
AccessRegions ==
  /\ pc = "regions"
  /\ IF regions
     THEN /\ cache' = IF Overlaps THEN cache \union RegionLines ELSE cache
          /\ learned' = Learn(Stored)
     ELSE UNCHANGED <<cache, learned>>
  /\ pc' = "flush"
  /\ UNCHANGED <<experiment, rep, loop, fetched, outcome>>

\* Faulty variant of FlushTraining: mapping2 is not flushed.
FlushTrainingOther ==
  /\ pc = "flush"
  /\ loop' = loop + 1
  /\ pc' = IF loop + 1 = Loops THEN "trigger" ELSE "train"
  /\ UNCHANGED <<experiment, rep, memory, outcome>>

FlushTraining ==
  /\ pc = "flush"
  /\ cache' = {}
  /\ loop' = loop + 1
  /\ pc' = IF loop + 1 = Loops THEN "trigger" ELSE "train"
  /\ UNCHANGED <<experiment, rep, learned, fetched, outcome>>

\* The patterns that the trigger access recalls.
Recognized ==
  {known \in learned : known.first = trigger /\ (hw.key = "pc" => known.pc = TriggerPc)}

Trigger ==
  /\ pc = "trigger"
  /\ \E lines \in SUBSET (Trained \ {trigger}) :
       /\ hw.key # "any" => lines = (UNION {known.lines : known \in Recognized}) \ {trigger}
       /\ cache' = cache \union {trigger} \union lines
       /\ fetched' = fetched \union lines
  /\ pc' = "probe"
  /\ UNCHANGED <<experiment, rep, loop, learned, outcome>>

\* The lines are probed in turn, one per repetition.
probe_idx == rep % Lines

\* probe_single(): reload the line and flush it again.
Probe ==
  /\ pc = "probe"
  /\ hist' = [hist EXCEPT ![probe_idx] = @ + IF probe_idx \in cache THEN 1 ELSE 0]
  /\ cache' = cache \ {probe_idx}
  /\ rep' = rep + 1
  /\ pc' = IF rep + 1 = Reps THEN "normalize" ELSE "repeat"
  /\ UNCHANGED <<experiment, loop, learned, fetched, vector, result, identified, detected>>

Normalize ==
  /\ pc = "normalize"
  /\ hist' = [l \in AllLines |-> (hist[l] * 1000) \div (Reps \div Lines)]
  /\ pc' = "evaluate"
  /\ UNCHANGED <<experiment, rep, loop, memory, vector, result, identified, detected>>

------------------------------------------------------------------------------
\* evaluate_cache_histogram()

cl_accessed(l) == l = trigger

\* An offset that was trained and is no trigger; or a trained distance from the
\* trigger: l - trigger is the distance of a later training offset to the first.
cl_potential_prefetch(l) ==
  \/ l \in Trained \ {trigger}
  \/ \E offset \in ToSet(Tail(training_offsets)) :
       l + Head(training_offsets) = offset + trigger

Average(lines) ==
  IF lines = {} THEN 0 ELSE MapThenSumSet(LAMBDA l : hist[l], lines) \div Cardinality(lines)

CandidateLines == {l \in AllLines : cl_potential_prefetch(l)}
MissLines == {l \in AllLines : ~cl_accessed(l) /\ ~cl_potential_prefetch(l)}

prefetch_thresh ==
  LET hit == Average({l \in AllLines : cl_accessed(l)})
      miss == Average(MissLines)
      thresh == IF hit >= miss THEN miss + ((hit - miss) \div Divisor) ELSE Huge
  IN  IF thresh = 0 THEN 1 ELSE thresh

\* The prefetch vector; then the experiment with region accesses, or the result.
Evaluate ==
  /\ pc = "evaluate"
  /\ vector' = {l \in CandidateLines : hist[l] > Noise /\ hist[l] >= prefetch_thresh}
  /\ detected' = (detected \/ (test < Positions /\ vector' # {}))
  /\ pc' = "report"
  /\ UNCHANGED <<experiment, rep, loop, memory, hist, result, identified>>

------------------------------------------------------------------------------
\* The tests, identify() and characterize()

\* json11: a key that an object does not have is null, and that reads as false.
BoolValue(object, key) == IF key \in DOMAIN object THEN object[key] ELSE FALSE

\* test_training_entries goes on while all the lines of the pattern come.
MoreEntries == Cardinality(vector) >= Len(training_offsets) - 1

\* What the test knows after this experiment.
TestResult ==
  CASE SamePc /\ ~regions -> [without |-> vector # {}]
    [] SamePc /\ regions  -> [without |-> result.without, with |-> vector # {}]
    [] test = Different   -> [triggers_prefetch |-> vector # {}]
    [] test = PcCollision ->
         IF "min_colliding_bits" \in DOMAIN result \/ vector = {} THEN result
         ELSE [min_colliding_bits |-> info]
    [] test = TrainingEntries ->
         [max_training_entries |-> IF MoreEntries THEN info + 1 ELSE info]

\* The tests with the same instruction consist of two experiments.
LastOfTest ==
  CASE SamePc                 -> regions
    [] test = Different       -> TRUE
    [] test = PcCollision     -> info = MaxBits
    [] test = TrainingEntries -> ~MoreEntries \/ info = MaxEntries

\* random_activity() between two tests, and two experiments of the last two.
Remembered == IF hw.forgets /\ (LastOfTest \/ ~SamePc) THEN {} ELSE learned

\* The next experiment of the test or the next test; the result of the last
\* test of identify() makes its flag.
Report ==
  /\ pc = "report"
  /\ result' = TestResult
  /\ regions' = (SamePc /\ ~regions)
  /\ info' = IF SamePc \/ LastOfTest THEN info ELSE info + 1
  /\ test' = IF LastOfTest /\ test <= Different THEN test + 1 ELSE test
  /\ identified' = IF LastOfTest /\ test = Positions - 1
                   THEN BoolValue(TestResult, "triggers_prefetch") ELSE identified
  /\ pc' = IF ~LastOfTest \/ SamePc THEN "repeat" ELSE IF test = Different THEN "order" ELSE "done"
  /\ rep' = 0
  /\ fetched' = {}
  /\ hist' = [l \in AllLines |-> 0]
  /\ vector' = {}
  /\ learned' = Remembered
  /\ UNCHANGED <<hw, loop, cache, detected, orderVars>>

Ended == pc \in {"done", "segv"} /\ UNCHANGED vars

Next ==
  \/ MakeOrder \/ Die
  \/ FlushFirst \/ Train \/ AccessRegions \/ FlushTraining \/ Trigger
  \/ Probe \/ Normalize \/ Evaluate \/ Report
  \/ Ended

Spec == Init /\ [][Next]_vars

------------------------------------------------------------------------------
\* Properties

\* What is reported as prefetched was fetched by the prefetcher after a trigger
\* access of the same experiment: the lines that the training and the region
\* accesses bring into the probed page never survive until a probe, even when
\* that page is one of the pages the region accesses go to.
OnlyPrefetches == pc = "report" => vector \subseteq fetched

\* Once the regions have been accessed, a region prefetcher is found at every
\* trained line, whether it keys by instruction or by offset and whether it
\* stores a pattern at once or when the region is evicted.
PrefetcherFound ==
  pc = "report" /\ SamePc /\ regions /\ hw.key \in {"pc", "offset"}
    => vector = Trained \ {trigger}

\* What the tests of characterize() conclude is the prefetcher's: the one with
\* different instructions is negative if it keys by instruction, whatever it
\* learned in all the tests before; test_pc_collision finds how many bits of the
\* address it looks at, provided that it forgets by random_activity(), as the
\* comment at testcase_sms.hh:327 means it to; and an experiment of
\* test_training_entries shows all lines of the pattern exactly if the prefetcher
\* can be trained on as many regions.  (Which number that test then reports is
\* another matter: README, section 6.)
CharacterTold ==
  LET bits == IF hw.bits < MinBits THEN MinBits ELSE IF hw.bits > MaxBits THEN MaxBits + 1 ELSE hw.bits
      found == IF "min_colliding_bits" \in DOMAIN result THEN result.min_colliding_bits ELSE MaxBits + 1
  IN  /\ test = RegionBoundary /\ hw.key = "pc" => ~BoolValue(result, "triggers_prefetch")
      /\ hw.key = "pc" /\ hw.store = "at_once" =>
           /\ pc = "done" /\ test = PcCollision /\ hw.forgets => found = bits
           /\ pc = "report" /\ test = TrainingEntries => (MoreEntries <=> info <= hw.entries)

\* The access order that the tests of regions end up with is one of all lines of
\* the region.  It has no stride if it needed no repair, none behind its second
\* access otherwise, and in test_direction the first access stays the first.
OrderChecked ==
  test \in {RegionBoundary, Direction} /\ pc # "order" =>
    /\ Len(order) = RegionSize + 1 /\ ToSet(order) = Distances
    /\ \A k \in (IF repaired THEN 3 ELSE 2)..RegionSize : ~IsStride(k)
    /\ test = Direction => Head(order) = 0

\* testcase_sms.hh:497 "make sure the pseudo-random order does not contain a
\* stride pattern", as :387 says of the other test.
NoStrideInOrder ==
  test \in {RegionBoundary, Direction} /\ pc # "order" => \A k \in 2..RegionSize : ~IsStride(k)

\* testcase_sms.hh:134 "Report positive test result if any prefetching was
\* detected": identify() is positive if one of its prefetch vectors is not empty.
PositiveIfDetected == test >= Positions /\ detected => identified
==============================================================================
