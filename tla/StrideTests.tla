----------------------------- MODULE StrideTests -----------------------------
(***************************************************************************)
(* Tests of the stride testcase (testcase_stride.hh): each one runs a      *)
(* number of stride experiments one after the other and concludes from     *)
(* their prefetch vectors what kind of prefetcher the machine has.         *)
(*                                                                         *)
(* The kinds of prefetchers are part of the environment.  random_activity()*)
(* and the probing make them forget strides between two experiments.       *)
(***************************************************************************)
EXTENDS StrideExperiment, LoadInstructions

CONSTANTS
  Kinds,          (* prefetchers: bits of the instruction's address by which *)
                  (* they tell strides apart, whether they also tell apart   *)
                  (* memory areas, accesses they need to recognize a stride, *)
                  (* accesses in a new area to continue one, magnitudes of   *)
                  (* strides in lines, whether they look at bytes, whether   *)
                  (* they cross pages                                        *)
  Tests,          (* which of the tests below                                *)
  PageLines,      (* cache lines of a page                                   *)
  Stride, Steps,  (* the stride of most tests in bytes, and accesses: 3      *)
                  (* lines and 12                                            *)
  MaxSteps,       (* the longest experiment of test_no_prefetches: 48, and   *)
                  (* of test_overview: 32                                    *)
  RandomSteps,    (* accesses in test_random_offset_within_cl: 6             *)
  Doublings,      (* strides in test_min_max_stride: 1 line to 2^Doublings   *)
  DirectionStride, DirectionSteps,   (* test_direction: 9 lines and 14       *)
  CorrStride, CorrFrom, CorrTo,      (* test_load_pref_corr: 64 lines, 4..35 *)
  PatternStride, PatternGap          (* test_2D_steps: 4 bytes, 128 times    *)

TestNames ==
  {"overview", "load_pref_corr", "direction", "2D_steps", "same_pc_different_memory",
   "different_pc_different_memory", "different_pc_same_memory", "no_prefetches", "min_max_stride",
   "pc_collision_1acc", "pc_collision_2acc", "stride_less_than_cl_size", "random_offset_within_cl",
   "cross_page_boundary"}

ASSUME TestsAssumption ==
  /\ Tests \subseteq TestNames
  /\ Kinds \subseteq [bits : Nat, area : BOOLEAN, confirm : Nat \ {0, 1}, resume : Nat \ {0},
                      strides : SUBSET (Nat \ {0}), bytes : BOOLEAN, crosses : BOOLEAN]
  /\ PageLines \in Nat \ {0} /\ Stride \in Nat \ {0} /\ Steps \in Nat \ {0, 1}
  /\ Steps * Stride <= PageLines * LineSize /\ LineSize >= 4
  /\ MaxSteps \in Nat \ {0, 1} /\ RandomSteps \in Nat \ {0}
  /\ Doublings \in Nat
  /\ {DirectionStride, DirectionSteps, CorrStride, CorrFrom, PatternStride, PatternGap} \subseteq Nat \ {0}
  /\ CorrTo \in Nat /\ CorrFrom <= CorrTo

VARIABLES
  test,      (* the test that runs, or "single" for an experiment of its own *)
  kind,      (* the prefetcher                                               *)
  vectors,   (* prefetch vectors of the experiments before this one          *)
  result     (* JSON object that the test returns                            *)

testVars == <<test, kind, vectors, result>>
allVars == <<vars, testVars>>

------------------------------------------------------------------------------
\* What a prefetcher does in an experiment

\* Accesses that share its entry with the last access.  In two mappings, the
\* instructions collide in s.bits bits: the same one in all of them.
Sharing(k, s) ==
  IF s.variant = "two" THEN IF k.area \/ s.bits < k.bits THEN s.tail ELSE s.exp.step
  ELSE IF s.variant = "2D" THEN s.exp.step * (s.exp.gap1 + s.exp.gap2) + 1
  ELSE IF s.bits < k.bits THEN 1 ELSE s.exp.step

LastAccess(s) ==
  s.exp.first + IF s.variant = "2D" THEN s.exp.step * Period(s.exp) ELSE (s.exp.step - 1) * s.exp.stride

Page(offset) == LineOf(offset) \div PageLines

Follows(k, s) ==
  LET last == LastAccess(s)
  IN  /\ Sharing(k, s) >= k.confirm
      /\ s.variant = "two" /\ Sharing(k, s) = s.exp.step => s.tail >= k.resume
      /\ IF k.bytes THEN ~s.random ELSE Magnitude(s.exp.stride) >= LineSize
      /\ Magnitude(s.exp.stride) >= LineSize => Magnitude(s.exp.stride) \div LineSize \in k.strides
      /\ Page(last + s.exp.stride) = Page(last) \/ k.crosses

------------------------------------------------------------------------------
\* The experiments of each test, in order

Whole == 64   \* bits in which an instruction's address collides with itself

Experiment(stride, step, first) == [stride |-> stride, step |-> step, first |-> first]
Loop(e) == [exp |-> e, variant |-> "full", tail |-> 0, bits |-> Whole, random |-> FALSE]
InTwo(e, accesses, colliding) ==
  [Loop(e) EXCEPT !.variant = "two", !.tail = accesses, !.bits = colliding]

Base == Experiment(Stride, Steps, 0)

\* For negative strides the experiments start at the end of the mapping.
FirstAccess(stride) == IF stride > 0 THEN 0 ELSE (Lines - 1) * LineSize

\* One and two accesses in mapping2 after the other ones in mapping1, and as
\* many accesses alone.
TwoMappings(colliding) ==
  <<InTwo(Base, 1, colliding), InTwo(Base, 2, colliding),
    Loop(Experiment(Stride, 1, (Steps - 1) * Stride)),
    Loop(Experiment(Stride, 2, (Steps - 2) * Stride))>>

DifferentPc == <<[Loop(Base) EXCEPT !.bits = 0], Loop(Base)>>

NoPrefetches == [i \in 1..(MaxSteps - 1) |-> Loop(Experiment(Stride, i + 1, 0))]

\* Negative strides first, from one line onwards.
TestedStride(i) ==
  IF i <= Doublings + 1 THEN -(2 ^ (i - 1)) * LineSize ELSE (2 ^ (i - Doublings - 2)) * LineSize
MinMaxStride ==
  [i \in 1..(2 * (Doublings + 1)) |->
     LET stride == TestedStride(i)
     IN  [Loop(Experiment(stride, Steps, FirstAccess(stride))) EXCEPT !.variant = "lazy"]]

\* One function of a pair in mapping1, the other one in mapping2.
PcCollision(accesses) ==
  [i \in 1..(MaxBits - MinBits + 1) |->
     InTwo(Base, accesses, CollidingBits(get_maccess_functions(MinBits + i - 1)))]

LessThanLine ==
  <<Loop(Experiment(LineSize \div 4, 4, 0)), Loop(Experiment(LineSize, 1, 0))>>

\* Each of the strides with random offsets and without.
RandomStride(i) == <<-1, -3, 1, 3>>[(i + 1) \div 2] * LineSize
RandomOffset ==
  [i \in 1..8 |->
     [Loop(Experiment(RandomStride(i), RandomSteps, FirstAccess(RandomStride(i))))
        EXCEPT !.random = (i % 2 = 1)]]

\* Faulty variant of CrossPage: the next access is still on the page.
CrossPageEarly == <<Loop(Experiment(Stride, Steps, PageLines * LineSize - (Steps + 1) * Stride))>>

\* The last access is the last stride of the page.
CrossPage == <<Loop(Experiment(Stride, Steps, PageLines * LineSize - Steps * Stride))>>

Overview ==
  [i \in 1..(2 * (Doublings + 1) * MaxSteps) |->
     LET stride == TestedStride(((i - 1) \div MaxSteps) + 1)
     IN  Loop(Experiment(stride, ((i - 1) % MaxSteps) + 1, FirstAccess(stride)))]

LoadPrefCorr == [i \in 1..(CorrTo - CorrFrom + 1) |-> Loop(Experiment(CorrStride, CorrFrom + i - 1, 0))]

Direction ==
  [i \in {1, 2} |->
     LET stride == <<DirectionStride, -DirectionStride>>[i]
     IN  Loop(Experiment(stride, DirectionSteps, FirstAccess(stride)))]

\* One period with a single stride: delta is without effect.
Pattern ==
  [stride |-> PatternStride, step |-> 1, first |-> 0, delta |-> 1,
   gap1 |-> PatternGap, gap2 |-> 0, plus |-> 0]
TwoDSteps == <<[Loop(Pattern) EXCEPT !.variant = "2D"]>>

Experiments ==
  CASE test = "overview"                      -> Overview
    [] test = "load_pref_corr"                -> LoadPrefCorr
    [] test = "direction"                     -> Direction
    [] test = "2D_steps"                      -> TwoDSteps
    [] test = "same_pc_different_memory"      -> TwoMappings(Whole)
    [] test = "different_pc_different_memory" -> TwoMappings(0)
    [] test = "different_pc_same_memory"      -> DifferentPc
    [] test = "no_prefetches"                 -> NoPrefetches
    [] test = "min_max_stride"                -> MinMaxStride
    [] test = "pc_collision_1acc"             -> PcCollision(1)
    [] test = "pc_collision_2acc"             -> PcCollision(2)
    [] test = "stride_less_than_cl_size"      -> LessThanLine
    [] test = "random_offset_within_cl"       -> RandomOffset
    [] test = "cross_page_boundary"           -> CrossPage

\* How an experiment is run on a machine with this prefetcher.
OnMachine(s) ==
  [exp |-> s.exp, variant |-> s.variant, tail |-> s.tail,
   hw |-> IF Follows(kind, s) THEN "stride" ELSE "off"]

------------------------------------------------------------------------------
\* What each test concludes

Count(i) == Cardinality(vectors[i])
Counts == {Count(i) : i \in DOMAIN vectors}
Smallest(S) == IF S = {} THEN 0 ELSE CHOOSE x \in S : \A y \in S : x <= y
Largest(S) == IF S = {} THEN 0 ELSE CHOOSE x \in S : \A y \in S : x >= y

\* More than as many accesses alone trigger.
TwoMappingsResult == [after_1_access |-> Count(1) > Count(3), after_2_accesses |-> Count(2) > Count(4)]

NoPrefetchesResult ==
  [min |-> Smallest(Counts), min_nonzero |-> Smallest(Counts \ {0}), max |-> Largest(Counts)]

\* Faulty variant of MinMaxStrideResult: the signs are not told apart.
MinMaxStrideResultUnsigned ==
  LET strides == {TestedStride(i) : i \in {n \in DOMAIN vectors : Count(n) > 0}}
  IN  [min_positive |-> Smallest(strides), max_positive |-> Largest(strides),
       min_negative |-> Largest(strides), max_negative |-> Smallest(strides)]

\* 0 where there is no prefetch in a direction.
MinMaxStrideResult ==
  LET strides == {TestedStride(i) : i \in {n \in DOMAIN vectors : Count(n) > 0}}
      positive == {s \in strides : s > 0}
      negative == {s \in strides : s < 0}
  IN  [min_positive |-> Smallest(positive), max_positive |-> Largest(positive),
       min_negative |-> Largest(negative), max_negative |-> Smallest(negative)]

\* Faulty variant of PcCollisionResult: the last experiment with prefetches.
PcCollisionResultLast ==
  LET found == {MinBits + i - 1 : i \in {n \in DOMAIN vectors : Count(n) > 0}}
  IN  [collision_found |-> found # {}, min_colliding_bits |-> IF found = {} THEN -1 ELSE Largest(found)]

PcCollisionResult ==
  LET found == {MinBits + i - 1 : i \in {n \in DOMAIN vectors : Count(n) > 0}}
  IN  [collision_found |-> found # {}, min_colliding_bits |-> IF found = {} THEN -1 ELSE Smallest(found)]

LessThanLineResult ==
  [stride_less_than_cl_size |->
     CASE Count(1) = 0 /\ Count(2) = 0 -> "no effect"
       [] Count(1) > 0 /\ Count(2) = 0 -> "triggers prefetch"
       [] OTHER -> "inconclusive result"]

\* Both counts are those of the random offsets (testcase_stride.hh:1164-1165).
RandomOffsetResult ==
  [offset_within_cl_irrelevant |-> [i \in {1, 3, 5, 7} |-> Count(i) > 0 /\ Count(i) > 0]]

\* compute_diff_factors(): lines found by an experiment and not by the one with
\* an access less, in strides from the last access.
compute_diff_factors(previous, i) ==
  {CQuotient(l * LineSize - LastAccess(Experiments[i]), Experiments[i].exp.stride) :
     l \in vectors[i] \ previous}

\* Each stride starts from an empty vector.
OverviewResult ==
  [i \in DOMAIN vectors |->
     compute_diff_factors(IF Experiments[i].exp.step = 1 THEN {} ELSE vectors[i - 1], i)]

LoadPrefCorrResult ==
  LET counts == {Cardinality(compute_diff_factors(vectors[i - 1], i)) : i \in (DOMAIN vectors) \ {1}}
  IN  [count_min |-> Smallest(counts), count_max |-> Largest(counts)]

Result ==
  CASE test = "overview"                      -> [diff_factors |-> OverviewResult]
    [] test = "load_pref_corr"                -> LoadPrefCorrResult
    [] test = "direction" ->
         [positive_direction |-> Count(1) > 0, negative_direction |-> Count(2) > 0]
    [] test = "2D_steps"                      -> [num_pf |-> Count(1)]
    [] test \in {"same_pc_different_memory", "different_pc_different_memory"} -> TwoMappingsResult
    [] test = "different_pc_same_memory"      -> [triggers_prefetch |-> Count(1) # 0]
    [] test = "no_prefetches"                 -> NoPrefetchesResult
    [] test = "min_max_stride"                -> MinMaxStrideResult
    [] test \in {"pc_collision_1acc", "pc_collision_2acc"} -> PcCollisionResult
    [] test = "stride_less_than_cl_size"      -> LessThanLineResult
    [] test = "random_offset_within_cl"       -> RandomOffsetResult
    [] test = "cross_page_boundary"           -> [cross_page_boundary |-> Count(1) > 0]

------------------------------------------------------------------------------
NoResult == [status |-> "none"]

\* The test's first experiment, or a single one.
TestInit ==
  /\ vectors = <<>>
  /\ result = NoResult
  /\ kind \in Kinds
  /\ \/ test = "single" /\ kind = (CHOOSE k \in Kinds : TRUE) /\ Init
     \/ /\ test \in Tests
        /\ exp = OnMachine(Experiments[1]).exp /\ variant = OnMachine(Experiments[1]).variant
        /\ tail = OnMachine(Experiments[1]).tail /\ hw = OnMachine(Experiments[1]).hw
        /\ pc = "assert" /\ rep = 0
        /\ cache = {} /\ fetched = {}
        /\ hist = [i \in Entries |-> 0]
        /\ vector = {}

RunExperiment == Step /\ UNCHANGED testVars

NextExperiment ==
  /\ test # "single" /\ pc = "done" /\ Len(vectors) + 1 < Len(Experiments)
  /\ vectors' = Append(vectors, vector)
  /\ Begin(OnMachine(Experiments[Len(vectors) + 2]))
  /\ UNCHANGED <<test, kind, result>>

LastExperiment ==
  /\ test # "single" /\ pc = "done" /\ Len(vectors) + 1 = Len(Experiments)
  /\ vectors' = Append(vectors, vector)
  /\ pc' = "conclude"
  /\ UNCHANGED <<setup, rep, cache, fetched, hist, vector, test, kind, result>>

Conclude ==
  /\ pc = "conclude"
  /\ result' = Result
  /\ pc' = "concluded"
  /\ UNCHANGED <<setup, rep, cache, fetched, hist, vector, test, kind, vectors>>

TestEnded ==
  /\ pc \in {"concluded", "aborted"} \/ (test = "single" /\ pc = "done")
  /\ UNCHANGED allVars

TestNext == RunExperiment \/ NextExperiment \/ LastExperiment \/ Conclude \/ TestEnded

TestSpec == TestInit /\ [][TestNext]_allVars

------------------------------------------------------------------------------
\* Properties

\* What the tests rely on.  A prefetcher fetches something and looks at no more
\* bits than an address has; strides are a line or more; each test's mapping has
\* room for what follows the last access (5 to 262144 pages, see the calls of
\* allocate_mapping()), but for the one of test_load_pref_corr, which is smaller
\* than its longest experiment.  test_2D_steps has one page for its 128 strides of
\* 4 bytes, and its repetitions end behind them, where they are no multiple of
\* the page: all the bytes it looks at are probed equally often.
ASSUME RoomAssumption ==
  /\ Degree # 0 /\ \A k \in Kinds : k.bits <= Whole
  /\ LineSize <= Stride /\ Steps * Stride < Size
  /\ "no_prefetches" \in Tests => (MaxSteps - 1 + Degree) * Stride < Size
  /\ "overview" \in Tests => (MaxSteps - 1 + Degree) * 2 ^ Doublings < Lines
  /\ "min_max_stride" \in Tests => Steps * 2 ^ Doublings < Lines
  /\ "direction" \in Tests =>
       LineSize <= DirectionStride /\ DirectionSteps * DirectionStride < Size - LineSize
  /\ "stride_less_than_cl_size" \in Tests => LineSize % 4 = 0 /\ 1 < PageLines /\ 1 < Lines
  /\ "random_offset_within_cl" \in Tests => 3 * RandomSteps < PageLines /\ Lines % PageLines = 0
  /\ "cross_page_boundary" \in Tests => PageLines < Lines
  /\ "load_pref_corr" \in Tests => Size <= CorrStride * (CorrTo - 1)
  /\ "2D_steps" \in Tests =>
       /\ LineSize % PatternStride = 0 /\ (PatternGap * PatternStride) % LineSize = 0
       /\ PatternGap * PatternStride + LineSize <= Size
       /\ IdentifyReps % Size = 0 \/ PatternGap * PatternStride + LineSize <= IdentifyReps % Size

\* Does the prefetcher follow the stride of the base experiment at all?
FollowsBase == Follows(kind, Loop(Base))

\* The tests tell a prefetcher that takes instructions, memory areas or both
\* apart from one that does not, and by how many bits of the instruction's
\* address.  What two accesses trigger by themselves is no evidence: the first
\* three tests subtract it, test_pc_collision has no baseline and tells nothing
\* of a prefetcher that two accesses suffice for.
SharingTold ==
  pc = "concluded" /\ FollowsBase =>
    /\ test = "same_pc_different_memory" =>
         /\ result.after_1_access = (~kind.area /\ kind.resume <= 1)
         /\ result.after_2_accesses = (~kind.area /\ kind.resume <= 2 /\ kind.confirm > 2)
    /\ test = "different_pc_same_memory" => result.triggers_prefetch = (kind.bits = 0)
    /\ test = "different_pc_different_memory" =>
         /\ result.after_1_access = (~kind.area /\ kind.bits = 0 /\ kind.resume <= 1)
         /\ result.after_2_accesses =
              (~kind.area /\ kind.bits = 0 /\ kind.resume <= 2 /\ kind.confirm > 2)
    /\ \A accesses \in {1, 2} :
         /\ test = <<"pc_collision_1acc", "pc_collision_2acc">>[accesses]
         /\ kind.confirm > accesses
         => result.min_colliding_bits =
              IF kind.area \/ kind.resume > accesses \/ kind.bits > MaxBits THEN -1
              ELSE Largest({kind.bits, MinBits})

\* The numbers of prefetches, their distances and the range of the strides that
\* are reported are the prefetcher's, for both directions, where the mapping is
\* not too small.  The distances that test_overview finds new are all of the
\* Degree strides that the prefetcher reads ahead when it starts, and then the
\* farthest one.
RangeTold ==
  LET followed == {2 ^ i : i \in 0..Doublings} \intersect kind.strides
      follows(n) == Follows(kind, Experiments[n])
  IN  pc = "concluded" =>
        /\ test = "no_prefetches" /\ FollowsBase /\ kind.confirm <= MaxSteps =>
             /\ result.max = Degree /\ result.min_nonzero = Degree
             /\ result.min =
                  IF kind.confirm = 2 /\ (kind.crosses \/ MaxSteps * Stride < PageLines * LineSize)
                  THEN Degree ELSE 0
        /\ test = "overview" =>
             \A i \in DOMAIN vectors :
               result.diff_factors[i] =
                 IF ~follows(i) THEN {}
                 ELSE IF Experiments[i].exp.step > 1 /\ follows(i - 1) THEN {Degree} ELSE 1..Degree
        /\ test = "min_max_stride" /\ kind.crosses /\ kind.confirm <= Steps =>
             /\ result.min_positive = Smallest(followed) * LineSize
             /\ result.max_positive = Largest(followed) * LineSize
             /\ result.min_negative = -result.min_positive
             /\ result.max_negative = -result.max_positive

\* The directions, strides below a line, offsets that vary within a line and the
\* end of a page are told as what they are to the prefetcher.  Nothing is said of
\* what test_2D_steps logs: its workload accesses the bytes that it counts.
LimitsTold ==
  pc = "concluded" =>
    /\ test = "direction" =>
         /\ result.positive_direction = Follows(kind, Direction[1])
         /\ result.negative_direction = Follows(kind, Direction[2])
    /\ test = "stride_less_than_cl_size" =>
         result.stride_less_than_cl_size =
           IF kind.bytes /\ kind.confirm <= 4 THEN "triggers prefetch" ELSE "no effect"
    /\ test = "random_offset_within_cl" =>
         \A i \in {1, 3, 5, 7} :
           result.offset_within_cl_irrelevant[i] =
             /\ ~kind.bytes /\ kind.confirm <= RandomSteps
             /\ Magnitude(RandomStride(i)) \div LineSize \in kind.strides
    /\ test = "cross_page_boundary" =>
         result.cross_page_boundary = (Follows([kind EXCEPT !.crosses = TRUE], Loop(Base)) /\ kind.crosses)
==============================================================================
