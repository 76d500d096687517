------------------------- MODULE PointerArrayProofs -------------------------
(***************************************************************************)
(* For every size of the arrays, what is measured hits only because of the *)
(* prefetcher or of its place in a page.                                   *)
(***************************************************************************)
EXTENDS PointerArray, TLAPS

\* The types; of the hits only that they are numbers.
TypeInv ==
  /\ exp \in Experiments /\ hw \in Hardware
  /\ pc \in {"check", "reference", "fill", "flush", "train", "measure", "rejected", "segv",
             "done"}
  /\ r \in Nat /\ i \in 0..exp.parr
  /\ used \subseteq Entries
  /\ parr \in [Indices -> Entries]
  /\ target \in Entries
  /\ cached \subseteq Entries /\ fetched \subseteq Entries
  /\ hits \in [{"measure", "ref"} -> Nat]

\* While the array is filled, the entries that are used are the reference and
\* those that the pointers set up so far point to, each of them once.
FillInv ==
  /\ pc = "reference" => used = {}
  /\ pc = "fill" =>
       /\ target \in used
       /\ \A k \in 0..(i - 1) : parr[k] \in used \ {target}
       /\ \A k, l \in 0..(i - 1) : parr[k] = parr[l] => k = l

\* What is measured is none of the entries that the training follows.
ApartInv ==
  pc \in {"flush", "train", "measure"} => \A k \in Trained : parr[k] # target

\* What is cached when the training begins and when it has ended.
CacheInv ==
  /\ pc = "train" => cached = PageHeads
  /\ pc = "measure" => cached = PageHeads \union {parr[k] : k \in Trained} \union fetched

\* The measurements that have been made have all hit, if they should.
FoundInv ==
  hw = "next" /\ ~exp.blind /\ exp.measure = NextIndex =>
    /\ hits["measure"] = r \div 2
    /\ pc \in {"flush", "train", "measure"} /\ Measuring => target = parr[NextIndex]
    /\ pc = "measure" => parr[NextIndex] \in cached

Inv == TypeInv /\ FillInv /\ ApartInv /\ CacheInv /\ FoundInv

------------------------------------------------------------------------------
\* What IsExperiment says of the experiment that runs.
LEMMA ExperimentType ==
  ASSUME TypeInv
  PROVE  /\ IsExperiment(exp)
         /\ exp.parr \in Nat \ {0} /\ exp.tarr \in Nat \ {0}
         /\ exp.measure \in Indices
         /\ Trained \subseteq Indices /\ exp.measure \notin Trained
         /\ NextIndex \in Int
<1>1. IsExperiment(exp)
  BY PointerArrayAssumption DEF TypeInv
<1> QED BY <1>1 DEF IsExperiment, Trained, Indices, NextIndex

LEMMA InitInv == Init => Inv
<1> SUFFICES ASSUME Init PROVE Inv
  OBVIOUS
<1>1. IsExperiment(exp)
  BY PointerArrayAssumption DEF Init
<1>2. TypeInv
  BY <1>1 DEF Init, TypeInv, Indices, Entries, IsExperiment
<1>3. FillInv /\ ApartInv /\ CacheInv /\ FoundInv
  BY DEF Init, FillInv, ApartInv, CacheInv, FoundInv
<1> QED BY <1>2, <1>3 DEF Inv

\* One more used entry.
LEMMA PickKeeps == Inv /\ PickEntry => Inv'
<1> SUFFICES ASSUME Inv, PickEntry PROVE Inv'
  OBVIOUS
<1> USE DEF Inv
<1> PICK idx \in Entries \ used :
      parr' = [parr EXCEPT ![i] = idx] /\ used' = used \union {idx}
  BY DEF PickEntry
<1>1. /\ pc = "fill" /\ pc' = "fill" /\ i < exp.parr /\ i' = i + 1
      /\ UNCHANGED <<exp, hw, r, target, cached, fetched, hits>>
  BY DEF PickEntry, setup
<1>2. i \in Indices /\ i \in Nat
  BY <1>1, ExperimentType DEF TypeInv, Indices
<1>3. TypeInv'
  <2>1. parr' \in [Indices -> Entries] /\ used' \subseteq Entries
    BY DEF TypeInv
  <2>2. exp.parr \in Nat /\ i' \in 0..exp.parr
    BY <1>1, <1>2, ExperimentType
  <2>3. Indices' = Indices /\ Entries' = Entries
    BY <1>1 DEF Indices, Entries
  <2> QED BY <1>1, <2>1, <2>2, <2>3 DEF TypeInv
<1>4. \A k \in 0..(i - 1) : parr'[k] = parr[k] /\ k \in Indices
  BY <1>1, <1>2, ExperimentType DEF TypeInv, Indices
<1>5. parr'[i] = idx /\ idx # target
  BY <1>1, <1>2 DEF TypeInv, FillInv
<1>6. \A k \in 0..(i' - 1) : k \in 0..(i - 1) \/ k = i
  BY <1>1, <1>2
<1>7. \A k \in 0..(i' - 1) : parr'[k] \in used' \ {target'}
  BY <1>1, <1>4, <1>5, <1>6 DEF FillInv
<1>8. \A k, l \in 0..(i' - 1) : parr'[k] = parr'[l] => k = l
  BY <1>1, <1>4, <1>5, <1>6 DEF FillInv
<1>9. FillInv'
  BY <1>1, <1>7, <1>8 DEF FillInv
<1>10. ApartInv' /\ CacheInv' /\ FoundInv'
  BY <1>1 DEF ApartInv, CacheInv, FoundInv, NextIndex
<1> QED BY <1>3, <1>9, <1>10

LEMMA SelectKeeps == Inv /\ Select => Inv'
<1> SUFFICES ASSUME Inv, Select PROVE Inv'
  OBVIOUS
<1> USE DEF Inv
<1>1. /\ pc = "fill" /\ pc' = "flush" /\ i = exp.parr
      /\ UNCHANGED <<exp, hw, r, i, used, parr, cached, fetched, hits>>
      /\ target' = IF Measuring THEN parr[exp.measure] ELSE target
  BY DEF Select, setup
<1>2. 0..(i - 1) = Indices
  BY <1>1 DEF Indices
<1>3. TypeInv'
  BY <1>1, ExperimentType DEF TypeInv, Indices, Entries
<1>4. ApartInv'
  BY <1>1, <1>2, ExperimentType DEF ApartInv, FillInv, Trained
<1>5. FillInv' /\ CacheInv'
  BY <1>1 DEF FillInv, CacheInv
<1>6. FoundInv'
  BY <1>1 DEF FoundInv, NextIndex, Measuring
<1> QED BY <1>3, <1>4, <1>5, <1>6

LEMMA TrainKeeps == Inv /\ Train => Inv'
<1> SUFFICES ASSUME Inv, Train PROVE Inv'
  OBVIOUS
<1> USE DEF Inv
<1>1. /\ pc = "train" /\ pc' = "measure"
      /\ UNCHANGED <<exp, hw, r, i, used, parr, target, hits>>
      /\ cached' = cached \union {parr[k] : k \in Trained} \union fetched'
      /\ fetched' = IF hw = "next" /\ ~exp.blind /\ NextIndex \in Indices
                    THEN {parr[NextIndex]} ELSE {}
  BY DEF Train, setup
<1>2. fetched' \subseteq Entries
  BY <1>1 DEF TypeInv
<1>3. {parr[k] : k \in Trained} \subseteq Entries
  BY ExperimentType DEF TypeInv
<1>4. TypeInv'
  BY <1>1, <1>2, <1>3 DEF TypeInv, Indices, Entries
<1>5. FillInv' /\ ApartInv'
  BY <1>1 DEF FillInv, ApartInv, Trained
<1>6. CacheInv'
  BY <1>1 DEF CacheInv, Trained, PageHeads, Entries
<1>7. FoundInv'
  BY <1>1, ExperimentType DEF FoundInv, NextIndex, Measuring
<1> QED BY <1>4, <1>5, <1>6, <1>7

LEMMA MeasureKeeps == Inv /\ Measure => Inv'
<1> SUFFICES ASSUME Inv, Measure PROVE Inv'
  OBVIOUS
<1> USE DEF Inv
<1>1. /\ pc = "measure" /\ pc' \in {"done", "check"} /\ r' = r + 1
      /\ UNCHANGED <<exp, hw, i, used, parr, target, cached, fetched>>
      /\ hits' = [hits EXCEPT ![IF Measuring THEN "measure" ELSE "ref"] =
                                @ + IF target \in cached THEN 1 ELSE 0]
  BY DEF Measure, setup
<1>2. hits' \in [{"measure", "ref"} -> Nat]
  BY <1>1 DEF TypeInv
<1>3. TypeInv'
  BY <1>1, <1>2 DEF TypeInv, Indices, Entries
<1>4. FillInv' /\ ApartInv' /\ CacheInv'
  BY <1>1 DEF FillInv, ApartInv, CacheInv
<1>5. FoundInv'
  <2> SUFFICES ASSUME hw = "next", ~exp.blind, exp.measure = NextIndex
               PROVE  hits'["measure"] = r' \div 2
    BY <1>1 DEF FoundInv, NextIndex
  <2>1. hits["measure"] = r \div 2 /\ r \in Nat
    BY DEF FoundInv, TypeInv
  <2>2. CASE Measuring
    <3>1. target \in cached
      BY <1>1, <2>2 DEF FoundInv
    <3>2. hits'["measure"] = hits["measure"] + 1
      BY <1>1, <2>2, <3>1 DEF TypeInv
    <3>3. (r + 1) \div 2 = r \div 2 + 1
      BY <2>1, <2>2 DEF Measuring
    <3> QED BY <1>1, <2>1, <3>2, <3>3
  <2>3. CASE ~Measuring
    <3>1. hits'["measure"] = hits["measure"]
      BY <1>1, <2>3 DEF TypeInv
    <3>2. (r + 1) \div 2 = r \div 2
      BY <2>1, <2>3 DEF Measuring
    <3> QED BY <1>1, <2>1, <3>1, <3>2
  <2> QED BY <2>2, <2>3
<1> QED BY <1>3, <1>4, <1>5

\* The invariant is inductive.
LEMMA StepInv == Inv /\ [Next]_vars => Inv'
<1> SUFFICES ASSUME Inv, [Next]_vars PROVE Inv'
  OBVIOUS
<1>1. CASE CheckSizes
  <2>1. [k \in Indices |-> 0] \in [Indices -> Entries]
    BY ExperimentType DEF Inv, Entries
  <2> QED BY <1>1, <2>1 DEF CheckSizes, setup, Inv, TypeInv, FillInv, ApartInv, CacheInv,
                FoundInv, Indices, Entries, NextIndex
<1>2. CASE PickReference
  <2> PICK idx \in Entries : used' = used \union {idx} /\ target' = idx
    BY <1>2 DEF PickReference
  <2>1. used' = {idx}
    BY <1>2 DEF PickReference, Inv, FillInv
  <2>2. TypeInv'
    <3>1. /\ i' = 0 /\ pc' = "fill" /\ target' = idx
          /\ UNCHANGED <<exp, hw, r, parr, cached, fetched, hits>>
      BY <1>2 DEF PickReference, setup
    <3>2. Indices' = Indices /\ Entries' = Entries
      BY <3>1 DEF Indices, Entries
    <3>3. exp.parr \in Nat /\ 0 \in 0..exp.parr
      BY ExperimentType DEF Inv
    <3> QED BY <2>1, <3>1, <3>2, <3>3 DEF Inv, TypeInv
  <2>3. FillInv'
    BY <1>2, <2>1 DEF PickReference, FillInv
  <2>4. ApartInv' /\ CacheInv' /\ FoundInv'
    BY <1>2 DEF PickReference, setup, Inv, ApartInv, CacheInv, FoundInv, NextIndex
  <2> QED BY <2>2, <2>3, <2>4 DEF Inv
<1>3. CASE PickEntry
  BY <1>3, PickKeeps
<1>4. CASE Select
  BY <1>4, SelectKeeps
<1>5. CASE FlushAndTouch
  <2>1. TypeInv'
    BY <1>5 DEF FlushAndTouch, setup, Inv, TypeInv, Indices, Entries, PageHeads
  <2> QED BY <1>5, <2>1 DEF FlushAndTouch, setup, Inv, FillInv, ApartInv, CacheInv, FoundInv,
                Trained, NextIndex, PageHeads, Entries, Measuring
<1>6. CASE Train
  BY <1>6, TrainKeeps
<1>7. CASE Measure
  BY <1>7, MeasureKeeps
<1>8. CASE UNCHANGED vars
  BY <1>8 DEF vars, setup, Inv, TypeInv, FillInv, ApartInv, CacheInv, FoundInv, Indices,
     Entries, Trained, NextIndex, PageHeads, Measuring
<1> QED BY <1>1, <1>2, <1>3, <1>4, <1>5, <1>6, <1>7, <1>8 DEF Next, PickAgain, Ended

\* A measurement hits only where the prefetcher fetched or at the beginning of a
\* page (setup_pointers(), run_experiment()).
THEOREM HitsArePrefetches == Spec => []HitMeansPrefetched
<1>1. Inv => HitMeansPrefetched
  BY DEF Inv, ApartInv, CacheInv, HitMeansPrefetched
<1> QED BY <1>1, InitInv, StepInv, PTL DEF Spec

\* A prefetcher that follows the next pointer shows in every measurement of an
\* experiment that measures the next pointer.
THEOREM PrefetcherShows == Spec => []PrefetcherFound
<1>1. Inv => PrefetcherFound
  BY DEF Inv, FoundInv, PrefetcherFound
<1> QED BY <1>1, InitInv, StepInv, PTL DEF Spec
==============================================================================
