---------------------------- MODULE PointerArray ----------------------------
(***************************************************************************)
(* The external program of the parr testcase (parr.c and its assembly):    *)
(* run_experiment(), run_pc_experiment() and run_pc_align_experiment(),    *)
(* with setup_pointers().  A training loop follows the first pointers of   *)
(* an array; then one pointer is measured that nobody followed, either a   *)
(* later one of the array or, as the reference, one that is not in it.     *)
(*                                                                         *)
(* Places are numbered by the entries of the target array; the cache is    *)
(* the set of places that hit.  Prefetchers and the pseudo-random numbers  *)
(* are the environment's choice.                                           *)
(***************************************************************************)
EXTENDS Integers

CONSTANTS
  Experiments,   (* experiments of main()                                   *)
  Repeat,        (* measurements of each kind                               *)
  PageEntries,   (* entries of the target array in a page: 32               *)
  Hardware,      (* prefetchers: "off", "next"                              *)
  Unmapped       (* the page behind the target array is not mapped          *)

\* An experiment has parr and tarr entries, trains with iters pointers from
\* index start on in steps of inc, measures the pointer at index measure, and
\* may blind its pointers.
IsExperiment(e) ==
  /\ e.parr \in Nat \ {0} /\ e.tarr \in Nat \ {0} /\ e.iters \in Nat
  /\ e.inc \in {-1, 1}
  /\ e.start \in 0..(e.parr - 1)
  /\ e.measure \in 0..(e.parr - 1)
  /\ \A i \in 0..(e.iters - 1) : e.start + e.inc * i \in (0..(e.parr - 1)) \ {e.measure}
  /\ e.blind \in BOOLEAN

ASSUME PointerArrayAssumption ==
  /\ \A e \in Experiments : IsExperiment(e)
  /\ Repeat \in Nat \ {0} /\ PageEntries \in Nat \ {0}
  /\ Hardware \subseteq {"off", "next"}
  /\ Unmapped \in BOOLEAN

VARIABLES
  exp, hw,    (* the experiment and the prefetcher of the machine            *)
  pc,         (* where the program is                                        *)
  r,          (* repetition; the odd ones measure, the even ones refer       *)
  i,          (* pointers that are set up                                    *)
  used,       (* entries of the target array that are already used           *)
  parr,       (* the pointer array: the entry that each one points to        *)
  target,     (* blind_measure: the entry that is measured                   *)
  cached,     (* entries in the cache                                        *)
  fetched,    (* entries that the prefetcher brought there                   *)
  hits        (* measurements and references that hit                        *)

setup == <<exp, hw>>
vars == <<setup, pc, r, i, used, parr, target, cached, fetched, hits>>

Indices == 0..(exp.parr - 1)
Entries == 0..(exp.tarr - 1)
Measuring == r % 2 = 1

\* Indices that the training loop follows.
Trained == {exp.start + exp.inc * n : n \in 0..(exp.iters - 1)}

\* The index that comes after them.
NextIndex == exp.start + exp.inc * exp.iters

Init ==
  /\ exp \in Experiments
  /\ hw \in Hardware
  /\ pc = "check"
  /\ r = 0 /\ i = 0
  /\ used = {}
  /\ parr = [k \in Indices |-> 0]
  /\ target = 0
  /\ cached = {} /\ fetched = {}
  /\ hits = [kind \in {"measure", "ref"} |-> 0]

------------------------------------------------------------------------------
\* setup_pointers()

\* memset() of the array; exit(1) when it is too big; calloc() of `used`.  The
\* check lets two sizes pass that leave no entry for the reference (tarr = parr
\* and tarr = parr - 1): PickAgain is then all that is left to do.
CheckSizes ==
  /\ pc = "check"
  /\ pc' = IF exp.tarr + 1 < exp.parr THEN "rejected" ELSE "reference"
  /\ parr' = [k \in Indices |-> 0]
  /\ used' = {}
  /\ UNCHANGED <<setup, r, i, target, cached, fetched, hits>>

\* The reference is an entry that no pointer of the array points to.
PickReference ==
  /\ pc = "reference"
  /\ \E idx \in Entries : used' = used \union {idx} /\ target' = idx
  /\ i' = 0
  /\ pc' = "fill"
  /\ UNCHANGED <<setup, r, parr, cached, fetched, hits>>

\* The loop ends with an entry that is not used.
PickEntry ==
  /\ pc = "fill" /\ i < exp.parr
  /\ \E idx \in Entries \ used :
       /\ parr' = [parr EXCEPT ![i] = idx]
       /\ used' = used \union {idx}
  /\ i' = i + 1
  /\ UNCHANGED <<setup, pc, r, target, cached, fetched, hits>>

\* It goes on with one that is.
PickAgain ==
  /\ pc = "fill" /\ i < exp.parr
  /\ used # {}
  /\ UNCHANGED vars

\* Faulty variant of Select: the index one further on.
SelectOff ==
  /\ pc = "fill" /\ i = exp.parr
  /\ target' = IF Measuring THEN parr[(exp.measure + 1) % exp.parr] ELSE target
  /\ pc' = "flush"
  /\ UNCHANGED <<setup, r, i, used, parr, cached, fetched, hits>>

\* The odd repetitions measure a pointer of the array instead of the reference.
Select ==
  /\ pc = "fill" /\ i = exp.parr
  /\ target' = IF Measuring THEN parr[exp.measure] ELSE target
  /\ pc' = "flush"
  /\ UNCHANGED <<setup, r, i, used, parr, cached, fetched, hits>>

------------------------------------------------------------------------------
\* run_experiment()

\* Entries that lie at the beginning of a page.
PageHeads == {e \in Entries : e % PageEntries = 0}

\* Faulty variant of FlushAndTouch: thrash_cache() is left out.
FlushForgotten ==
  /\ pc = "flush"
  /\ \/ cached' = cached \union PageHeads /\ pc' = "train"
     \/ Unmapped /\ pc' = "segv" /\ UNCHANGED cached
  /\ fetched' = {}
  /\ UNCHANGED <<setup, r, i, used, parr, target, hits>>

\* thrash_cache() and access_pages(), which loads the first word of each page
\* of the target array and of the page behind it.
FlushAndTouch ==
  /\ pc = "flush"
  /\ \/ cached' = PageHeads /\ pc' = "train"
     \/ Unmapped /\ pc' = "segv" /\ cached' = {}
  /\ fetched' = {}
  /\ UNCHANGED <<setup, r, i, used, parr, target, hits>>

\* pchase(), test_pc(), test_pc_align(): a prefetcher that recognises pointers
\* in the array may fetch what the next one points to, unless it is blinded.
Train ==
  /\ pc = "train"
  /\ fetched' = IF hw = "next" /\ ~exp.blind /\ NextIndex \in Indices THEN {parr[NextIndex]} ELSE {}
  /\ cached' = cached \union {parr[k] : k \in Trained} \union fetched'
  /\ pc' = "measure"
  /\ UNCHANGED <<setup, r, i, used, parr, target, hits>>

\* The time of one load goes to measure_out or ref_out.
Measure ==
  /\ pc = "measure"
  /\ hits' = [hits EXCEPT ![IF Measuring THEN "measure" ELSE "ref"] =
                            @ + IF target \in cached THEN 1 ELSE 0]
  /\ r' = r + 1
  /\ pc' = IF r + 1 = 2 * Repeat THEN "done" ELSE "check"
  /\ UNCHANGED <<setup, i, used, parr, target, cached, fetched>>

Ended == pc \in {"rejected", "segv", "done"} /\ UNCHANGED vars

Next ==
  \/ CheckSizes \/ PickReference \/ PickEntry \/ PickAgain \/ Select
  \/ FlushAndTouch \/ Train \/ Measure \/ Ended

Spec == Init /\ [][Next]_vars

------------------------------------------------------------------------------
\* Properties

\* A measurement hits only where the prefetcher fetched, or at the beginning of
\* a page: the training loop never touches what is measured, the pointers all
\* differ, and nothing is left of the repetition before.  The loop is the one of
\* the assembly, which ends in front of pointer number `iters`; the pseudocode
\* over it (parr.c:35, :50: "i <= iters") would follow that one, too, which is
\* the pointer that most experiments measure.
HitMeansPrefetched ==
  pc = "measure" /\ target \in cached => target \in fetched \union PageHeads

\* A prefetcher that follows the next pointer shows in every measurement of an
\* experiment that measures the next pointer.
PrefetcherFound ==
  hw = "next" /\ ~exp.blind /\ exp.measure = NextIndex => hits["measure"] = r \div 2
==============================================================================
