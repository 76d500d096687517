----------------------------- MODULE AccessOrder -----------------------------
(***************************************************************************)
(* The pseudo-random order in which test_region_boundary and test_direction*)
(* of the SMS testcase access a region (testcase_sms.hh:377-400, 484-511): *)
(* distinct lines are drawn until the region is full, and then the order   *)
(* is shuffled until a scan has seen no stride in it.                      *)
(*                                                                         *)
(* A line is given by its distance from the region's first line, as only   *)
(* the differences of lines matter.                                        *)
(***************************************************************************)
EXTENDS Integers, SequencesExt

CONSTANT RegionSize   (* region_size: 5 in the first experiment *)

ASSUME RegionAssumption == RegionSize \in Nat \ {0, 1}

VARIABLES
  order,   (* training_offsets                                               *)
  i,       (* index of the scan; 0 until it begins                           *)
  repaired (* history: has the order been shuffled?                          *)

orderVars == <<order, i, repaired>>

Distances == 0..RegionSize

\* The first access is given.
OrderInit == order = <<0>> /\ i = 0 /\ repaired = FALSE

\* A distance that is in the list already is drawn again.
Draw ==
  /\ Len(order) <= RegionSize
  /\ \E distance \in Distances \ ToSet(order) : order' = Append(order, distance)
  /\ i' = IF Len(order) = RegionSize THEN 2 ELSE 0
  /\ UNCHANGED repaired

\* Do the accesses n - 2, n - 1 and n, counted from 0, form a stride?
IsStride(n) == order[n] - order[n - 1] = order[n + 1] - order[n]

Scanning == i >= 2 /\ i < Len(order)

Pass ==
  /\ Scanning /\ ~IsStride(i)
  /\ i' = i + 1
  /\ UNCHANGED <<order, repaired>>

\* std::shuffle(): all of the list or all but the first access.
Shuffled(keepFirst) ==
  {[n \in DOMAIN order |-> order[p[n]]] :
     p \in {q \in Bijection(DOMAIN order, DOMAIN order) : keepFirst => q[1] = 1}}

\* Faulty variant of Repair: the scan is not begun again.
RepairAndGoOn(keepFirst) ==
  /\ Scanning /\ IsStride(i)
  /\ order' \in Shuffled(keepFirst)
  /\ i' = i + 1
  /\ repaired' = TRUE

\* i = 2, which the loop increments before it looks again.
Repair(keepFirst) ==
  /\ Scanning /\ IsStride(i)
  /\ order' \in Shuffled(keepFirst)
  /\ i' = 3
  /\ repaired' = TRUE

OrderDone == Len(order) > RegionSize /\ i >= Len(order)
==============================================================================
