----------------------------- MODULE MCProbing -----------------------------
(***************************************************************************)
(* The stream, temporal and data-correlated replay experiments with small  *)
(* mappings.                                                               *)
(***************************************************************************)
EXTENDS StreamExperiment, TemporalExperiment, DCReplayExperiment

\* The training_offsets of testcase_dcreplay.hh, in cache lines.
ReplaySequence == <<1, 5, 15, 23, 31, 32, 44, 50>>

Init == StreamInit \/ TemporalInit \/ ReplayInit

Ended == pc = "done" /\ UNCHANGED vars

Next == Flush \/ Normalize \/ StreamNext \/ TemporalNext \/ ReplayNext \/ Ended

Spec == Init /\ [][Next]_vars
==============================================================================
