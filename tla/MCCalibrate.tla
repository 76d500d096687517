---------------------------- MODULE MCCalibrate ----------------------------
(***************************************************************************)
(* Calibration on a machine with hits of about 10 cycles and misses of     *)
(* about 30, with and without each option.                                 *)
(***************************************************************************)
EXTENDS Calibrate

\* The values of -s, and none.
SleepOptions == {-1, 0, 1}
==============================================================================
