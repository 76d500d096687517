------------------------------ MODULE MCHarness ------------------------------
(***************************************************************************)
(* Values of Harness' constants for TLC.  The testcases are numbered in    *)
(* the order of main(): adjacent, stride, stream, sms, temporal, dcreplay, *)
(* parr, pchase.  Prefetchers are numbered in the order of the pre_tests:  *)
(* L2_HW, L2_ADJACENT_CL, DCU, DCU_IP.                                     *)
(***************************************************************************)
EXTENDS Harness

\* All eight testcases on Intel.
IntelEnabled == <<{1, 2}, {4}, {1}, {}, {}, {}, 1..4, 1..4>>

\* sms plots in identify(), stride and sms in characterize() (two plots stand
\* for the many); parr and pchase fork the external program, then a plot.
AllIdentifyForks == <<0, 0, 0, 2, 0, 0, 2, 2>>
AllCharacterizeForks == <<0, 2, 0, 2, 0, 0, 0, 0>>

\* Stride and sms do not survive their characterization (Dies in the cfgs).

\* Three testcases: stride, parr, sms.  Measurements follow the external
\* program, and every kind of fork occurs.  One prefetcher, which stride and sms
\* disable and parr enables.
CopiesEnabled == <<{}, {1}, {}>>
ShortIdentifyForks == <<0, 2, 1>>
ShortCharacterizeForks == <<1, 0, 1>>
==============================================================================
