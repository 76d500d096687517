-------------------------------- MODULE Clock --------------------------------
(***************************************************************************)
(* What a counter-thread build promises about its timing source            *)
(* (ctr_thread_start, ctr_thread_stop and the readers of ctr_thread_ctr):  *)
(* a number that counts up, one at a time, and only while the clock is on. *)
(***************************************************************************)
EXTENDS Naturals

CONSTANT MaxCtr   (* stands for every later value of the counter *)

VARIABLES on, time

\* The next value of the counter.
Bump(v) == IF v < MaxCtr THEN v + 1 ELSE v

Init == on = FALSE /\ time = 0

Begin == ~on /\ on' = TRUE /\ time' = time

Tick == on /\ on' = on /\ time' = Bump(time)

End == on /\ on' = FALSE /\ time' = time

Next == Begin \/ Tick \/ End

Spec == Init /\ [][Next]_<<on, time>>
==============================================================================
