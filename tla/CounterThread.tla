---------------------------- MODULE CounterThread ----------------------------
(***************************************************************************)
(* The counter thread (counter_thread.cc): ctr_thread_start() and          *)
(* ctr_thread_stop(), called by the main thread through clock_init() and   *)
(* clock_teardown() in any order, interleaved with ctr_thread_worker().    *)
(* A step is one access to a variable that the two threads share.          *)
(***************************************************************************)
EXTENDS Naturals

CONSTANTS
  Workers,   (* threads that may be created, reused once joined           *)
  None,      (* a std::thread that is not joinable                        *)
  MaxCtr     (* stands for every later value of the counter               *)

ASSUME CounterAssumption ==
  /\ None \notin Workers
  /\ MaxCtr \in Nat \ {0}

VARIABLES
  aarch64,   (* the build: its loop is in assembly and does not re-load   *)
             (* the counter                                               *)
  mpc,       (* where the main thread is                   *)
  running,   (* ctr_thread_running                         *)
  ctr,       (* ctr_thread_ctr                             *)
  thread,    (* ctr_thread: the thread it can join         *)
  wpc,       (* where each worker is                       *)
  reg        (* its copy of the counter                    *)

counter_vars == <<aarch64, mpc, running, ctr, thread, wpc, reg>>

MainLocs == {"idle", "create", "spin", "join"}
WorkerLocs == {"unborn", "pin", "check", "load", "store", "gone"}

\* size_t arithmetic; the counter does not wrap around in any run of the
\* program, and MaxCtr stands for all values from MaxCtr on.
Bump(v) == IF v < MaxCtr THEN v + 1 ELSE v

CounterInit ==
  /\ aarch64 \in BOOLEAN
  /\ mpc = "idle"
  /\ running = FALSE
  /\ ctr = 0
  /\ thread = None
  /\ wpc = [w \in Workers |-> "unborn"]
  /\ reg = [w \in Workers |-> 0]

------------------------------------------------------------------------------
\* The main thread

\* ctr_thread_start(); it returns at once when the flag is set.
CallStart ==
  /\ mpc = "idle" /\ ~running
  /\ running' = TRUE
  /\ mpc' = "create"
  /\ UNCHANGED <<aarch64, ctr, thread, wpc, reg>>

\* ctr_thread = std::thread(...)
CreateThread ==
  /\ mpc = "create"
  /\ \E w \in Workers :
       /\ wpc[w] = "unborn"
       /\ wpc' = [wpc EXCEPT ![w] = "pin"]
       /\ thread' = w
  /\ mpc' = "spin"
  /\ UNCHANGED <<aarch64, running, ctr, reg>>

\* usleep() in the loop that waits for a counter other than 0.
Sleep == mpc = "spin" /\ ctr = 0 /\ UNCHANGED counter_vars

\* The wait loop ends; the counter keeps its value when the clock stops, so on
\* a restart the loop ends at once.
SpinDone ==
  /\ mpc = "spin" /\ ctr # 0
  /\ mpc' = "idle"
  /\ UNCHANGED <<aarch64, running, ctr, thread, wpc, reg>>

\* Faulty variants of CallStop: no join(), with the handle left as it is;
\* detach() instead of join().
CallStopNoJoin ==
  /\ mpc = "idle" /\ running
  /\ running' = FALSE
  /\ UNCHANGED <<aarch64, mpc, ctr, thread, wpc, reg>>
CallStopDetach ==
  /\ mpc = "idle" /\ running
  /\ running' = FALSE
  /\ thread' = None
  /\ UNCHANGED <<aarch64, mpc, ctr, wpc, reg>>

\* ctr_thread_stop(); it returns at once when the flag is not set.
CallStop ==
  /\ mpc = "idle" /\ running
  /\ running' = FALSE
  /\ mpc' = "join"
  /\ UNCHANGED <<aarch64, ctr, thread, wpc, reg>>

\* join() returns.
Join ==
  /\ mpc = "join" /\ wpc[thread] = "gone"
  /\ wpc' = [wpc EXCEPT ![thread] = "unborn"]
  /\ thread' = None
  /\ mpc' = "idle"
  /\ UNCHANGED <<aarch64, running, ctr, reg>>

------------------------------------------------------------------------------
\* ctr_thread_worker()

\* pin_process_to_cpu(); the assembly loop has no test of the flag before its
\* first increment.
WorkerPin(w) ==
  /\ wpc[w] = "pin"
  /\ wpc' = [wpc EXCEPT ![w] = IF aarch64 THEN "load" ELSE "check"]
  /\ UNCHANGED <<aarch64, mpc, running, ctr, thread, reg>>

\* Faulty variants of WorkerCheck: the flag inverted; the flag not looked at.
WorkerCheckInverted(w) ==
  /\ wpc[w] = "check"
  /\ wpc' = [wpc EXCEPT ![w] = IF running THEN "gone" ELSE IF aarch64 THEN "store" ELSE "load"]
  /\ UNCHANGED <<aarch64, mpc, running, ctr, thread, reg>>
WorkerCheckForever(w) ==
  /\ wpc[w] = "check"
  /\ wpc' = [wpc EXCEPT ![w] = IF aarch64 THEN "store" ELSE "load"]
  /\ UNCHANGED <<aarch64, mpc, running, ctr, thread, reg>>

\* The worker reads the run flag.
WorkerCheck(w) ==
  /\ wpc[w] = "check"
  /\ wpc' = [wpc EXCEPT ![w] = IF ~running THEN "gone" ELSE IF aarch64 THEN "store" ELSE "load"]
  /\ UNCHANGED <<aarch64, mpc, running, ctr, thread, reg>>

\* It reads the counter: ++ctr_thread_ctr does so each time, the assembly once.
WorkerLoad(w) ==
  /\ wpc[w] = "load"
  /\ reg' = [reg EXCEPT ![w] = ctr]
  /\ wpc' = [wpc EXCEPT ![w] = "store"]
  /\ UNCHANGED <<aarch64, mpc, running, ctr, thread>>

\* It writes the incremented value back.
WorkerStore(w) ==
  /\ wpc[w] = "store"
  /\ ctr' = Bump(reg[w])
  /\ reg' = [reg EXCEPT ![w] = Bump(reg[w])]
  /\ wpc' = [wpc EXCEPT ![w] = "check"]
  /\ UNCHANGED <<aarch64, mpc, running, thread>>

------------------------------------------------------------------------------
MainStep == CreateThread \/ SpinDone \/ Join

WorkerStep(w) ==
  WorkerPin(w) \/ WorkerCheck(w) \/ WorkerLoad(w) \/ WorkerStore(w)

CounterNext == CallStart \/ CallStop \/ Sleep \/ MainStep \/ \E w \in Workers : WorkerStep(w)

CounterSpec == CounterInit /\ [][CounterNext]_counter_vars

\* The kernel schedules both threads; nothing makes the program call.
Fairness == WF_counter_vars(MainStep) /\ \A w \in Workers : WF_counter_vars(WorkerStep(w))

FairCounterSpec == CounterSpec /\ Fairness

------------------------------------------------------------------------------
\* Properties

TypeOK ==
  /\ aarch64 \in BOOLEAN
  /\ mpc \in MainLocs
  /\ running \in BOOLEAN
  /\ ctr \in 0..MaxCtr
  /\ thread \in Workers \union {None}
  /\ wpc \in [Workers -> WorkerLocs]
  /\ reg \in [Workers -> 0..MaxCtr]

\* std::thread neither is assigned to while it is joinable (std::terminate) nor
\* joined while it is not (std::system_error), in whatever order the program
\* calls start and stop.
HandleUsedCorrectly ==
  /\ mpc = "create" => thread = None
  /\ mpc = "join" => thread # None

\* Every thread that exists is the one that the handle can join: a worker never
\* outlives ctr_thread_stop(), so no two of them ever write the counter.
NoOrphan == \A w \in Workers : wpc[w] # "unborn" => thread = w

\* The counter counts up one at a time, only between a start and the end of the
\* next stop, and no increment is lost, across restarts too.
C == INSTANCE Clock WITH on <- thread # None, time <- ctr
ImplementsClock == C!Spec

\* ctr_thread_start() and ctr_thread_stop() return: the new worker counts, and
\* the old one sees the flag and ends.
CallsReturn == mpc # "idle" ~> mpc = "idle"

\* The clock advances as long as the program does not stop it.
ClockAdvances ==
  \A v \in 0..(MaxCtr - 1) :
    running /\ thread # None /\ ctr = v ~> ctr > v \/ ~running
==============================================================================
