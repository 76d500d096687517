------------------------------- MODULE Harness -------------------------------
(***************************************************************************)
(* The test harness of FetchBench: main(), TestCaseBase::run() with the    *)
(* pre_test/post_test programming of the prefetcher-control MSRs, the      *)
(* timing source started and stopped around the tests, and the helper      *)
(* processes that tests fork, exec and wait for (plot scripts, and the     *)
(* external parr/pchase programs).                                         *)
(*                                                                         *)
(* A process is a copy of the benchmark, or a program it exec'ed.  Every   *)
(* process has its own copy of the program's variables; the MSRs and the   *)
(* results files are shared.                                               *)
(***************************************************************************)
EXTENDS Naturals, FiniteSets

CONSTANTS
  Procs,              (* process ids                                          *)
  Root,               (* the process the user starts                          *)
  NumTests,           (* testcases are 1..NumTests, in the order of main()    *)
  NumPrefetchers,     (* prefetchers are 1..NumPrefetchers, in the order in   *)
                      (* which pre_test and post_test program them            *)
  Programmed,         (* testcases that program the MSRs on this architecture *)
  Enabled,            (* prefetchers each of them leaves enabled              *)
  ByTarget,           (* testcases that address the MSR of TargetCpu instead  *)
                      (* of the MSR of the CPU they run on                    *)
  External,           (* testcases that delegate to an external program       *)
  IdentifyForks,      (* helper processes that identify() forks               *)
  CharacterizeForks,  (* helper processes that characterize() forks           *)
  Dies,               (* testcases whose characterize() always ends in a      *)
                      (* failed assertion or a null pointer access            *)
  Cpus, TargetCpu, CtrCpu,
  CounterThread,      (* built with -DCOUNTER_THREAD                          *)
  Faults              (* what may go wrong in the environment                 *)

Tests == 1..NumTests
Prefetchers == 1..NumPrefetchers

\* Values of -t: 0 is "all testcases", NumTests + 1 is an unknown name.
Unknown == NumTests + 1

ASSUME ConstantsAssumption ==
  /\ Root \in Procs
  /\ NumTests \in Nat \ {0}
  /\ NumPrefetchers \in Nat
  /\ Programmed \subseteq Tests
  /\ Enabled \in [Tests -> SUBSET Prefetchers]
  /\ ByTarget \subseteq Tests
  /\ External \subseteq Tests
  /\ IdentifyForks \in [Tests -> Nat]
  /\ CharacterizeForks \in [Tests -> Nat]
  /\ Dies \subseteq Tests
  /\ TargetCpu \in Cpus /\ CtrCpu \in Cpus
  /\ CounterThread \in BOOLEAN
  /\ Faults \subseteq {"pin", "msr", "fork", "exec", "abort", "io"}

VARIABLES
  opts,        (* parsed command line: testcase and only-identification flag *)
  state,       (* scheduling state of each process                           *)
  child,       (* the process a waiting process waits for                    *)
  phase,       (* where in the program a process is                          *)
  test,        (* index of its current testcase, 0 before the first          *)
  step,        (* calls of set_*_prefetcher made in pre_test or post_test    *)
  forks,       (* helper processes the current test phase has still to fork  *)
  affinity,    (* CPUs a process may run on                                  *)
  cpu,         (* CPU it runs on                                             *)
  runflag,     (* ctr_thread_running                                         *)
  thread,      (* is there a counter thread in this process?                 *)
  msr,         (* per CPU: prefetchers whose disable bit is set              *)
  call,        (* place and msr_value in a call of set_*_prefetcher          *)
  results      (* state of results-<id>.json                                 *)

placeVars == <<phase, test, step, forks>>
cpuVars   == <<affinity, cpu>>
clockVars == <<runflag, thread>>
vars == <<opts, state, child, placeVars, cpuVars, clockVars, msr, call, results>>

States == {"free", "forked", "run", "wait", "exec", "hung", "success", "failure"}
Phases == {"pin", "clock_init", "calibrate", "next", "stop_clock", "pre",
           "identify", "characterize", "start_clock", "post", "dump", "teardown"}

------------------------------------------------------------------------------
\* Helpers

Running(p, ph) == state[p] = "run" /\ phase[p] = ph

Goto(p, ph) == phase' = [phase EXCEPT ![p] = ph]

\* exit(): the counter thread dies with its process.
Exit(p, status) ==
  /\ state' = [state EXCEPT ![p] = status]
  /\ thread' = [thread EXCEPT ![p] = FALSE]
  /\ UNCHANGED runflag

\* Faulty variant of StartClock: the flag is set, the thread never created.
StartClockFlagOnly(p) ==
  /\ runflag' = [runflag EXCEPT ![p] = CounterThread]
  /\ UNCHANGED thread

\* clock_init() -> ctr_thread_start()
StartClock(p) ==
  IF CounterThread /\ ~runflag[p]
  THEN /\ runflag' = [runflag EXCEPT ![p] = TRUE]
       /\ thread' = [thread EXCEPT ![p] = TRUE]
  ELSE UNCHANGED clockVars

\* clock_teardown() -> ctr_thread_stop(), when join() returns
StopClock(p) ==
  /\ runflag' = [runflag EXCEPT ![p] = FALSE]
  /\ thread' = [thread EXCEPT ![p] = FALSE]

\* The CPU that set_intel_prefetcher/set_amd_prefetcher address.
MsrCpu(p) == IF test[p] \in ByTarget THEN TargetCpu ELSE cpu[p]

\* The prefetchers that the running pre_test or post_test enables.
Wanted(p) == IF phase[p] = "pre" THEN Enabled[test[p]] ELSE Prefetchers

\* Faulty variant of Changed: enabling does not clear the disable bit.
ChangedSticky(value, k, on) == IF k \in on THEN value ELSE value \union {k}

\* The register's value with the bit of one prefetcher cleared or set.
Changed(value, k, on) == IF k \in on THEN value \ {k} ELSE value \union {k}

\* No call of set_*_prefetcher is under way.
NoCall == [at |-> "read", word |-> {}]

\* Faulty variant of Programming: one call too many.
ProgrammingOneMore(p) == test[p] \in Programmed /\ step[p] <= NumPrefetchers

\* pre_test or post_test has another prefetcher to set.
Programming(p) == test[p] \in Programmed /\ step[p] < NumPrefetchers

\* The external parr/pchase program, as opposed to the plot script that the
\* same test forks afterwards.
IsRunner(p) == test[p] \in External /\ phase[p] = "identify"
               /\ forks[p] + 1 = IdentifyForks[test[p]]

------------------------------------------------------------------------------
\* main() up to the test loop

Init ==
  /\ opts \in [testcase: 0..Unknown, only: BOOLEAN]
  /\ state = [p \in Procs |-> IF p = Root THEN "run" ELSE "free"]
  /\ child = [p \in Procs |-> p]
  /\ phase = [p \in Procs |-> "pin"]
  /\ test = [p \in Procs |-> 0]
  /\ step = [p \in Procs |-> 0]
  /\ forks = [p \in Procs |-> 0]
  /\ affinity = [p \in Procs |-> Cpus]
  /\ \E c \in Cpus : cpu = [p \in Procs |-> c]
  /\ runflag = [p \in Procs |-> FALSE]
  /\ thread = [p \in Procs |-> FALSE]
  /\ msr \in [Cpus -> SUBSET Prefetchers]
  /\ call = [p \in Procs |-> NoCall]
  /\ results = [t \in Tests |-> "none"]

\* pin_process_to_cpu(0, opt_target_cpu); nobody looks at the return value.
Pin(p) ==
  /\ Running(p, "pin")
  /\ Goto(p, "clock_init")
  /\ \/ /\ affinity' = [affinity EXCEPT ![p] = {TargetCpu}]
        /\ cpu' = [cpu EXCEPT ![p] = TargetCpu]
     \/ /\ "pin" \in Faults
        /\ UNCHANGED cpuVars
  /\ UNCHANGED <<opts, state, child, test, step, forks, clockVars, msr, call, results>>

InitClock(p) ==
  /\ Running(p, "clock_init")
  /\ StartClock(p)
  /\ Goto(p, "calibrate")
  /\ UNCHANGED <<opts, state, child, test, step, forks, cpuVars, msr, call, results>>

Calibrate(p) ==
  /\ Running(p, "calibrate")
  /\ Goto(p, "next")
  /\ UNCHANGED <<opts, state, child, test, step, forks, cpuVars, clockVars, msr, call, results>>

\* Faulty variant of Following: the loop stops before the last testcase.
FollowingShort(p) ==
  IF opts.testcase = 0 THEN IF test[p] + 1 < NumTests THEN test[p] + 1 ELSE 0
  ELSE IF opts.testcase = test[p] THEN 0 ELSE opts.testcase

\* The loop over the testcases, or the search for the one that -t names: the
\* testcase after the current one; 0 or Unknown when there is none.
Following(p) ==
  IF opts.testcase = 0 THEN test[p] + 1
  ELSE IF opts.testcase = test[p] THEN 0 ELSE opts.testcase

NextTest(p) ==
  /\ Running(p, "next")
  /\ Following(p) \in Tests
  /\ test' = [test EXCEPT ![p] = Following(p)]
  /\ Goto(p, IF Following(p) \in External THEN "stop_clock" ELSE "pre")
  /\ UNCHANGED <<opts, state, child, step, forks, cpuVars, clockVars, msr, call, results>>

EndOfTests(p) ==
  /\ Running(p, "next")
  /\ Following(p) \notin Tests
  /\ Goto(p, "teardown")
  /\ UNCHANGED <<opts, state, child, test, step, forks, cpuVars, clockVars, msr, call, results>>

\* clock_teardown() and the return of main(), or exit() on an unknown testcase.
Teardown(p) ==
  /\ Running(p, "teardown")
  /\ state' = [state EXCEPT ![p] = IF opts.testcase = Unknown THEN "failure" ELSE "success"]
  /\ StopClock(p)
  /\ UNCHANGED <<opts, child, placeVars, cpuVars, msr, call, results>>

------------------------------------------------------------------------------
\* TestCaseBase::run()

\* Faulty variant of StopOwnClock: the counter thread is left running.
StopOwnClockSkipped(p) ==
  /\ Running(p, "stop_clock")
  /\ Goto(p, "pre")
  /\ UNCHANGED <<opts, state, child, test, step, forks, cpuVars, clockVars, msr, call, results>>

\* pre_test of parr and pchase: the external program starts its own clock.
StopOwnClock(p) ==
  /\ Running(p, "stop_clock")
  /\ StopClock(p)
  /\ Goto(p, "pre")
  /\ UNCHANGED <<opts, state, child, test, step, forks, cpuVars, msr, call, results>>

\* join() on a thread that fork() did not copy into this process: undefined,
\* it returns (StopOwnClock, Teardown) or it never does.
JoinLostThread(p) ==
  /\ Running(p, "stop_clock") \/ Running(p, "teardown")
  /\ runflag[p] /\ ~thread[p]
  /\ state' = [state EXCEPT ![p] = "hung"]
  /\ runflag' = [runflag EXCEPT ![p] = FALSE]
  /\ UNCHANGED <<opts, child, placeVars, cpuVars, thread, msr, call, results>>

\* A process inside pre_test or post_test, in a call of set_*_prefetcher.
Setting(p, at) ==
  /\ Running(p, "pre") \/ Running(p, "post")
  /\ Programming(p)
  /\ call[p].at = at

\* rdmsr(), and the change of the value read.
ReadMsr(p) ==
  /\ Setting(p, "read")
  /\ call' = [call EXCEPT ![p] =
       [at |-> "write", word |-> Changed(msr[MsrCpu(p)], step[p] + 1, Wanted(p))]]
  /\ UNCHANGED <<opts, state, child, placeVars, cpuVars, clockVars, msr, results>>

\* wrmsr(), which looks up the current CPU again.
WriteMsr(p) ==
  /\ Setting(p, "write")
  /\ msr' = [msr EXCEPT ![MsrCpu(p)] = call[p].word]
  /\ call' = [call EXCEPT ![p].at = "check"]
  /\ UNCHANGED <<opts, state, child, placeVars, cpuVars, clockVars, results>>

\* assert(rdmsr() == msr_value), on the CPU the process is on by then.
CheckMsr(p) ==
  /\ Setting(p, "check")
  /\ msr[MsrCpu(p)] = call[p].word
  /\ step' = [step EXCEPT ![p] = @ + 1]
  /\ call' = [call EXCEPT ![p] = NoCall]
  /\ UNCHANGED <<opts, state, child, phase, test, forks, cpuVars, clockVars, msr, results>>

CheckMsrFails(p) ==
  /\ Setting(p, "check")
  /\ msr[MsrCpu(p)] # call[p].word
  /\ Exit(p, "failure")
  /\ UNCHANGED <<opts, child, placeVars, cpuVars, msr, call, results>>

PreTestDone(p) ==
  /\ Running(p, "pre") /\ ~Programming(p)
  /\ Goto(p, "identify")
  /\ step' = [step EXCEPT ![p] = 0]
  /\ forks' = [forks EXCEPT ![p] = IdentifyForks[test[p]]]
  /\ UNCHANGED <<opts, state, child, test, cpuVars, clockVars, msr, call, results>>

\* Where run() continues after the tests.
PostPhase(p) == IF test[p] \in External THEN "start_clock" ELSE "post"

\* identify() returns; the test of its result is commented out in run(), so that
\* the result goes nowhere but into the results file.
IdentifyDone(p) ==
  /\ Running(p, "identify") /\ forks[p] = 0
  /\ Goto(p, IF opts.only THEN PostPhase(p) ELSE "characterize")
  /\ forks' = [forks EXCEPT ![p] = IF opts.only THEN 0 ELSE CharacterizeForks[test[p]]]
  /\ UNCHANGED <<opts, state, child, test, step, cpuVars, clockVars, msr, call, results>>

CharacterizeDone(p) ==
  /\ Running(p, "characterize") /\ forks[p] = 0 /\ test[p] \notin Dies
  /\ Goto(p, PostPhase(p))
  /\ UNCHANGED <<opts, state, child, test, step, forks, cpuVars, clockVars, msr, call, results>>

\* post_test of parr and pchase restarts the counter thread.
StartOwnClock(p) ==
  /\ Running(p, "start_clock")
  /\ StartClock(p)
  /\ Goto(p, "post")
  /\ UNCHANGED <<opts, state, child, test, step, forks, cpuVars, msr, call, results>>

\* Faulty variant of PostTestDone: post_test is left before all MSR writes.
PostTestSkipped(p) ==
  /\ Running(p, "post")
  /\ Goto(p, "dump")
  /\ step' = [step EXCEPT ![p] = 0]
  /\ UNCHANGED <<opts, state, child, test, forks, cpuVars, clockVars, msr, call, results>>

PostTestDone(p) ==
  /\ Running(p, "post") /\ ~Programming(p)
  /\ Goto(p, "dump")
  /\ step' = [step EXCEPT ![p] = 0]
  /\ UNCHANGED <<opts, state, child, test, forks, cpuVars, clockVars, msr, call, results>>

\* json_dump_to_file(): open truncates, and no stream error is looked at.
Dump(p) ==
  /\ Running(p, "dump")
  /\ \/ results' = [results EXCEPT ![test[p]] = "complete"]
     \/ "io" \in Faults /\ results' = [results EXCEPT ![test[p]] = "truncated"]
     \/ "io" \in Faults /\ UNCHANGED results
  /\ Goto(p, "next")
  /\ UNCHANGED <<opts, state, child, test, step, forks, cpuVars, clockVars, msr, call>>

------------------------------------------------------------------------------
\* Failures that end a process where it stands

\* rdmsr/wrmsr cannot access /dev/cpu/<n>/msr: exit(1).
MsrError(p) ==
  /\ "msr" \in Faults
  /\ \E at \in {"read", "write", "check"} : Setting(p, at)
  /\ Exit(p, "failure")
  /\ UNCHANGED <<opts, child, placeVars, cpuVars, msr, call, results>>

\* A failed mmap, a division by zero or a failed assertion in a measurement.
Abort(p) ==
  /\ "abort" \in Faults
  /\ \E ph \in {"calibrate", "identify", "characterize"} : Running(p, ph)
  /\ Exit(p, "failure")
  /\ UNCHANGED <<opts, child, placeVars, cpuVars, msr, call, results>>

\* characterize() of stride trains beyond its mapping, which an assertion
\* catches, and that of sms reads through a null pointer, on every run.
CharacterizeDies(p) ==
  /\ Running(p, "characterize") /\ forks[p] = 0 /\ test[p] \in Dies
  /\ Exit(p, "failure")
  /\ UNCHANGED <<opts, child, placeVars, cpuVars, msr, call, results>>

------------------------------------------------------------------------------
\* Helper processes: fork(), execvp() in the child, waitpid() in the parent

CopyOf(f, p, c) == [f EXCEPT ![c] = f[p]]

\* fork() copies the program's variables but only the calling thread.
Fork(p) ==
  /\ Running(p, "identify") \/ Running(p, "characterize")
  /\ forks[p] > 0
  /\ \E c \in Procs :
       /\ state[c] = "free"
       /\ state' = [state EXCEPT ![p] = "wait", ![c] = "forked"]
       /\ child' = [child EXCEPT ![p] = c]
       /\ phase' = CopyOf(phase, p, c)
       /\ test' = CopyOf(test, p, c)
       /\ step' = CopyOf(step, p, c)
       /\ forks' = [forks EXCEPT ![p] = @ - 1, ![c] = forks[p] - 1]
       /\ affinity' = CopyOf(affinity, p, c)
       /\ cpu' = CopyOf(cpu, p, c)
       /\ call' = CopyOf(call, p, c)
       /\ runflag' = CopyOf(runflag, p, c)
       /\ thread' = [thread EXCEPT ![c] = FALSE]
  /\ UNCHANGED <<opts, msr, results>>

\* fork() returns -1: exit(EXIT_FAILURE).
ForkError(p) ==
  /\ Running(p, "identify") \/ Running(p, "characterize")
  /\ forks[p] > 0
  /\ "fork" \in Faults \/ \A c \in Procs : state[c] # "free"
  /\ Exit(p, "failure")
  /\ UNCHANGED <<opts, child, placeVars, cpuVars, msr, call, results>>

\* The child of parr/pchase widens its affinity before it execs, so that the
\* external program can run a counter thread of its own.
ChildAffinity(c) ==
  IF ~IsRunner(c) THEN affinity[c]
  ELSE IF CounterThread THEN {TargetCpu, CtrCpu} ELSE {TargetCpu}

\* execvp() in the child.  When it fails the child breaks out of the switch
\* and goes on as a second copy of the benchmark.
Exec(c) ==
  /\ state[c] = "forked"
  /\ \/ /\ affinity' = [affinity EXCEPT ![c] = ChildAffinity(c)]
        /\ \E x \in ChildAffinity(c) : cpu' = [cpu EXCEPT ![c] = x]
     \/ "pin" \in Faults /\ UNCHANGED cpuVars
  /\ \/ state' = [state EXCEPT ![c] = "exec"]
     \/ "exec" \in Faults /\ state' = [state EXCEPT ![c] = "run"]
  /\ UNCHANGED <<opts, child, placeVars, clockVars, msr, call, results>>

\* The plot script or the external program ends.
HelperExit(c) ==
  /\ state[c] = "exec"
  /\ state' = [state EXCEPT ![c] = "success"]
  /\ UNCHANGED <<opts, child, placeVars, cpuVars, clockVars, msr, call, results>>

\* Faulty variant of Reap: waitpid(pid, NULL, WNOHANG).
ReapNoHang(p) ==
  /\ state[p] = "wait"
  /\ state' = [state EXCEPT ![p] = "run"]
  /\ child' = [child EXCEPT ![p] = p]
  /\ UNCHANGED <<opts, placeVars, cpuVars, clockVars, msr, call, results>>

\* waitpid(pid, NULL, 0) returns; the child's status is not looked at.
Reap(p) ==
  /\ state[p] = "wait"
  /\ state[child[p]] \in {"success", "failure"}
  /\ state' = [state EXCEPT ![p] = "run", ![child[p]] = "free"]
  /\ child' = [child EXCEPT ![p] = p]
  /\ UNCHANGED <<opts, placeVars, cpuVars, clockVars, msr, call, results>>

\* The kernel moves a process between the CPUs it may run on.
Migrate(p) ==
  /\ state[p] \in {"run", "exec"}
  /\ \E x \in affinity[p] : x # cpu[p] /\ cpu' = [cpu EXCEPT ![p] = x]
  /\ UNCHANGED <<opts, state, child, placeVars, affinity, clockVars, msr, call, results>>

------------------------------------------------------------------------------
Proceed(p) ==
  \/ Pin(p) \/ InitClock(p) \/ Calibrate(p) \/ NextTest(p) \/ EndOfTests(p) \/ Teardown(p)
  \/ StopOwnClock(p) \/ JoinLostThread(p)
  \/ ReadMsr(p) \/ WriteMsr(p) \/ CheckMsr(p) \/ CheckMsrFails(p) \/ PreTestDone(p)
  \/ IdentifyDone(p) \/ CharacterizeDone(p)
  \/ StartOwnClock(p) \/ PostTestDone(p) \/ Dump(p)
  \/ MsrError(p) \/ Abort(p) \/ CharacterizeDies(p)
  \/ Fork(p) \/ ForkError(p) \/ Exec(p) \/ HelperExit(p) \/ Reap(p)

Ended == state[Root] \in {"success", "failure"}

Done == Ended /\ UNCHANGED vars

Next == (\E p \in Procs : Proceed(p) \/ Migrate(p)) \/ Done

Spec == Init /\ [][Next]_vars

\* The kernel schedules every runnable process, and every program that is
\* exec'ed ends.
Fairness == \A p \in Procs : WF_vars(Proceed(p))

FairSpec == Spec /\ Fairness

------------------------------------------------------------------------------
\* Properties

TypeOK ==
  /\ opts \in [testcase: 0..Unknown, only: BOOLEAN]
  /\ state \in [Procs -> States]
  /\ child \in [Procs -> Procs]
  /\ phase \in [Procs -> Phases]
  /\ test \in [Procs -> 0..NumTests]
  /\ step \in [Procs -> 0..NumPrefetchers]
  /\ forks \in [Procs -> Nat]
  /\ affinity \in [Procs -> SUBSET Cpus]
  /\ cpu \in [Procs -> Cpus]
  /\ runflag \in [Procs -> BOOLEAN]
  /\ thread \in [Procs -> BOOLEAN]
  /\ msr \in [Cpus -> SUBSET Prefetchers]
  /\ call \in [Procs -> [at : {"read", "write", "check"}, word : SUBSET Prefetchers]]
  /\ results \in [Tests -> {"none", "truncated", "complete"}]

\* A parked process executes nothing: it does not exist, or it is in waitpid().
Parked(p) == state[p] \in {"free", "wait"}

\* At any time exactly one process executes (or has just ended): every fork is
\* followed by waitpid (utils.cc:86-89, testcase_parr.hh:78-81), so no helper
\* disturbs a measurement and no two copies of the benchmark run at once,
\* even when execvp fails and the child becomes such a copy.
OneActive == \E p \in Procs : ~Parked(p) /\ \A q \in Procs \ {p} : Parked(q)

\* The process takes Flush+Reload measurements for its current testcase.
Measuring(p) ==
  /\ state[p] = "run" /\ phase[p] \in {"identify", "characterize"}
  /\ test[p] \notin External

\* Whenever a testcase measures, the CPU it measures on has exactly those
\* prefetchers disabled that its own pre_test disabled: nothing that ran
\* since then (helpers, other testcases, a migration) changed that.
MeasuredAsConfigured ==
  \A p \in Procs : Measuring(p) /\ test[p] \in Programmed
                     => msr[cpu[p]] = Prefetchers \ Enabled[test[p]]

\* The external parr/pchase program runs on a CPU with every prefetcher
\* enabled (testcase_parr.hh:34 "make sure all prefetchers are enabled").
RunnerSeesAllPrefetchers ==
  \A p \in Procs : state[p] = "exec" /\ IsRunner(p) => msr[cpu[p]] = {}

\* Testcases that the command line asks for.
Requested == IF opts.testcase = 0 THEN Tests ELSE {opts.testcase} \intersect Tests

\* A successful run on the CPU that it was told to use leaves every prefetcher
\* of that CPU enabled as soon as one of its testcases programmed the MSRs,
\* whatever the MSRs held before, and although a failing execvp creates copies
\* of the benchmark that program the same MSRs and may die half-way.
Restored ==
  state[Root] = "success" /\ affinity[Root] = {TargetCpu} /\ Requested \intersect Programmed # {}
    => msr[TargetCpu] = {}

\* What a failure leaves behind in the MSR of the target CPU when no copy of the
\* benchmark interferes.  A process that exits or fails an assertion restores
\* nothing (utils.hh:123-130), but what it leaves disabled is at most what the
\* testcase that it died in disables for itself, never the setting of an earlier
\* testcase of the same run.  Only within pre_test of the first testcase may bits
\* be left that were set before the benchmark started.
LeftByFailure ==
  state[Root] = "failure" /\ test[Root] \in Programmed
  /\ (\/ phase[Root] \notin {"stop_clock", "pre"}
      \/ \E t \in Requested \intersect Programmed : t < test[Root])
    => msr[TargetCpu] \subseteq Prefetchers \ Enabled[test[Root]]

\* In a counter-thread build, the process that the user started has a counter
\* thread whenever it calibrates or measures, also after a testcase that
\* stopped it for an external program.
ClockTicks ==
  CounterThread /\ (Measuring(Root) \/ Running(Root, "calibrate")) => thread[Root]

\* While the external program that the first process started measures with a
\* counter thread of its own, no copy of the benchmark keeps one spinning
\* (testcase_parr.hh:31-33).
RunnerClockAlone ==
  state[Root] = "wait" /\ state[child[Root]] = "exec" /\ IsRunner(child[Root])
    => \A q \in Procs : ~thread[q]

\* A successful run has written the complete results of each requested
\* testcase and of no other one (main.cc:113-131).
ResultsComplete ==
  state[Root] = "success"
    => \A t \in Tests : results[t] = IF t \in Requested THEN "complete" ELSE "none"

\* The process addresses one MSR for as long as it runs: it cannot leave its CPU,
\* or it names the target CPU (testcase_stride.hh:51).
OneMsr(p) == affinity[p] = {cpu[p]} \/ test[p] \in ByTarget

\* set_*_prefetcher is atomic although it reads, writes and reads the MSR in
\* three accesses: no copy of the benchmark and no migration gets between them.
\* What a process is about to write differs from what is in the MSR at most in
\* the bit of its prefetcher, and the assertion behind the write cannot fail.
CallsAtomic ==
  \A p \in Procs : state[p] = "run" /\ OneMsr(p) =>
    /\ call[p].at = "write" =>
         call[p].word = Changed(msr[MsrCpu(p)], step[p] + 1, Wanted(p))
    /\ call[p].at = "check" => call[p].word = msr[MsrCpu(p)]

\* The process the user started joins its counter thread only while it has
\* one, so it never blocks in clock_teardown (copies of it may).
RootNeverHangs == state[Root] # "hung"

\* The benchmark comes to an end, successfully or not, whatever its testcases and
\* their copies do.  Only a copy that blocks in join() on a counter thread that
\* fork() did not give it (clock_teardown) keeps it waiting for good.
Termination == <>(Ended \/ \E p \in Procs \ {Root} : state[p] = "hung")

==============================================================================
