---------------------------- MODULE HarnessProofs ----------------------------
(***************************************************************************)
(* Proofs about the test harness, which runs the testcases, and about the  *)
(* testcase of the adjacent cache line prefetcher, which needs no helpers. *)
(***************************************************************************)
EXTENDS Harness, Adjacent, TLAPS

\* Updating a function at one point keeps it in its function set.
LEMMA Update ==
  ASSUME NEW S, NEW T, NEW f \in [S -> T], NEW x \in S, NEW v \in T
  PROVE  [f EXCEPT ![x] = v] \in [S -> T]
OBVIOUS

\* The accesses of a call of set_*_prefetcher keep their variables' domains.
LEMMA AccessType ==
  ASSUME TypeOK, NEW p \in Procs, ReadMsr(p) \/ WriteMsr(p) \/ CheckMsr(p)
  PROVE  /\ msr' \in [Cpus -> SUBSET Prefetchers]
         /\ step' \in [Procs -> 0..NumPrefetchers]
         /\ call' \in [Procs -> [at : {"read", "write", "check"}, word : SUBSET Prefetchers]]
<1> DEFINE Calls == [at : {"read", "write", "check"}, word : SUBSET Prefetchers]
<1>1. step[p] + 1 \in Prefetchers /\ Programming(p)
  BY ConstantsAssumption DEF TypeOK, ReadMsr, WriteMsr, CheckMsr, Setting, Programming, Prefetchers
<1>2. MsrCpu(p) \in Cpus
  BY ConstantsAssumption DEF TypeOK, MsrCpu
<1>3. msr[MsrCpu(p)] \in SUBSET Prefetchers /\ call[p] \in Calls
  BY <1>2 DEF TypeOK
<1>4. CASE ReadMsr(p)
  <2>1. Changed(msr[MsrCpu(p)], step[p] + 1, Wanted(p)) \in SUBSET Prefetchers
    BY <1>1, <1>3 DEF Changed
  <2>2. QED
    BY <1>4, <2>1 DEF ReadMsr, TypeOK, placeVars
<1>5. CASE WriteMsr(p)
  <2>1. msr' \in [Cpus -> SUBSET Prefetchers]
    BY <1>2, <1>3, <1>5, Update DEF WriteMsr, TypeOK
  <2>2. call' \in [Procs -> Calls] /\ step' = step
    BY <1>3, <1>5 DEF WriteMsr, TypeOK, placeVars
  <2>3. QED
    BY <2>1, <2>2 DEF TypeOK
<1>6. CASE CheckMsr(p)
  <2>1. step' \in [Procs -> 0..NumPrefetchers]
    BY <1>1, <1>6, ConstantsAssumption DEF CheckMsr, TypeOK, Prefetchers
  <2>2. call' \in [Procs -> Calls]
    BY <1>6 DEF CheckMsr, TypeOK, NoCall
  <2>3. QED
    BY <1>6, <2>1, <2>2 DEF CheckMsr, TypeOK
<1>7. QED
  BY <1>4, <1>5, <1>6

\* fork() gives the child the parent's value of a variable.
LEMMA CopyType ==
  ASSUME NEW S, NEW T, NEW f \in [S -> T], NEW p \in S, NEW c \in S
  PROVE  CopyOf(f, p, c) \in [S -> T]
BY DEF CopyOf

\* Pinning keeps the affinity and the CPU of every process in their domains.
LEMMA PinType ==
  ASSUME NEW p \in Procs, Pin(p),
         affinity \in [Procs -> SUBSET Cpus], cpu \in [Procs -> Cpus]
  PROVE  affinity' \in [Procs -> SUBSET Cpus] /\ cpu' \in [Procs -> Cpus]
<1>1. TargetCpu \in Cpus /\ {TargetCpu} \in SUBSET Cpus
  BY ConstantsAssumption
<1>2. CASE UNCHANGED cpuVars
  BY <1>2 DEF cpuVars
<1>3. CASE /\ affinity' = [affinity EXCEPT ![p] = {TargetCpu}]
           /\ cpu' = [cpu EXCEPT ![p] = TargetCpu]
  <2>1. [affinity EXCEPT ![p] = {TargetCpu}] \in [Procs -> SUBSET Cpus]
    BY <1>1, Update, Zenon
  <2>2. [cpu EXCEPT ![p] = TargetCpu] \in [Procs -> Cpus]
    BY <1>1, Update, Zenon
  <2>3. QED
    BY <1>3, <2>1, <2>2
<1>4. QED
  BY <1>2, <1>3 DEF Pin

\* A child that widens its affinity before execvp keeps both domains, and its
\* state stays a state.
LEMMA ExecType ==
  ASSUME NEW c \in Procs, Exec(c), state \in [Procs -> States],
         affinity \in [Procs -> SUBSET Cpus], cpu \in [Procs -> Cpus]
  PROVE  /\ state' \in [Procs -> States]
         /\ affinity' \in [Procs -> SUBSET Cpus]
         /\ cpu' \in [Procs -> Cpus]
<1>1. ChildAffinity(c) \in SUBSET Cpus
  BY ConstantsAssumption DEF ChildAffinity
<1>2. affinity' \in [Procs -> SUBSET Cpus] /\ cpu' \in [Procs -> Cpus]
  <2>1. CASE UNCHANGED cpuVars
    BY <2>1 DEF cpuVars
  <2>2. ASSUME affinity' = [affinity EXCEPT ![c] = ChildAffinity(c)],
               NEW x \in ChildAffinity(c), cpu' = [cpu EXCEPT ![c] = x]
        PROVE  affinity' \in [Procs -> SUBSET Cpus] /\ cpu' \in [Procs -> Cpus]
    <3>1. [affinity EXCEPT ![c] = ChildAffinity(c)] \in [Procs -> SUBSET Cpus]
      BY <1>1, Update, Zenon
    <3>2. x \in Cpus
      BY <1>1
    <3>3. [cpu EXCEPT ![c] = x] \in [Procs -> Cpus]
      BY <3>2, Update, Zenon
    <3>4. QED
      BY <2>2, <3>1, <3>3
  <2>3. QED
    BY <2>1, <2>2 DEF Exec
<1>3. state' \in [Procs -> States]
  <2>1. "exec" \in States /\ "run" \in States
    BY DEF States
  <2>2. /\ [state EXCEPT ![c] = "exec"] \in [Procs -> States]
        /\ [state EXCEPT ![c] = "run"] \in [Procs -> States]
    BY <2>1, Update, Zenon
  <2>3. QED
    BY <2>2 DEF Exec
<1>4. QED
  BY <1>2, <1>3

\* A process migrates to a CPU.
LEMMA MigrateType ==
  ASSUME NEW p \in Procs, Migrate(p),
         affinity \in [Procs -> SUBSET Cpus], cpu \in [Procs -> Cpus]
  PROVE  cpu' \in [Procs -> Cpus]
<1>1. PICK x \in affinity[p] : cpu' = [cpu EXCEPT ![p] = x]
  BY DEF Migrate
<1>2. x \in Cpus
  OBVIOUS
<1>3. QED
  BY <1>1, <1>2, Update, Zenon

\* A testcase phase forks a natural number of helpers.
LEMMA ForksType ==
  ASSUME TypeOK, NEW p \in Procs, test[p] # 0
  PROVE  IdentifyForks[test[p]] \in Nat /\ CharacterizeForks[test[p]] \in Nat
BY ConstantsAssumption DEF TypeOK, Tests

\* Starting and stopping the counter thread of a process.
LEMMA ClockType ==
  ASSUME NEW p \in Procs, runflag \in [Procs -> BOOLEAN], thread \in [Procs -> BOOLEAN],
         runflag' = runflag \/ \E b \in BOOLEAN : runflag' = [runflag EXCEPT ![p] = b],
         thread' = thread \/ \E b \in BOOLEAN : thread' = [thread EXCEPT ![p] = b]
  PROVE  runflag' \in [Procs -> BOOLEAN] /\ thread' \in [Procs -> BOOLEAN]
<1>1. \A b \in BOOLEAN : /\ [runflag EXCEPT ![p] = b] \in [Procs -> BOOLEAN]
                         /\ [thread EXCEPT ![p] = b] \in [Procs -> BOOLEAN]
  BY Update, Zenon
<1>2. QED
  BY <1>1, Zenon

\* Resetting the counter of the calls of set_*_prefetcher.
LEMMA StepType ==
  ASSUME NEW p \in Procs, step \in [Procs -> 0..NumPrefetchers],
         0 \in 0..NumPrefetchers, step' = step \/ step' = [step EXCEPT ![p] = 0]
  PROVE  step' \in [Procs -> 0..NumPrefetchers]
OBVIOUS

\* The phases of TestCaseBase::run(), in which a testcase has been chosen.
TestPhases == {"stop_clock", "pre", "identify", "characterize", "start_clock",
               "post", "dump"}
TestChosen == \A p \in Procs : phase[p] \in TestPhases => test[p] # 0

TypeInv == TypeOK /\ TestChosen

\* Every step keeps the testcase index of a process in a test phase non-zero.
LEMMA TestChosenStep == TypeInv /\ [Next]_vars => TestChosen'
<1> SUFFICES ASSUME TypeOK, TestChosen, [Next]_vars PROVE TestChosen'
  BY DEF TypeInv
<1> USE DEF TypeOK, TestChosen, TestPhases, Running, Goto, placeVars, cpuVars, clockVars
<1>1. ASSUME NEW p \in Procs, NextTest(p) PROVE TestChosen'
  <2>1. Following(p) # 0
    BY <1>1, ConstantsAssumption DEF NextTest, Tests
  <2>2. QED
    BY <1>1, <2>1 DEF NextTest
<1>2. ASSUME NEW p \in Procs, Fork(p) PROVE TestChosen'
  BY <1>2 DEF Fork, CopyOf
<1>3. ASSUME NEW p \in Procs,
             \/ Pin(p) \/ InitClock(p) \/ Calibrate(p) \/ StopOwnClock(p)
             \/ EndOfTests(p) \/ ReadMsr(p) \/ WriteMsr(p) \/ CheckMsr(p) \/ PreTestDone(p)
             \/ IdentifyDone(p) \/ CharacterizeDone(p) \/ StartOwnClock(p)
             \/ PostTestDone(p) \/ Dump(p)
      PROVE  TestChosen'
  BY <1>3 DEF Pin, InitClock, Calibrate, StopOwnClock, EndOfTests, ReadMsr, WriteMsr, CheckMsr,
     PreTestDone, IdentifyDone, PostPhase, CharacterizeDone, StartOwnClock,
     PostTestDone, Dump
<1>4. ASSUME NEW p \in Procs,
             \/ Teardown(p) \/ JoinLostThread(p) \/ CheckMsrFails(p) \/ MsrError(p) \/ Abort(p)
             \/ CharacterizeDies(p) \/ ForkError(p) \/ Exec(p) \/ HelperExit(p) \/ Reap(p) \/ Migrate(p)
      PROVE  TestChosen'
  BY <1>4 DEF Teardown, JoinLostThread, CheckMsrFails, MsrError, Abort, CharacterizeDies,
     ForkError, Exec, HelperExit, Reap, Migrate
<1>5. CASE UNCHANGED vars
  BY <1>5 DEF vars
<1>6. QED
  BY <1>1, <1>2, <1>3, <1>4, <1>5 DEF Next, Proceed, Done

\* Every action keeps every variable of the harness in its domain.
LEMMA TypeStep == TypeInv /\ [Next]_vars => TypeInv'
<1> USE ConstantsAssumption DEF Tests, Prefetchers, Unknown
<1>1. TypeInv /\ [Next]_vars => TypeOK'
  <2> SUFFICES ASSUME TypeOK, TestChosen, [Next]_vars PROVE TypeOK'
    BY DEF TypeInv
  <2> USE DEF TypeOK, States, Phases, Running, Goto, placeVars, cpuVars, clockVars
  <2>1. ASSUME NEW p \in Procs, Pin(p) PROVE TypeOK'
    <3>1. affinity' \in [Procs -> SUBSET Cpus] /\ cpu' \in [Procs -> Cpus]
      BY <2>1, PinType
    <3>2. QED
      BY <2>1, <3>1 DEF Pin
  <2>2. ASSUME NEW p \in Procs,
               \/ InitClock(p) \/ Calibrate(p) \/ EndOfTests(p) \/ StopOwnClock(p)
               \/ CharacterizeDone(p) \/ StartOwnClock(p) \/ PostTestDone(p)
        PROVE  TypeOK'
    <3> USE DEF InitClock, Calibrate, EndOfTests, StopOwnClock, CharacterizeDone, StartOwnClock,
                PostTestDone
    <3>1. phase' \in [Procs -> Phases]
      <4>1. \E ph \in Phases : phase' = [phase EXCEPT ![p] = ph]
        BY <2>2 DEF PostPhase
      <4>2. QED
        BY <4>1
    <3>2. step' \in [Procs -> 0..NumPrefetchers]
      <4>1. step' = step \/ step' = [step EXCEPT ![p] = 0]
        BY <2>2
      <4>2. 0 \in 0..NumPrefetchers /\ step \in [Procs -> 0..NumPrefetchers]
        OBVIOUS
      <4>3. QED
        BY <4>1, <4>2, StepType
    <3>3. runflag' \in [Procs -> BOOLEAN] /\ thread' \in [Procs -> BOOLEAN]
      <4>1. /\ runflag' = runflag \/ \E b \in BOOLEAN : runflag' = [runflag EXCEPT ![p] = b]
            /\ thread' = thread \/ \E b \in BOOLEAN : thread' = [thread EXCEPT ![p] = b]
        BY <2>2 DEF StartClock, StopClock
      <4>2. runflag \in [Procs -> BOOLEAN] /\ thread \in [Procs -> BOOLEAN]
        OBVIOUS
      <4>3. QED
        BY <4>1, <4>2, ClockType
    <3>4. UNCHANGED <<opts, state, child, test, forks, cpuVars, msr, call, results>>
      BY <2>2
    <3>5. QED
      BY <3>1, <3>2, <3>3, <3>4
  <2>3. ASSUME NEW p \in Procs,
               \/ Teardown(p) \/ JoinLostThread(p) \/ CheckMsrFails(p) \/ MsrError(p)
               \/ Abort(p) \/ CharacterizeDies(p) \/ ForkError(p)
        PROVE  TypeOK'
    <3> USE DEF Teardown, JoinLostThread, CheckMsrFails, MsrError, Abort, CharacterizeDies, ForkError,
                StopClock, Exit
    <3>1. state' \in [Procs -> States]
      <4>1. \E status \in States : state' = [state EXCEPT ![p] = status]
        BY <2>3
      <4>2. QED
        BY <4>1
    <3>2. runflag' \in [Procs -> BOOLEAN] /\ thread' \in [Procs -> BOOLEAN]
      <4>1. /\ runflag' = runflag \/ \E b \in BOOLEAN : runflag' = [runflag EXCEPT ![p] = b]
            /\ thread' = thread \/ \E b \in BOOLEAN : thread' = [thread EXCEPT ![p] = b]
        BY <2>3
      <4>2. runflag \in [Procs -> BOOLEAN] /\ thread \in [Procs -> BOOLEAN]
        OBVIOUS
      <4>3. QED
        BY <4>1, <4>2, ClockType
    <3>3. UNCHANGED <<opts, child, placeVars, cpuVars, msr, call, results>>
      BY <2>3
    <3>4. QED
      BY <3>1, <3>2, <3>3
  <2>4. ASSUME NEW p \in Procs, NextTest(p) PROVE TypeOK'
    <3>1. test' \in [Procs -> 0..NumTests]
      BY <2>4 DEF NextTest
    <3>2. phase' \in [Procs -> Phases]
      BY <2>4 DEF NextTest
    <3>3. QED
      BY <2>4, <3>1, <3>2 DEF NextTest
  <2>5. ASSUME NEW p \in Procs, ReadMsr(p) \/ WriteMsr(p) \/ CheckMsr(p) PROVE TypeOK'
    <3>1. /\ msr' \in [Cpus -> SUBSET Prefetchers]
          /\ step' \in [Procs -> 0..NumPrefetchers]
          /\ call' \in [Procs -> [at : {"read", "write", "check"}, word : SUBSET Prefetchers]]
      BY <2>5, AccessType
    <3>2. UNCHANGED <<opts, state, child, phase, test, forks, cpuVars, clockVars, results>>
      BY <2>5 DEF ReadMsr, WriteMsr, CheckMsr
    <3>3. QED
      BY <3>1, <3>2
  <2>6. ASSUME NEW p \in Procs, PreTestDone(p) PROVE TypeOK'
    <3>1. test[p] # 0
      BY <2>6 DEF PreTestDone, TestChosen, TestPhases
    <3>2. forks' \in [Procs -> Nat]
      BY <2>6, <3>1, ForksType DEF PreTestDone
    <3>3. phase' \in [Procs -> Phases] /\ step' \in [Procs -> 0..NumPrefetchers]
      BY <2>6 DEF PreTestDone
    <3>4. UNCHANGED <<opts, state, child, test, cpuVars, clockVars, msr, call, results>>
      BY <2>6 DEF PreTestDone
    <3>5. QED
      BY <3>2, <3>3, <3>4
  <2>7. ASSUME NEW p \in Procs, IdentifyDone(p) PROVE TypeOK'
    <3>1. test[p] # 0
      BY <2>7 DEF IdentifyDone, TestChosen, TestPhases
    <3>2. forks' \in [Procs -> Nat]
      BY <2>7, <3>1, ForksType DEF IdentifyDone
    <3>3. phase' \in [Procs -> Phases]
      BY <2>7 DEF IdentifyDone, PostPhase
    <3>4. UNCHANGED <<opts, state, child, test, step, cpuVars, clockVars, msr, call, results>>
      BY <2>7 DEF IdentifyDone
    <3>5. QED
      BY <3>2, <3>3, <3>4
  <2>8. ASSUME NEW p \in Procs, Dump(p) PROVE TypeOK'
    <3>1. phase' \in [Procs -> Phases]
      BY <2>8 DEF Dump
    <3>2. results' \in [Tests -> {"none", "truncated", "complete"}]
      BY <2>8 DEF Dump
    <3>3. UNCHANGED <<opts, state, child, test, step, forks, cpuVars, clockVars, msr, call>>
      BY <2>8 DEF Dump
    <3>4. QED
      BY <3>1, <3>2, <3>3
  <2>9. ASSUME NEW p \in Procs, Fork(p) PROVE TypeOK'
    <3> PICK c \in Procs :
          /\ state' = [state EXCEPT ![p] = "wait", ![c] = "forked"]
          /\ child' = [child EXCEPT ![p] = c]
          /\ phase' = CopyOf(phase, p, c)
          /\ test' = CopyOf(test, p, c)
          /\ step' = CopyOf(step, p, c)
          /\ forks' = [forks EXCEPT ![p] = @ - 1, ![c] = forks[p] - 1]
          /\ affinity' = CopyOf(affinity, p, c)
          /\ cpu' = CopyOf(cpu, p, c)
          /\ call' = CopyOf(call, p, c)
          /\ runflag' = CopyOf(runflag, p, c)
          /\ thread' = [thread EXCEPT ![c] = FALSE]
      BY <2>9 DEF Fork
    <3>1. affinity' \in [Procs -> SUBSET Cpus] /\ cpu' \in [Procs -> Cpus]
      BY CopyType
    <3>2. /\ runflag' \in [Procs -> BOOLEAN]
          /\ thread' \in [Procs -> BOOLEAN]
      BY CopyType, Update
    <3>3. forks' \in [Procs -> Nat]
      <4>1. forks[p] \in Nat /\ forks[p] > 0
        BY <2>9 DEF Fork
      <4>2. forks[p] - 1 \in Nat
        BY <4>1
      <4>3. QED
        BY <4>2
    <3>4. /\ phase' \in [Procs -> Phases]
          /\ test' \in [Procs -> 0..NumTests]
          /\ step' \in [Procs -> 0..NumPrefetchers]
          /\ call' \in [Procs -> [at : {"read", "write", "check"}, word : SUBSET Prefetchers]]
      BY CopyType
    <3>5. /\ state' \in [Procs -> States]
          /\ child' \in [Procs -> Procs]
      OBVIOUS
    <3>6. UNCHANGED <<opts, msr, results>>
      BY <2>9 DEF Fork
    <3>7. QED
      BY <3>1, <3>2, <3>3, <3>4, <3>5, <3>6
  <2>10. ASSUME NEW p \in Procs, Exec(p) PROVE TypeOK'
    <3>1. /\ state' \in [Procs -> States]
          /\ affinity' \in [Procs -> SUBSET Cpus]
          /\ cpu' \in [Procs -> Cpus]
      BY <2>10, ExecType
    <3>2. QED
      BY <2>10, <3>1 DEF Exec
  <2>11. ASSUME NEW p \in Procs, HelperExit(p) PROVE TypeOK'
    BY <2>11 DEF HelperExit
  <2>12. ASSUME NEW p \in Procs, Reap(p) PROVE TypeOK'
    <3>1. state' \in [Procs -> States] /\ child' \in [Procs -> Procs]
      BY <2>12 DEF Reap
    <3>2. UNCHANGED <<opts, placeVars, cpuVars, clockVars, msr, call, results>>
      BY <2>12 DEF Reap
    <3>3. QED
      BY <3>1, <3>2
  <2>13. ASSUME NEW p \in Procs, Migrate(p) PROVE TypeOK'
    <3>1. cpu' \in [Procs -> Cpus]
      BY <2>13, MigrateType
    <3>2. QED
      BY <2>13, <3>1 DEF Migrate
  <2>14. CASE UNCHANGED vars
    BY <2>14 DEF vars
  <2>15. QED
    BY <2>1, <2>2, <2>3, <2>4, <2>5, <2>7, <2>8, <2>9, <2>10, <2>11, <2>12, <2>13,
       <2>14, <2>6 DEF Next, Proceed, Done
<1>2. QED
  BY <1>1, TestChosenStep DEF TypeInv

\* In every reachable state every variable of the harness is in its domain,
\* and a process inside TestCaseBase::run() has chosen a testcase.
THEOREM TypeCorrect == Spec => [](TypeOK /\ TestChosen)
<1>1. Init => TypeInv
  BY ConstantsAssumption DEF Init, TypeInv, TypeOK, TestChosen, TestPhases, States,
     Phases, Tests, Unknown, NoCall
<1>2. QED
  BY <1>1, TypeStep, PTL DEF Spec, TypeInv

------------------------------------------------------------------------------
\* fork() blocks the parent, so only one process executes

\* The active process moves on, or ends, and stays the only active one.
LEMMA StaysActive ==
  ASSUME TypeOK, OneActive, NEW p \in Procs, ~Parked(p),
         NEW s, s \notin {"free", "wait"}, state' = [state EXCEPT ![p] = s]
  PROVE  OneActive'
<1>1. \A q \in Procs \ {p} : Parked(q)
  BY DEF OneActive
<1>2. state \in [Procs -> States]
  BY DEF TypeOK
<1>3. state'[p] = s /\ \A q \in Procs \ {p} : state'[q] = state[q]
  BY <1>2
<1>4. QED
  BY <1>1, <1>3 DEF OneActive, Parked

\* No step gives a second process the CPU.
LEMMA OneActiveStep == TypeOK /\ OneActive /\ [Next]_vars => OneActive'
<1> SUFFICES ASSUME TypeOK, OneActive, [Next]_vars PROVE OneActive'
  OBVIOUS
<1>1. ASSUME UNCHANGED state PROVE OneActive'
  BY <1>1 DEF OneActive, Parked
<1>2. ASSUME NEW p \in Procs,
             \/ Pin(p) \/ InitClock(p) \/ Calibrate(p) \/ StopOwnClock(p) \/ NextTest(p)
             \/ EndOfTests(p) \/ ReadMsr(p) \/ WriteMsr(p) \/ CheckMsr(p) \/ PreTestDone(p)
             \/ IdentifyDone(p) \/ CharacterizeDone(p) \/ StartOwnClock(p)
             \/ PostTestDone(p) \/ Dump(p) \/ Migrate(p)
      PROVE  OneActive'
  BY <1>1, <1>2 DEF Pin, InitClock, Calibrate, StopOwnClock, NextTest, EndOfTests,
     ReadMsr, WriteMsr, CheckMsr, PreTestDone, IdentifyDone, CharacterizeDone, StartOwnClock,
     PostTestDone, Dump, Migrate
<1>3. ASSUME NEW p \in Procs,
             \/ Teardown(p) \/ JoinLostThread(p) \/ CheckMsrFails(p) \/ MsrError(p) \/ Abort(p)
             \/ CharacterizeDies(p) \/ ForkError(p)
      PROVE  OneActive'
  <2>1. ~Parked(p)
    BY <1>3 DEF Teardown, JoinLostThread, CheckMsrFails, MsrError, Abort, CharacterizeDies,
       ForkError, Setting, Running, Parked
  <2>2. \E s : s \notin {"free", "wait"} /\ state' = [state EXCEPT ![p] = s]
    BY <1>3 DEF Teardown, JoinLostThread, CheckMsrFails, MsrError, Abort, CharacterizeDies,
       ForkError, Exit
  <2>3. QED
    BY <2>1, <2>2, StaysActive
<1>4. ASSUME NEW p \in Procs, Exec(p) \/ HelperExit(p) PROVE OneActive'
  <2>1. ~Parked(p)
    BY <1>4 DEF Exec, HelperExit, Parked
  <2>2. \E s : s \notin {"free", "wait"} /\ state' = [state EXCEPT ![p] = s]
    BY <1>4 DEF Exec, HelperExit
  <2>3. QED
    BY <2>1, <2>2, StaysActive
<1>5. ASSUME NEW p \in Procs, Fork(p) PROVE OneActive'
  <2>1. PICK c \in Procs :
          state[c] = "free" /\ state' = [state EXCEPT ![p] = "wait", ![c] = "forked"]
    BY <1>5 DEF Fork
  <2>2. state[p] = "run" /\ c # p /\ ~Parked(p)
    BY <1>5, <2>1 DEF Fork, Running, Parked
  <2>3. \A q \in Procs \ {p} : Parked(q)
    BY <2>2 DEF OneActive
  <2>4. /\ state'[c] = "forked" /\ state'[p] = "wait"
        /\ \A q \in Procs \ {p, c} : state'[q] = state[q]
    BY <2>1, <2>2 DEF TypeOK
  <2>5. QED
    BY <2>3, <2>4 DEF OneActive, Parked
<1>6. ASSUME NEW p \in Procs, Reap(p) PROVE OneActive'
  <2> DEFINE c == child[p]
  <2>1. /\ c \in Procs /\ c # p /\ ~Parked(c)
        /\ state' = [state EXCEPT ![p] = "run", ![c] = "free"]
    BY <1>6 DEF Reap, TypeOK, Parked
  <2>2. \A q \in Procs \ {c} : Parked(q)
    BY <2>1 DEF OneActive
  <2>3. /\ state'[p] = "run" /\ state'[c] = "free"
        /\ \A q \in Procs \ {p, c} : state'[q] = state[q]
    BY <2>1 DEF TypeOK
  <2>4. QED
    BY <2>2, <2>3 DEF OneActive, Parked
<1>7. CASE UNCHANGED vars
  BY <1>1, <1>7 DEF vars
<1>8. QED
  BY <1>2, <1>3, <1>4, <1>5, <1>6, <1>7 DEF Next, Proceed, Done

\* At any time exactly one process executes, whatever fails: a helper never
\* overlaps a measurement, and no two copies of the benchmark run at once.
THEOREM OnlyOneExecutes == Spec => []OneActive
<1>1. Init => OneActive
  BY ConstantsAssumption DEF Init, OneActive, Parked
<1>2. QED
  BY <1>1, OneActiveStep, TypeCorrect, PTL DEF Spec

------------------------------------------------------------------------------
\* Calls of set_*_prefetcher are atomic, whatever fails

\* A process runs on one of the CPUs that it may run on.
OnItsCpus == \A p \in Procs : cpu[p] \in affinity[p]

\* Only pre_test and post_test are ever inside a call.
CallPhase ==
  \A p \in Procs : call[p].at # "read" => phase[p] \in {"pre", "post"} /\ Programming(p)

\* Only tests fork, wait for a helper or become one.
WaitPhase ==
  \A p \in Procs : state[p] \in {"wait", "forked", "exec"}
                     => phase[p] \in {"identify", "characterize"}

AtomicInv == OnItsCpus /\ CallPhase /\ WaitPhase /\ CallsAtomic

Helping == {"wait", "forked", "exec"}

\* A step of one process that leaves the MSRs and all calls alone, outside of a
\* call or as the last one of the process.
LEMMA QuietStep ==
  ASSUME TypeOK, AtomicInv, NEW p \in Procs, call' = call, msr' = msr,
         \A q \in Procs \ {p} :
           /\ state'[q] = state[q] /\ phase'[q] = phase[q] /\ test'[q] = test[q]
           /\ step'[q] = step[q] /\ affinity'[q] = affinity[q] /\ cpu'[q] = cpu[q],
         \/ call[p].at = "read"
         \/ /\ state'[p] # "run" /\ phase'[p] = phase[p]
            /\ test'[p] = test[p] /\ step'[p] = step[p],
         cpu'[p] \in affinity'[p],
         state'[p] \in Helping => phase'[p] \in {"identify", "characterize"}
  PROVE  AtomicInv'
<1>1. OnItsCpus' /\ WaitPhase'
  BY DEF AtomicInv, OnItsCpus, WaitPhase, Helping
<1>2. CallPhase'
  BY DEF AtomicInv, CallPhase, Programming
<1>3. ASSUME NEW q \in Procs, state'[q] = "run", OneMsr(q)'
      PROVE  /\ call'[q].at = "write" =>
                  call'[q].word = Changed(msr[MsrCpu(q)], step[q] + 1, Wanted(q))'
             /\ call'[q].at = "check" => call'[q].word = msr'[MsrCpu(q)']
  <2>1. CASE q = p
    BY <1>3, <2>1
  <2>2. CASE q # p
    BY <1>3, <2>2 DEF AtomicInv, CallsAtomic, OneMsr, MsrCpu, Wanted
  <2>3. QED
    BY <2>1, <2>2
<1>4. CallsAtomic'
  BY <1>3 DEF CallsAtomic
<1>5. QED
  BY <1>1, <1>2, <1>4 DEF AtomicInv

\* The accesses of a call: no other process runs.
LEMMA AtomicAccess ==
  ASSUME TypeOK, OneActive, AtomicInv, NEW p \in Procs,
         ReadMsr(p) \/ WriteMsr(p) \/ CheckMsr(p)
  PROVE  AtomicInv'
<1>1. /\ UNCHANGED <<state, phase, test, affinity, cpu>> /\ state[p] = "run"
      /\ phase[p] \in {"pre", "post"} /\ Programming(p)
  BY DEF ReadMsr, WriteMsr, CheckMsr, Setting, Running, placeVars, cpuVars
<1>2. OnItsCpus' /\ WaitPhase'
  BY <1>1 DEF AtomicInv, OnItsCpus, WaitPhase
<1>3. \A q \in Procs \ {p} : call'[q] = call[q] /\ step'[q] = step[q] /\ state'[q] # "run"
  <2>1. \A q \in Procs \ {p} : Parked(q)
    BY <1>1 DEF OneActive, Parked
  <2>2. \A q \in Procs \ {p} : call'[q] = call[q] /\ step'[q] = step[q]
    BY DEF ReadMsr, WriteMsr, CheckMsr, placeVars, TypeOK
  <2>3. QED
    BY <1>1, <2>1, <2>2 DEF Parked
<1>4. UNCHANGED <<MsrCpu(p), Wanted(p)>> /\ OneMsr(p)' = OneMsr(p)
  BY <1>1 DEF MsrCpu, Wanted, OneMsr
<1>5. CASE ReadMsr(p)
  <2>1. /\ UNCHANGED <<step, msr>>
        /\ call'[p] = [at |-> "write", word |-> Changed(msr[MsrCpu(p)], step[p] + 1, Wanted(p))]
    BY <1>5 DEF ReadMsr, placeVars, TypeOK
  <2>2. CallPhase'
    BY <1>1, <1>3, <2>1 DEF AtomicInv, CallPhase, Programming
  <2>3. CallsAtomic'
    BY <1>3, <1>4, <2>1 DEF CallsAtomic
  <2>4. QED
    BY <1>2, <2>2, <2>3 DEF AtomicInv
<1>6. CASE WriteMsr(p)
  <2>1. step' = step /\ call'[p].at = "check" /\ call'[p].word = call[p].word
    BY <1>6 DEF WriteMsr, placeVars, TypeOK
  <2>2. msr'[MsrCpu(p)] = call[p].word
    <3>1. MsrCpu(p) \in Cpus
      BY ConstantsAssumption DEF MsrCpu, TypeOK
    <3>2. QED
      BY <1>6, <3>1 DEF WriteMsr, TypeOK
  <2>3. CallPhase'
    BY <1>1, <1>3, <2>1 DEF AtomicInv, CallPhase, Programming
  <2>4. CallsAtomic'
    BY <1>3, <1>4, <2>1, <2>2 DEF CallsAtomic
  <2>5. QED
    BY <1>2, <2>3, <2>4 DEF AtomicInv
<1>7. CASE CheckMsr(p)
  <2>1. call'[p].at = "read"
    BY <1>7 DEF CheckMsr, NoCall, TypeOK
  <2>2. CallPhase'
    BY <1>1, <1>3, <2>1 DEF AtomicInv, CallPhase, Programming
  <2>3. CallsAtomic'
    BY <1>3, <2>1 DEF CallsAtomic
  <2>4. QED
    BY <1>2, <2>2, <2>3 DEF AtomicInv
<1>8. QED
  BY <1>5, <1>6, <1>7


\* The kernel moves a process: one that is inside a call and may move has not
\* named its CPU, and is not held to it either.
LEMMA AtomicMigrate ==
  ASSUME TypeOK, AtomicInv, NEW p \in Procs, Migrate(p)
  PROVE  AtomicInv'
<1>1. PICK x \in affinity[p] : x # cpu[p] /\ cpu' = [cpu EXCEPT ![p] = x]
  BY DEF Migrate
<1>2. /\ UNCHANGED <<state, phase, test, step, call, affinity, msr>>
      /\ cpu'[p] = x /\ \A q \in Procs \ {p} : cpu'[q] = cpu[q]
  BY <1>1 DEF Migrate, placeVars, TypeOK
<1>3. OnItsCpus' /\ CallPhase' /\ WaitPhase'
  BY <1>1, <1>2 DEF AtomicInv, OnItsCpus, CallPhase, WaitPhase, Programming
<1>4. CASE test[p] \in ByTarget
  BY <1>2, <1>3, <1>4 DEF AtomicInv, CallsAtomic, OneMsr, MsrCpu, Wanted
<1>5. CASE test[p] \notin ByTarget
  <2>1. ~OneMsr(p)'
    <3>1. cpu[p] \in affinity'[p] /\ cpu[p] # cpu'[p]
      BY <1>1, <1>2 DEF AtomicInv, OnItsCpus
    <3>2. QED
      BY <1>2, <1>5, <3>1 DEF OneMsr
  <2>2. CallsAtomic'
    BY <1>2, <2>1 DEF AtomicInv, CallsAtomic, OneMsr, MsrCpu, Wanted
  <2>3. QED
    BY <1>3, <2>2 DEF AtomicInv
<1>6. QED
  BY <1>4, <1>5

\* A fork copies a process that is in no call, and a wait ends in one.
LEMMA AtomicHelper ==
  ASSUME TypeOK, AtomicInv, NEW p \in Procs, Fork(p) \/ Reap(p)
  PROVE  AtomicInv'
<1>1. CASE Fork(p)
  <2>1. PICK c \in Procs :
          /\ state[c] = "free"
          /\ state' = [state EXCEPT ![p] = "wait", ![c] = "forked"]
          /\ phase' = CopyOf(phase, p, c) /\ test' = CopyOf(test, p, c)
          /\ step' = CopyOf(step, p, c) /\ call' = CopyOf(call, p, c)
          /\ affinity' = CopyOf(affinity, p, c) /\ cpu' = CopyOf(cpu, p, c)
    BY <1>1 DEF Fork
  <2>2. /\ state[p] = "run" /\ phase[p] \in {"identify", "characterize"}
        /\ c # p /\ call[p].at = "read" /\ msr' = msr
    BY <1>1, <2>1 DEF Fork, Running, AtomicInv, CallPhase
  <2>3. \A q \in Procs \ {c} :
          /\ phase'[q] = phase[q] /\ test'[q] = test[q] /\ step'[q] = step[q]
          /\ call'[q] = call[q] /\ affinity'[q] = affinity[q] /\ cpu'[q] = cpu[q]
    BY <2>1 DEF CopyOf, TypeOK
  <2>4. /\ phase'[c] = phase[p] /\ call'[c] = call[p]
        /\ affinity'[c] = affinity[p] /\ cpu'[c] = cpu[p]
    BY <2>1 DEF CopyOf, TypeOK
  <2>5. /\ state'[p] = "wait" /\ state'[c] = "forked"
        /\ \A q \in Procs \ {p, c} : state'[q] = state[q]
    BY <2>1, <2>2 DEF TypeOK
  <2>6. OnItsCpus'
    BY <2>3, <2>4 DEF AtomicInv, OnItsCpus
  <2>7. CallPhase'
    BY <2>2, <2>3, <2>4 DEF AtomicInv, CallPhase, Programming
  <2>8. WaitPhase'
    BY <2>2, <2>3, <2>4, <2>5 DEF AtomicInv, WaitPhase
  <2>9. CallsAtomic'
    BY <2>2, <2>3, <2>5 DEF AtomicInv, CallsAtomic, OneMsr, MsrCpu, Wanted
  <2>10. QED
    BY <2>6, <2>7, <2>8, <2>9 DEF AtomicInv
<1>2. CASE Reap(p)
  <2>1. UNCHANGED <<phase, test, step, call, affinity, cpu, msr>>
    BY <1>2 DEF Reap, placeVars, cpuVars
  <2>2. /\ state[p] = "wait" /\ child[p] # p
        /\ state'[p] = "run" /\ state'[child[p]] = "free"
        /\ \A q \in Procs \ {p, child[p]} : state'[q] = state[q]
    BY <1>2 DEF Reap, TypeOK
  <2>3. call[p].at = "read"
    BY <2>2 DEF AtomicInv, WaitPhase, CallPhase
  <2>4. OnItsCpus' /\ CallPhase'
    BY <2>1 DEF AtomicInv, OnItsCpus, CallPhase, Programming
  <2>5. WaitPhase'
    BY <2>1, <2>2 DEF AtomicInv, WaitPhase, TypeOK
  <2>6. CallsAtomic'
    BY <2>1, <2>2, <2>3 DEF AtomicInv, CallsAtomic, OneMsr, MsrCpu, Wanted
  <2>7. QED
    BY <2>4, <2>5, <2>6 DEF AtomicInv
<1>3. QED
  BY <1>1, <1>2

\* Every step keeps calls atomic.
LEMMA AtomicStep ==
  ASSUME TypeInv, OneActive, AtomicInv, [Next]_vars
  PROVE  AtomicInv'
<1> USE DEF Goto, placeVars, cpuVars, clockVars
<1>1. TypeOK
  BY DEF TypeInv
<1>2. \A p \in Procs : call[p].at \in {"read", "write", "check"}
  BY <1>1 DEF TypeOK
<1>3. ASSUME NEW p \in Procs, call' = call, msr' = msr, UNCHANGED <<state, affinity, cpu>>,
             NEW ph, phase' = [phase EXCEPT ![p] = ph], call[p].at = "read",
             \A q \in Procs \ {p} : test'[q] = test[q] /\ step'[q] = step[q],
             state[p] = "run"
      PROVE  AtomicInv'
  <2>1. \A q \in Procs \ {p} : phase'[q] = phase[q]
    BY <1>1, <1>3 DEF TypeOK
  <2>2. cpu'[p] \in affinity'[p] /\ state'[p] \notin Helping
    BY <1>3 DEF AtomicInv, OnItsCpus, Helping
  <2>3. QED
    BY <1>1, <1>3, <2>1, <2>2, QuietStep
<1>4. ASSUME NEW p \in Procs, Pin(p) PROVE AtomicInv'
  <2>1. \A q \in Procs \ {p} : phase'[q] = phase[q] /\ affinity'[q] = affinity[q] /\ cpu'[q] = cpu[q]
    BY <1>1, <1>4 DEF Pin, TypeOK
  <2>2. cpu'[p] \in affinity'[p]
    BY <1>1, <1>4 DEF Pin, TypeOK, AtomicInv, OnItsCpus
  <2>3. call[p].at = "read" /\ state'[p] \notin Helping
    BY <1>4 DEF Pin, Running, AtomicInv, CallPhase, Helping
  <2>4. QED
    BY <1>1, <1>4, <2>1, <2>2, <2>3, QuietStep DEF Pin
<1>5. ASSUME NEW p \in Procs,
             \/ InitClock(p) \/ Calibrate(p) \/ NextTest(p) \/ EndOfTests(p) \/ StopOwnClock(p)
             \/ PreTestDone(p) \/ IdentifyDone(p) \/ CharacterizeDone(p) \/ StartOwnClock(p)
             \/ PostTestDone(p) \/ Dump(p)
      PROVE  AtomicInv'
  <2> USE DEF InitClock, Calibrate, NextTest, EndOfTests, StopOwnClock, PreTestDone,
        IdentifyDone, CharacterizeDone, StartOwnClock, PostTestDone, Dump
  <2>1. call[p].at = "read" /\ state[p] = "run"
    BY <1>5 DEF Running, AtomicInv, CallPhase
  <2>2. call' = call /\ msr' = msr /\ UNCHANGED <<state, affinity, cpu>>
    BY <1>5
  <2>3. \A q \in Procs \ {p} : test'[q] = test[q] /\ step'[q] = step[q]
    BY <1>1, <1>5 DEF TypeOK
  <2>4. \E ph : phase' = [phase EXCEPT ![p] = ph]
    BY <1>5
  <2>5. QED
    BY <1>3, <2>1, <2>2, <2>3, <2>4
<1>6. ASSUME NEW p \in Procs,
             \/ Teardown(p) \/ JoinLostThread(p) \/ CheckMsrFails(p) \/ MsrError(p) \/ Abort(p)
             \/ CharacterizeDies(p) \/ ForkError(p) \/ HelperExit(p)
      PROVE  AtomicInv'
  <2>1. /\ UNCHANGED <<phase, test, step, affinity, cpu, call, msr>>
        /\ \E s : s \notin Helping \union {"run"} /\ state' = [state EXCEPT ![p] = s]
    BY <1>6 DEF Teardown, JoinLostThread, CheckMsrFails, MsrError, Abort, CharacterizeDies,
       ForkError, HelperExit, Exit, Helping
  <2>2. /\ state'[p] # "run" /\ state'[p] \notin Helping
        /\ \A q \in Procs \ {p} : state'[q] = state[q]
    BY <1>1, <2>1 DEF TypeOK
  <2>3. cpu'[p] \in affinity'[p]
    BY <2>1 DEF AtomicInv, OnItsCpus
  <2>4. QED
    BY <1>1, <2>1, <2>2, <2>3, QuietStep
<1>7. ASSUME NEW p \in Procs, Exec(p) PROVE AtomicInv'
  <2>1. /\ state[p] = "forked" /\ UNCHANGED <<phase, test, step, call, msr>>
        /\ call[p].at = "read" /\ phase[p] \in {"identify", "characterize"}
    BY <1>7 DEF Exec, AtomicInv, WaitPhase, CallPhase
  <2>2. \A q \in Procs \ {p} : state'[q] = state[q]
    BY <1>1, <1>7 DEF Exec, TypeOK
  <2>3. /\ \A q \in Procs \ {p} : affinity'[q] = affinity[q] /\ cpu'[q] = cpu[q]
        /\ cpu'[p] \in affinity'[p]
    <3>1. CASE UNCHANGED cpuVars
      BY <3>1 DEF AtomicInv, OnItsCpus
    <3>2. ASSUME NEW x \in ChildAffinity(p), cpu' = [cpu EXCEPT ![p] = x],
                 affinity' = [affinity EXCEPT ![p] = ChildAffinity(p)]
          PROVE  /\ \A q \in Procs \ {p} : affinity'[q] = affinity[q] /\ cpu'[q] = cpu[q]
                 /\ cpu'[p] \in affinity'[p]
      BY <1>1, <3>2 DEF TypeOK
    <3>3. QED
      BY <1>7, <3>1, <3>2 DEF Exec
  <2>4. QED
    BY <1>1, <2>1, <2>2, <2>3, QuietStep
<1>8. ASSUME NEW p \in Procs,
             ReadMsr(p) \/ WriteMsr(p) \/ CheckMsr(p) \/ Fork(p) \/ Reap(p) \/ Migrate(p)
      PROVE  AtomicInv'
  BY <1>1, <1>8, AtomicAccess, AtomicHelper, AtomicMigrate
<1>9. CASE UNCHANGED vars
  BY <1>9 DEF vars, AtomicInv, OnItsCpus, CallPhase, WaitPhase, CallsAtomic, Programming,
     OneMsr, MsrCpu, Wanted
<1>10. QED
  BY <1>4, <1>5, <1>6, <1>7, <1>8, <1>9 DEF Next, Proceed, Done

\* A process moves only between CPUs that it may run on, tests alone wait for
\* helpers, and calls are atomic.
LEMMA AtomicInvariant == Spec => []AtomicInv
<1>1. Init => AtomicInv
  BY ConstantsAssumption DEF Init, AtomicInv, OnItsCpus, CallPhase, WaitPhase, CallsAtomic, NoCall
<1>2. TypeInv /\ OneActive /\ AtomicInv /\ [Next]_vars => AtomicInv'
  BY AtomicStep
<1>3. QED
  BY <1>1, <1>2, TypeCorrect, OnlyOneExecutes, PTL DEF Spec, TypeInv

\* Whatever fails, and however many copies of the benchmark there are: between
\* the read and the write of a call nobody changes the MSR that it is about, as
\* long as the process cannot leave its CPU or has named one, and the assertion
\* behind the write holds.
THEOREM SetPrefetcherAtomic == Spec => []CallsAtomic
<1>1. AtomicInv => CallsAtomic
  BY DEF AtomicInv
<1>2. QED
  BY <1>1, AtomicInvariant, PTL

------------------------------------------------------------------------------
\* The clock of the process that the user started

\* Nobody forks, waits for or execs Root.
RootApart ==
  /\ state[Root] \notin {"free", "forked", "exec"}
  /\ \A p \in Procs : state[p] = "wait" => child[p] # Root

\* Root has stopped its clock for an external program.
LentClock ==
  /\ test[Root] \in External
  /\ phase[Root] \in {"pre", "identify", "characterize", "start_clock"}

\* While Root lives, its run flag is set exactly when it has a counter thread,
\* which is from clock_init() on, except while it has lent the clock.
ClockInv ==
  state[Root] \in {"run", "wait"} =>
    /\ thread[Root] = runflag[Root]
    /\ runflag[Root] <=> CounterThread /\ phase[Root] \notin {"pin", "clock_init"} /\ ~LentClock
    /\ phase[Root] \in {"stop_clock", "start_clock"} => test[Root] \in External

RootInv == RootApart /\ RootNeverHangs /\ ClockInv

\* A step of another process leaves Root's variables alone, except that a
\* helper's end may let Root go on.
LEMMA OthersStep ==
  ASSUME TypeOK, RootInv, NEW p \in Procs, p # Root, Proceed(p) \/ Migrate(p)
  PROVE  RootInv'
<1> USE ConstantsAssumption DEF Goto, placeVars, cpuVars, clockVars, StartClock, StopClock, Exit
<1>1. CASE Fork(p)
  <2>1. PICK c \in Procs :
          /\ state[c] = "free"
          /\ state' = [state EXCEPT ![p] = "wait", ![c] = "forked"]
          /\ child' = [child EXCEPT ![p] = c]
          /\ phase' = CopyOf(phase, p, c) /\ test' = CopyOf(test, p, c)
          /\ runflag' = CopyOf(runflag, p, c) /\ thread' = [thread EXCEPT ![c] = FALSE]
    BY <1>1 DEF Fork
  <2>2. c # Root
    BY <2>1 DEF RootInv, RootApart
  <2>3. /\ state'[Root] = state[Root] /\ phase'[Root] = phase[Root] /\ test'[Root] = test[Root]
        /\ runflag'[Root] = runflag[Root] /\ thread'[Root] = thread[Root]
    BY <2>1, <2>2 DEF CopyOf, TypeOK
  <2>4. \A q \in Procs : state'[q] = "wait" => child'[q] # Root
    <3>1. child'[p] = c /\ \A q \in Procs \ {p} : child'[q] = child[q]
      BY <2>1 DEF TypeOK
    <3>2. \A q \in Procs \ {p} : state'[q] = "wait" => state[q] = "wait"
      BY <2>1 DEF TypeOK
    <3>3. QED
      BY <2>2, <3>1, <3>2 DEF RootInv, RootApart
  <2>5. QED
    BY <2>3, <2>4 DEF RootInv, RootApart, RootNeverHangs, ClockInv, LentClock
<1>2. CASE Reap(p)
  <2>1. state[p] = "wait" /\ child[p] # Root
    BY <1>2 DEF Reap, RootInv, RootApart
  <2>2. /\ state'[Root] = state[Root]
        /\ \A q \in Procs : state'[q] = "wait" => state[q] = "wait" /\ q # p /\ child'[q] = child[q]
    BY <1>2, <2>1 DEF Reap, TypeOK
  <2>3. UNCHANGED <<phase, test, runflag, thread>>
    BY <1>2 DEF Reap
  <2>4. QED
    BY <2>2, <2>3 DEF RootInv, RootApart, RootNeverHangs, ClockInv, LentClock
<1>3. CASE \/ Pin(p) \/ InitClock(p) \/ Calibrate(p) \/ NextTest(p) \/ EndOfTests(p)
           \/ StopOwnClock(p) \/ ReadMsr(p) \/ WriteMsr(p) \/ CheckMsr(p) \/ PreTestDone(p)
           \/ IdentifyDone(p) \/ CharacterizeDone(p) \/ StartOwnClock(p) \/ PostTestDone(p)
           \/ Dump(p) \/ Migrate(p)
  <2> USE DEF Pin, InitClock, Calibrate, NextTest, EndOfTests, StopOwnClock, ReadMsr, WriteMsr,
        CheckMsr, PreTestDone, IdentifyDone, CharacterizeDone, StartOwnClock, PostTestDone, Dump,
        Migrate
  <2>1. UNCHANGED <<state, child>>
    BY <1>3
  <2>2. phase'[Root] = phase[Root] /\ test'[Root] = test[Root]
    BY <1>3 DEF TypeOK
  <2>3. runflag'[Root] = runflag[Root] /\ thread'[Root] = thread[Root]
    BY <1>3 DEF TypeOK
  <2>4. QED
    BY <2>1, <2>2, <2>3 DEF RootInv, RootApart, RootNeverHangs, ClockInv, LentClock
<1>4. CASE \/ Teardown(p) \/ JoinLostThread(p) \/ CheckMsrFails(p) \/ MsrError(p) \/ Abort(p)
           \/ CharacterizeDies(p) \/ ForkError(p) \/ Exec(p) \/ HelperExit(p)
  <2> USE DEF Teardown, JoinLostThread, CheckMsrFails, MsrError, Abort, CharacterizeDies,
        ForkError, Exec, HelperExit
  <2>1. UNCHANGED <<child, phase, test>>
    BY <1>4
  <2>2. PICK s : s # "wait" /\ state' = [state EXCEPT ![p] = s]
    BY <1>4
  <2>3. /\ state'[Root] = state[Root]
        /\ \A q \in Procs : state'[q] = "wait" => state[q] = "wait"
    BY <2>2 DEF TypeOK
  <2>4. runflag'[Root] = runflag[Root] /\ thread'[Root] = thread[Root]
    BY <1>4 DEF TypeOK
  <2>5. QED
    BY <2>1, <2>3, <2>4 DEF RootInv, RootApart, RootNeverHangs, ClockInv, LentClock
<1>5. QED
  BY <1>1, <1>2, <1>3, <1>4 DEF Proceed

\* A step of Root, which is never somebody's helper.
LEMMA RootStep ==
  ASSUME TypeOK, RootInv, Proceed(Root) \/ Migrate(Root)
  PROVE  RootInv'
<1> USE ConstantsAssumption DEF Goto, placeVars, cpuVars, clockVars, StartClock, StopClock, Exit,
      Running, PostPhase
<1>1. CASE Fork(Root)
  <2>1. PICK c \in Procs :
          /\ state[c] = "free"
          /\ state' = [state EXCEPT ![Root] = "wait", ![c] = "forked"]
          /\ child' = [child EXCEPT ![Root] = c]
          /\ phase' = CopyOf(phase, Root, c) /\ test' = CopyOf(test, Root, c)
          /\ runflag' = CopyOf(runflag, Root, c) /\ thread' = [thread EXCEPT ![c] = FALSE]
    BY <1>1 DEF Fork
  <2>2. c # Root /\ state[Root] = "run"
    BY <1>1, <2>1 DEF RootInv, RootApart, Fork
  <2>3. /\ state'[Root] = "wait" /\ phase'[Root] = phase[Root] /\ test'[Root] = test[Root]
        /\ runflag'[Root] = runflag[Root] /\ thread'[Root] = thread[Root]
    BY <2>1, <2>2 DEF CopyOf, TypeOK
  <2>4. \A q \in Procs : state'[q] = "wait" => child'[q] # Root
    <3>1. child'[Root] = c /\ \A q \in Procs \ {Root} : child'[q] = child[q]
      BY <2>1 DEF TypeOK
    <3>2. \A q \in Procs \ {Root} : state'[q] = "wait" => state[q] = "wait"
      BY <2>1 DEF TypeOK
    <3>3. QED
      BY <2>2, <3>1, <3>2 DEF RootInv, RootApart
  <2>5. QED
    BY <2>2, <2>3, <2>4 DEF RootInv, RootApart, RootNeverHangs, ClockInv, LentClock
<1>2. CASE Reap(Root)
  <2>1. state[Root] = "wait" /\ child[Root] # Root
    BY <1>2 DEF Reap, RootInv, RootApart
  <2>2. /\ state'[Root] = "run"
        /\ \A q \in Procs : state'[q] = "wait" => state[q] = "wait" /\ q # Root /\ child'[q] = child[q]
    BY <1>2, <2>1 DEF Reap, TypeOK
  <2>3. UNCHANGED <<phase, test, runflag, thread>>
    BY <1>2 DEF Reap
  <2>4. QED
    BY <2>1, <2>2, <2>3 DEF RootInv, RootApart, RootNeverHangs, ClockInv, LentClock
<1>3. CASE \/ Pin(Root) \/ InitClock(Root) \/ Calibrate(Root) \/ NextTest(Root) \/ EndOfTests(Root)
           \/ StopOwnClock(Root) \/ ReadMsr(Root) \/ WriteMsr(Root) \/ CheckMsr(Root)
           \/ PreTestDone(Root) \/ IdentifyDone(Root) \/ CharacterizeDone(Root)
           \/ StartOwnClock(Root) \/ PostTestDone(Root) \/ Dump(Root) \/ Migrate(Root)
  <2>1. UNCHANGED <<state, child>>
    BY <1>3 DEF Pin, InitClock, Calibrate, NextTest, EndOfTests, StopOwnClock, ReadMsr, WriteMsr,
       CheckMsr, PreTestDone, IdentifyDone, CharacterizeDone, StartOwnClock, PostTestDone, Dump, Migrate
  <2>2. RootApart' /\ RootNeverHangs'
    BY <2>1 DEF RootInv, RootApart, RootNeverHangs
  <2>3. ASSUME InitClock(Root) \/ StartOwnClock(Root) PROVE ClockInv'
    <3>0. ~runflag[Root] /\ ~thread[Root]
      BY <2>3 DEF InitClock, StartOwnClock, RootInv, ClockInv, LentClock, TypeOK
    <3>1. runflag'[Root] = CounterThread /\ thread'[Root] = CounterThread
      <4>1. CASE CounterThread
        <5>1. /\ runflag' = [runflag EXCEPT ![Root] = TRUE]
              /\ thread' = [thread EXCEPT ![Root] = TRUE]
          BY <2>3, <3>0, <4>1 DEF InitClock, StartOwnClock
        <5>2. runflag'[Root] = TRUE /\ thread'[Root] = TRUE
          BY <5>1 DEF TypeOK
        <5>3. QED
          BY <4>1, <5>2
      <4>2. CASE ~CounterThread
        <5>1. runflag' = runflag /\ thread' = thread
          BY <2>3, <4>2 DEF InitClock, StartOwnClock
        <5>2. CounterThread = FALSE /\ runflag[Root] = FALSE /\ thread[Root] = FALSE
          BY <3>0, <4>2 DEF TypeOK
        <5>3. QED
          BY <5>1, <5>2
      <4>3. QED
        BY <4>1, <4>2
    <3>2. phase'[Root] \in {"calibrate", "post"}
      BY <2>3 DEF InitClock, StartOwnClock, TypeOK
    <3>3. QED
      BY <3>1, <3>2 DEF ClockInv, LentClock
  <2>4. ASSUME StopOwnClock(Root) PROVE ClockInv'
    <3>1. runflag'[Root] = FALSE /\ thread'[Root] = FALSE
      BY <2>4 DEF StopOwnClock, TypeOK
    <3>2. phase'[Root] = "pre" /\ test'[Root] \in External
      BY <2>4 DEF StopOwnClock, RootInv, ClockInv, TypeOK
    <3>3. QED
      BY <3>1, <3>2 DEF ClockInv, LentClock
  <2>5. ASSUME \/ Pin(Root) \/ Calibrate(Root) \/ EndOfTests(Root) \/ ReadMsr(Root)
               \/ WriteMsr(Root) \/ CheckMsr(Root) \/ Migrate(Root) \/ NextTest(Root)
               \/ PreTestDone(Root) \/ IdentifyDone(Root) \/ CharacterizeDone(Root)
               \/ PostTestDone(Root) \/ Dump(Root)
        PROVE ClockInv'
    <3>1. runflag' = runflag /\ thread' = thread
      BY <2>5 DEF Pin, Calibrate, EndOfTests, ReadMsr, WriteMsr, CheckMsr, Migrate, NextTest,
         PreTestDone, IdentifyDone, CharacterizeDone, PostTestDone, Dump
    <3>2. CASE NextTest(Root)
      <4>1. /\ state[Root] = "run" /\ phase[Root] = "next"
            /\ phase'[Root] = IF test'[Root] \in External THEN "stop_clock" ELSE "pre"
        BY <3>2 DEF NextTest, TypeOK
      <4>2. QED
        BY <3>1, <4>1 DEF RootInv, ClockInv, LentClock
    <3>3. CASE Pin(Root) \/ Calibrate(Root) \/ EndOfTests(Root)
      <4>1. /\ state[Root] = "run" /\ test'[Root] = test[Root]
            /\ \/ phase[Root] = "pin" /\ phase'[Root] = "clock_init"
               \/ phase[Root] = "calibrate" /\ phase'[Root] = "next"
               \/ phase[Root] = "next" /\ phase'[Root] = "teardown"
        BY <3>3 DEF Pin, Calibrate, EndOfTests, TypeOK
      <4>2. QED
        BY <3>1, <4>1 DEF RootInv, ClockInv, LentClock
    <3>4. CASE \/ PreTestDone(Root) \/ IdentifyDone(Root) \/ CharacterizeDone(Root)
               \/ PostTestDone(Root) \/ Dump(Root)
      <4>1. /\ state[Root] = "run" /\ test'[Root] = test[Root]
            /\ \/ phase[Root] = "pre" /\ phase'[Root] = "identify"
               \/ phase[Root] = "identify" /\ phase'[Root] = "characterize"
               \/ /\ phase[Root] \in {"identify", "characterize"}
                  /\ phase'[Root] = IF test[Root] \in External THEN "start_clock" ELSE "post"
               \/ phase[Root] = "post" /\ phase'[Root] = "dump"
               \/ phase[Root] = "dump" /\ phase'[Root] = "next"
        BY <3>4 DEF PreTestDone, IdentifyDone, CharacterizeDone, PostTestDone, Dump, TypeOK
      <4>2. QED
        BY <3>1, <4>1 DEF RootInv, ClockInv, LentClock
    <3>5. CASE ReadMsr(Root) \/ WriteMsr(Root) \/ CheckMsr(Root) \/ Migrate(Root)
      <4>1. UNCHANGED <<phase, test>>
        BY <3>5 DEF ReadMsr, WriteMsr, CheckMsr, Migrate
      <4>2. QED
        BY <2>1, <3>1, <4>1 DEF RootInv, ClockInv, LentClock
    <3>6. QED
      BY <2>5, <3>2, <3>3, <3>4, <3>5
  <2>7. ClockInv'
    BY <1>3, <2>3, <2>4, <2>5
  <2>8. QED
    BY <2>2, <2>7 DEF RootInv
<1>4. CASE \/ Teardown(Root) \/ CheckMsrFails(Root) \/ MsrError(Root) \/ Abort(Root)
           \/ CharacterizeDies(Root) \/ ForkError(Root)
  <2>1. child' = child /\ \E s \in {"success", "failure"} : state' = [state EXCEPT ![Root] = s]
    BY <1>4 DEF Teardown, CheckMsrFails, MsrError, Abort, CharacterizeDies, ForkError
  <2>2. QED
    BY <2>1 DEF RootInv, RootApart, RootNeverHangs, ClockInv, TypeOK
<1>5. ~JoinLostThread(Root) /\ ~Exec(Root) /\ ~HelperExit(Root)
  BY DEF JoinLostThread, Exec, HelperExit, RootInv, RootApart, ClockInv
<1>6. QED
  BY <1>1, <1>2, <1>3, <1>4, <1>5 DEF Proceed

LEMMA RootInvariant == Spec => []RootInv
<1>1. Init => RootInv
  BY ConstantsAssumption
     DEF Init, RootInv, RootApart, RootNeverHangs, ClockInv, LentClock
<1>2. TypeOK /\ RootInv /\ [Next]_vars => RootInv'
  <2>1. CASE UNCHANGED vars
    BY <2>1 DEF vars, placeVars, clockVars, RootInv, RootApart, RootNeverHangs, ClockInv, LentClock
  <2>2. QED
    BY <2>1, OthersStep, RootStep DEF Next, Done
<1>3. QED
  BY <1>1, <1>2, TypeCorrect, PTL DEF Spec, TypeInv

\* The process that the user started never waits in join() for a counter
\* thread that fork() did not copy, although its copies may.
THEOREM RootNeverJoinsLost == Spec => []RootNeverHangs
<1>1. RootInv => RootNeverHangs
  BY DEF RootInv
<1>2. QED
  BY <1>1, RootInvariant, PTL

\* With any number of testcases that stop the clock for an external program and
\* any failures in between, calibration and measurement have a running clock.
THEOREM RootClockTicks == Spec => []ClockTicks
<1>1. RootInv => ClockTicks
  BY DEF RootInv, ClockInv, LentClock, ClockTicks, Measuring, Running
<1>2. QED
  BY <1>1, RootInvariant, PTL

------------------------------------------------------------------------------
\* Without failing execvp the process that the user started is the only copy of
\* the benchmark.

\* The other processes are helpers at some point of their lives.
OnlyRoot ==
  /\ state[Root] \in {"run", "wait", "hung", "success", "failure"}
  /\ state[Root] = "success" => phase[Root] = "teardown"
  /\ \A p \in Procs \ {Root} : state[p] \in {"free", "forked", "exec", "success"}

\* Without failing execvp, no step makes a second copy of the benchmark.
LEMMA OnlyRootStep ==
  ASSUME "exec" \notin Faults, TypeOK, OnlyRoot, [Next]_vars
  PROVE  OnlyRoot'
<1> USE ConstantsAssumption DEF Goto, Running, Setting, Exit, placeVars
<1>1. ASSUME UNCHANGED state, phase'[Root] = phase[Root] \/ state[Root] # "success"
      PROVE  OnlyRoot'
  BY <1>1 DEF OnlyRoot
<1>2. ASSUME NEW p \in Procs,
             \/ Pin(p) \/ InitClock(p) \/ Calibrate(p) \/ NextTest(p) \/ EndOfTests(p)
             \/ StopOwnClock(p) \/ ReadMsr(p) \/ WriteMsr(p) \/ CheckMsr(p) \/ PreTestDone(p)
             \/ IdentifyDone(p) \/ CharacterizeDone(p) \/ StartOwnClock(p) \/ PostTestDone(p)
             \/ Dump(p)
      PROVE  OnlyRoot'
  <2>1. UNCHANGED state /\ state[p] = "run"
    BY <1>2 DEF Pin, InitClock, Calibrate, NextTest, EndOfTests, StopOwnClock, ReadMsr, WriteMsr,
       CheckMsr, PreTestDone, IdentifyDone, CharacterizeDone, StartOwnClock, PostTestDone, Dump
  <2>2. p = Root
    BY <2>1 DEF OnlyRoot
  <2>3. QED
    BY <1>1, <2>1, <2>2
<1>3. ASSUME NEW p \in Procs,
             \/ Teardown(p) \/ JoinLostThread(p) \/ CheckMsrFails(p) \/ MsrError(p) \/ Abort(p)
             \/ CharacterizeDies(p) \/ ForkError(p)
      PROVE  OnlyRoot'
  <2> USE DEF Teardown, JoinLostThread, CheckMsrFails, MsrError, Abort, CharacterizeDies, ForkError
  <2>1. p = Root /\ phase' = phase
    BY <1>3 DEF OnlyRoot
  <2>2. \E s \in {"hung", "failure", "success"} :
          /\ state' = [state EXCEPT ![Root] = s]
          /\ s = "success" => phase[Root] = "teardown"
    BY <1>3, <2>1
  <2>3. QED
    BY <2>1, <2>2 DEF OnlyRoot, TypeOK
<1>4. ASSUME NEW p \in Procs, Exec(p) \/ HelperExit(p) PROVE OnlyRoot'
  <2>1. p # Root /\ phase' = phase /\ \E s \in {"exec", "success"} : state' = [state EXCEPT ![p] = s]
    BY <1>4 DEF Exec, HelperExit, OnlyRoot
  <2>2. QED
    BY <2>1 DEF OnlyRoot, TypeOK
<1>5. ASSUME NEW p \in Procs, Fork(p) PROVE OnlyRoot'
  <2>1. PICK c \in Procs :
          state[c] = "free" /\ state' = [state EXCEPT ![p] = "wait", ![c] = "forked"]
    BY <1>5 DEF Fork
  <2>2. p = Root /\ c # Root
    BY <1>5, <2>1 DEF OnlyRoot, Fork
  <2>3. QED
    BY <2>1, <2>2 DEF OnlyRoot, TypeOK
<1>6. ASSUME NEW p \in Procs, Reap(p) PROVE OnlyRoot'
  <2>1. p = Root /\ child[p] \in Procs \ {Root}
    BY <1>6 DEF OnlyRoot, Reap, TypeOK
  <2>2. state'[Root] = "run" /\ \A q \in Procs \ {Root} : state'[q] \in {state[q], "free"}
    BY <1>6, <2>1 DEF Reap, TypeOK
  <2>3. QED
    BY <2>2 DEF OnlyRoot
<1>7. ASSUME NEW p \in Procs, Migrate(p) PROVE OnlyRoot'
  BY <1>1, <1>7 DEF Migrate
<1>8. CASE UNCHANGED vars
  BY <1>1, <1>8 DEF vars
<1>9. QED
  BY <1>2, <1>3, <1>4, <1>5, <1>6, <1>7, <1>8 DEF Next, Proceed, Done

LEMMA OnlyRootInvariant ==
  ASSUME "exec" \notin Faults
  PROVE  Spec => []OnlyRoot
<1>1. Init => OnlyRoot
  BY ConstantsAssumption DEF Init, OnlyRoot
<1>2. TypeOK /\ OnlyRoot /\ [Next]_vars => OnlyRoot'
  BY OnlyRootStep
<1>3. QED
  BY <1>1, <1>2, TypeCorrect, PTL DEF Spec

------------------------------------------------------------------------------
\* A successful run leaves the prefetchers of the target CPU enabled, whatever
\* copies of the benchmark did to its MSR.  Copies run only while Root waits for
\* them in a test, and post_test of that testcase comes after it.

\* A run that ended successfully ended behind its test loop.
SuccessAtEnd == state[Root] = "success" => phase[Root] = "teardown"

\* Whoever forks helpers programs the MSRs, as all testcases do on Intel.
ForkingIsProgrammed ==
  \A t \in Tests : IdentifyForks[t] > 0 \/ CharacterizeForks[t] > 0 => t \in Programmed

\* Then Root forks and waits for helpers only in a testcase that programs them.
ForksProgrammed == ForkingIsProgrammed =>
  /\ phase[Root] \in {"identify", "characterize"} /\ forks[Root] > 0 => test[Root] \in Programmed
  /\ state[Root] = "wait" => test[Root] \in Programmed

\* Only pre_test and post_test leave their first call of set_*_prefetcher behind
\* them.
Stepping == phase[Root] \notin {"pre", "post"} => step[Root] = 0

\* How far post_test has got with the MSR of the target CPU.
PostProgress ==
  test[Root] \in Programmed /\ phase[Root] = "post" =>
    /\ \A k \in 1..step[Root] : k \notin msr[TargetCpu]
    /\ call[Root].at = "check" => step[Root] + 1 \notin msr[TargetCpu]

\* The current testcase is between its first MSR write and its last one.
InFlight ==
  /\ test[Root] \in Programmed
  /\ phase[Root] \in {"pre", "identify", "characterize", "start_clock", "post"}

\* post_test of testcase u is complete, if u was requested.
Passed(u) ==
  \/ u < test[Root]
  \/ u = test[Root] /\ phase[Root] \in {"dump", "next", "teardown"}

\* After the first complete post_test, and outside the testcases, the MSR of
\* the target CPU has no disable bit set.
Cleared ==
  ~InFlight /\ (\E u \in Requested \intersect Programmed : Passed(u))
    => msr[TargetCpu] = {}

\* The test loop ends behind the last requested testcase.
AtEnd == phase[Root] = "teardown" => \A u \in Requested : u <= test[Root]

\* The test loop has not begun.
Unstarted == phase[Root] \in {"pin", "clock_init", "calibrate"} => test[Root] = 0

RestoreInv ==
  /\ SuccessAtEnd /\ ForksProgrammed /\ Stepping /\ Unstarted /\ AtEnd
  /\ affinity[Root] = {TargetCpu} => PostProgress /\ Cleared

\* A step that changes nothing of Root's that the invariant speaks of.
LEMMA RestoreFrame ==
  ASSUME RestoreInv, opts' = opts, msr' = msr, SuccessAtEnd',
         phase'[Root] = phase[Root], test'[Root] = test[Root], step'[Root] = step[Root],
         call'[Root] = call[Root], affinity'[Root] = affinity[Root], forks'[Root] = forks[Root],
         state'[Root] = "wait" => state[Root] = "wait"
  PROVE  RestoreInv'
BY DEF RestoreInv, ForksProgrammed, Stepping, Unstarted, PostProgress, Cleared, InFlight, Passed,
   AtEnd, Requested

\* What other processes do: they write an MSR only while Root waits.
LEMMA RestoreOthers ==
  ASSUME ForkingIsProgrammed \/ OnlyRoot,
         TypeOK, OneActive, WaitPhase, RootInv, RestoreInv,
         NEW p \in Procs, p # Root, Proceed(p) \/ Migrate(p)
  PROVE  RestoreInv'
<1> USE ConstantsAssumption DEF Goto, Exit, placeVars, cpuVars
<1>1. state[Root] # "free" /\ state[Root] # "forked"
  BY DEF RootInv, RootApart
<1>2. CASE Fork(p)
  <2>1. PICK c \in Procs :
          /\ state[c] = "free"
          /\ state' = [state EXCEPT ![p] = "wait", ![c] = "forked"]
          /\ phase' = CopyOf(phase, p, c) /\ test' = CopyOf(test, p, c)
          /\ step' = CopyOf(step, p, c) /\ call' = CopyOf(call, p, c)
          /\ affinity' = CopyOf(affinity, p, c)
          /\ forks' = [forks EXCEPT ![p] = @ - 1, ![c] = forks[p] - 1]
    BY <1>2 DEF Fork
  <2>2. c # Root
    BY <1>1, <2>1
  <2>3. /\ phase'[Root] = phase[Root] /\ test'[Root] = test[Root] /\ step'[Root] = step[Root]
        /\ call'[Root] = call[Root] /\ affinity'[Root] = affinity[Root]
        /\ forks'[Root] = forks[Root] /\ state'[Root] = state[Root]
    BY <2>1, <2>2 DEF CopyOf, TypeOK
  <2>4. msr' = msr /\ opts' = opts
    BY <1>2 DEF Fork
  <2>5. QED
    BY <2>3, <2>4, RestoreFrame DEF RestoreInv, SuccessAtEnd
<1>3. CASE Reap(p)
  <2>1. /\ child[p] # Root
        /\ UNCHANGED <<opts, phase, test, step, forks, affinity, msr, call>>
    BY <1>3 DEF Reap, RootInv, RootApart
  <2>2. state'[Root] = state[Root]
    BY <1>3, <2>1 DEF Reap, TypeOK
  <2>3. QED
    BY <2>1, <2>2, RestoreFrame DEF RestoreInv, SuccessAtEnd
<1>4. CASE Exec(p)
  <2>1. UNCHANGED <<opts, phase, test, step, forks, msr, call>>
    BY <1>4 DEF Exec
  <2>2. state'[Root] = state[Root] /\ affinity'[Root] = affinity[Root]
    BY <1>4 DEF Exec, TypeOK
  <2>3. QED
    BY <2>1, <2>2, RestoreFrame DEF RestoreInv, SuccessAtEnd
<1>5. CASE WriteMsr(p)
  <2>1. state[p] = "run" /\ UNCHANGED <<opts, state, phase, test, step, forks, affinity>>
    BY <1>5 DEF WriteMsr, Setting, Running
  <2>2. state[Root] = "wait"
    BY <1>1, <2>1 DEF OneActive, Parked
  <2>3. phase[Root] \in {"identify", "characterize"} /\ test[Root] \in Programmed
    BY <2>1, <2>2 DEF WaitPhase, RestoreInv, ForksProgrammed, OnlyRoot
  <2>4. PostProgress' /\ Cleared'
    BY <2>1, <2>3 DEF PostProgress, Cleared, InFlight
  <2>5. QED
    BY <2>1, <2>4 DEF RestoreInv, SuccessAtEnd, ForksProgrammed, Stepping, Unstarted, AtEnd, Requested
<1>6. CASE \/ Pin(p) \/ InitClock(p) \/ Calibrate(p) \/ NextTest(p) \/ EndOfTests(p)
           \/ StopOwnClock(p) \/ ReadMsr(p) \/ CheckMsr(p) \/ PreTestDone(p)
           \/ IdentifyDone(p) \/ CharacterizeDone(p) \/ StartOwnClock(p) \/ PostTestDone(p)
           \/ Dump(p) \/ Migrate(p)
  <2> USE DEF Pin, InitClock, Calibrate, NextTest, EndOfTests, StopOwnClock, ReadMsr,
        CheckMsr, PreTestDone, IdentifyDone, CharacterizeDone, StartOwnClock, PostTestDone, Dump,
        Migrate
  <2>1. UNCHANGED <<opts, state, msr>>
    BY <1>6
  <2>2. phase'[Root] = phase[Root] /\ test'[Root] = test[Root] /\ step'[Root] = step[Root]
    BY <1>6 DEF TypeOK
  <2>3. call'[Root] = call[Root] /\ affinity'[Root] = affinity[Root] /\ forks'[Root] = forks[Root]
    BY <1>6 DEF TypeOK
  <2>4. QED
    BY <2>1, <2>2, <2>3, RestoreFrame DEF RestoreInv, SuccessAtEnd
<1>7. CASE \/ Teardown(p) \/ JoinLostThread(p) \/ CheckMsrFails(p) \/ MsrError(p) \/ Abort(p)
           \/ CharacterizeDies(p) \/ ForkError(p) \/ HelperExit(p)
  <2> USE DEF Teardown, JoinLostThread, CheckMsrFails, MsrError, Abort, CharacterizeDies,
        ForkError, HelperExit
  <2>1. UNCHANGED <<opts, phase, test, step, forks, affinity, msr, call>>
    BY <1>7
  <2>2. state'[Root] = state[Root]
    BY <1>7 DEF TypeOK
  <2>3. QED
    BY <2>1, <2>2, RestoreFrame DEF RestoreInv, SuccessAtEnd
<1>8. QED
  BY <1>2, <1>3, <1>4, <1>5, <1>6, <1>7 DEF Proceed

\* What a Goto of Root does.
LEMMA RootGoto ==
  ASSUME TypeOK, NEW ph, Goto(Root, ph)
  PROVE  phase'[Root] = ph
BY ConstantsAssumption DEF TypeOK, Goto

\* Steps of main() and run() that only move on in the program.
LEMMA RestoreMove ==
  ASSUME TypeOK, RestoreInv, state[Root] = "run", state' = state, opts' = opts, msr' = msr,
         test'[Root] = test[Root], step'[Root] = step[Root], call' = call, affinity' = affinity,
         NEW ph, phase'[Root] = ph,
         \/ phase[Root] \in {"clock_init", "calibrate"} /\ ph \in {"calibrate", "next"}
         \/ phase[Root] = "stop_clock" /\ ph = "pre"
         \/ phase[Root] = "dump" /\ ph = "next"
         \/ phase[Root] = "identify" /\ ph \in {"characterize", "start_clock", "post"}
         \/ phase[Root] = "characterize" /\ ph \in {"start_clock", "post"}
         \/ phase[Root] = "start_clock" /\ ph = "post",
         ForkingIsProgrammed /\ ph = "characterize" /\ forks'[Root] > 0
           => test[Root] \in Programmed,
         ph = "post" => call[Root].at # "check"
  PROVE  RestoreInv'
<1>1. SuccessAtEnd' /\ ForksProgrammed' /\ Stepping' /\ Unstarted' /\ AtEnd'
  BY DEF RestoreInv, SuccessAtEnd, ForksProgrammed, Stepping, Unstarted, AtEnd, Requested
<1>2. step[Root] = 0
  BY DEF RestoreInv, Stepping
<1>3. PostProgress'
  BY <1>2 DEF PostProgress
<1>4. ASSUME affinity[Root] = {TargetCpu} PROVE Cleared'
  <2>1. \A u \in Requested : u \in Nat \ {0}
    BY ConstantsAssumption DEF Requested, Tests
  <2>2. \A u \in Requested \intersect Programmed : Passed(u)' /\ ~InFlight' => Passed(u) /\ ~InFlight
    BY <2>1, ConstantsAssumption DEF RestoreInv, Unstarted, Passed, InFlight, TypeOK
  <2>3. Requested' = Requested
    BY DEF Requested
  <2>4. QED
    BY <1>4, <2>2, <2>3 DEF RestoreInv, Cleared
<1>5. QED
  BY <1>1, <1>3, <1>4 DEF RestoreInv

\* Root is pinned, starts its test loop, and goes through run().
LEMMA RestoreControl ==
  ASSUME TypeInv, CallPhase, RestoreInv, state[Root] = "run",
         \/ Pin(Root) \/ InitClock(Root) \/ Calibrate(Root) \/ StopOwnClock(Root)
         \/ IdentifyDone(Root) \/ CharacterizeDone(Root) \/ StartOwnClock(Root)
         \/ Dump(Root)
  PROVE  RestoreInv'
<1> USE ConstantsAssumption DEF Running
<1>1. /\ TypeOK /\ (phase[Root] \notin {"pre", "post"} => call[Root].at # "check")
      /\ UNCHANGED <<opts, state, test, step, msr, call>>
  BY DEF TypeInv, CallPhase, Pin, InitClock, Calibrate, StopOwnClock, IdentifyDone,
     CharacterizeDone, StartOwnClock, Dump
<1>2. CASE Pin(Root)
  <2>1. phase[Root] = "pin" /\ phase'[Root] = "clock_init"
    BY <1>1, <1>2, RootGoto DEF Pin
  <2>2. test[Root] = 0 /\ step[Root] = 0
    BY <2>1 DEF RestoreInv, Unstarted, Stepping
  <2>3. SuccessAtEnd' /\ ForksProgrammed' /\ Stepping' /\ Unstarted' /\ AtEnd'
    BY <1>1, <2>1, <2>2 DEF RestoreInv, SuccessAtEnd, ForksProgrammed, Stepping, Unstarted, AtEnd
  <2>4. PostProgress'
    BY <2>1 DEF PostProgress
  <2>5. Cleared'
    <3>1. \A u \in Requested : u \in Nat \ {0}
      BY DEF Requested, Tests
    <3>2. \A u \in Requested : ~Passed(u)'
      BY <1>1, <2>2, <3>1 DEF Passed
    <3>3. Requested' = Requested
      BY <1>1 DEF Requested
    <3>4. QED
      BY <3>2, <3>3 DEF Cleared
  <2>6. QED
    BY <2>3, <2>4, <2>5 DEF RestoreInv
<1>3. CASE InitClock(Root)
  <2>1. phase[Root] = "clock_init" /\ phase'[Root] = "calibrate" /\ affinity' = affinity
    BY <1>1, <1>3, RootGoto DEF InitClock, cpuVars
  <2>2. QED
    BY <1>1, <2>1, RestoreMove
<1>4. CASE Calibrate(Root)
  <2>1. phase[Root] = "calibrate" /\ phase'[Root] = "next" /\ affinity' = affinity
    BY <1>1, <1>4, RootGoto DEF Calibrate, cpuVars
  <2>2. QED
    BY <1>1, <2>1, RestoreMove
<1>5. CASE StopOwnClock(Root)
  <2>1. phase[Root] = "stop_clock" /\ phase'[Root] = "pre" /\ affinity' = affinity
    BY <1>1, <1>5, RootGoto DEF StopOwnClock, cpuVars
  <2>2. QED
    BY <1>1, <2>1, RestoreMove
<1>6. CASE IdentifyDone(Root)
  <2>1. /\ phase[Root] = "identify" /\ affinity' = affinity
        /\ phase'[Root] \in {"characterize", "start_clock", "post"}
    BY <1>1, <1>6, RootGoto DEF IdentifyDone, PostPhase, cpuVars
  <2>2. ASSUME ForkingIsProgrammed, forks'[Root] > 0 PROVE test[Root] \in Programmed
    <3>1. test[Root] \in Tests
      BY <1>1, <2>1 DEF TypeInv, TestChosen, TestPhases, TypeOK, Tests
    <3>2. forks'[Root] \in {0, CharacterizeForks[test[Root]]}
      BY <1>1, <1>6 DEF IdentifyDone, TypeOK
    <3>3. QED
      BY <2>2, <3>1, <3>2 DEF ForkingIsProgrammed
  <2>3. QED
    BY <1>1, <2>1, <2>2, RestoreMove
<1>7. CASE CharacterizeDone(Root)
  <2>1. /\ phase[Root] = "characterize" /\ phase'[Root] \in {"start_clock", "post"}
        /\ affinity' = affinity
    BY <1>1, <1>7, RootGoto DEF CharacterizeDone, PostPhase, cpuVars
  <2>2. QED
    BY <1>1, <2>1, RestoreMove
<1>8. CASE StartOwnClock(Root)
  <2>1. phase[Root] = "start_clock" /\ phase'[Root] = "post" /\ affinity' = affinity
    BY <1>1, <1>8, RootGoto DEF StartOwnClock, cpuVars
  <2>2. QED
    BY <1>1, <2>1, RestoreMove
<1>9. CASE Dump(Root)
  <2>1. phase[Root] = "dump" /\ phase'[Root] = "next" /\ affinity' = affinity
    BY <1>1, <1>9, RootGoto DEF Dump, cpuVars
  <2>2. QED
    BY <1>1, <2>1, RestoreMove
<1>10. QED
  BY <1>2, <1>3, <1>4, <1>5, <1>6, <1>7, <1>8, <1>9

\* What the test loop's next testcase leaves behind.
LEMMA LoopPassed ==
  ASSUME TypeInv, phase[Root] = "next", phase'[Root] \in {"stop_clock", "pre"}, opts' = opts,
         test'[Root] = Following(Root), NEW u \in Requested
  PROVE  u \in Nat /\ (u < test'[Root] => Passed(u)) /\ (Passed(u)' => Passed(u))
<1> USE ConstantsAssumption
<1>1. u \in Tests /\ u \in Nat /\ test[Root] \in Nat
  BY DEF Requested, Tests, TypeInv, TypeOK
<1>2. u < Following(Root) => u <= test[Root]
  BY <1>1 DEF Following, Requested, Tests
<1>3. QED
  BY <1>1, <1>2 DEF Passed

\* The test loop takes the next testcase, or ends.
LEMMA RestoreLoop ==
  ASSUME TypeInv, RestoreInv, state[Root] = "run", NextTest(Root) \/ EndOfTests(Root)
  PROVE  RestoreInv'
<1> USE ConstantsAssumption DEF Running
<1>1. /\ TypeOK /\ phase[Root] = "next"
      /\ UNCHANGED <<opts, state, step, call, affinity, forks, msr>>
  BY DEF TypeInv, NextTest, EndOfTests, cpuVars
<1>2. Requested' = Requested
  BY <1>1 DEF Requested
<1>3. step[Root] = 0
  BY <1>1 DEF RestoreInv, Stepping
<1>4. CASE NextTest(Root)
  <2>1. phase'[Root] \in {"stop_clock", "pre"} /\ test'[Root] = Following(Root)
    BY <1>1, <1>4, RootGoto DEF NextTest, TypeOK
  <2>2. ASSUME affinity[Root] = {TargetCpu} PROVE Cleared'
    <3>1. \A u \in Requested : Passed(u)' => Passed(u)
      BY <1>1, <2>1, LoopPassed
    <3>2. ~InFlight
      BY <1>1 DEF InFlight
    <3>3. QED
      BY <1>1, <1>2, <2>2, <3>1, <3>2 DEF RestoreInv, Cleared
  <2>3. PostProgress'
    BY <2>1 DEF PostProgress
  <2>4. SuccessAtEnd' /\ ForksProgrammed' /\ Stepping' /\ Unstarted' /\ AtEnd'
    BY <1>1, <1>3, <2>1 DEF SuccessAtEnd, ForksProgrammed, Stepping, Unstarted, AtEnd
  <2>5. QED
    BY <1>1, <2>2, <2>3, <2>4 DEF RestoreInv
<1>5. CASE EndOfTests(Root)
  <2>1. phase'[Root] = "teardown" /\ test'[Root] = test[Root]
    BY <1>1, <1>5, RootGoto DEF EndOfTests
  <2>2. AtEnd'
    <3>1. Following(Root) \notin Tests
      BY <1>5 DEF EndOfTests
    <3>2. \A u \in Requested : u <= test[Root]
      <4>1. CASE opts.testcase = 0
        <5>1. test[Root] \in Nat /\ NumTests \in Nat /\ test[Root] + 1 \notin 1..NumTests
          BY <1>1, <3>1, <4>1 DEF Following, Tests, TypeOK
        <5>2. QED
          BY <4>1, <5>1 DEF Requested, Tests
      <4>2. CASE opts.testcase # 0 /\ opts.testcase = test[Root]
        <5>1. \A u \in Requested : u = test[Root] /\ u \in Nat
          BY <4>2 DEF Requested, Tests
        <5>2. QED
          BY <5>1
      <4>3. CASE opts.testcase # 0 /\ opts.testcase # test[Root]
        BY <3>1, <4>3 DEF Following, Requested
      <4>4. QED
        BY <4>1, <4>2, <4>3
    <3>3. QED
      BY <1>2, <2>1, <3>2 DEF AtEnd
  <2>3. Cleared' <=> Cleared
    BY <1>1, <1>2, <2>1 DEF Cleared, Passed, InFlight
  <2>4. PostProgress'
    BY <2>1 DEF PostProgress
  <2>5. SuccessAtEnd' /\ ForksProgrammed' /\ Stepping' /\ Unstarted'
    BY <1>1, <1>3, <2>1 DEF SuccessAtEnd, ForksProgrammed, Stepping, Unstarted
  <2>6. QED
    BY <1>1, <2>2, <2>3, <2>4, <2>5 DEF RestoreInv
<1>6. QED
  BY <1>4, <1>5

\* The bits of other prefetchers survive the change of one.
LEMMA ChangedBits ==
  ASSUME NEW value, NEW k, NEW on
  PROVE  /\ k \in Changed(value, k, on) <=> k \notin on
         /\ \A j : j # k => (j \in Changed(value, k, on) <=> j \in value)
BY DEF Changed

\* A process that is pinned to the target CPU writes and checks what it read
\* there, which nobody has changed since.
LEMMA PinnedCall ==
  ASSUME TypeOK, OnItsCpus, CallsAtomic, state[Root] = "run", affinity[Root] = {TargetCpu}
  PROVE  /\ MsrCpu(Root) = TargetCpu
         /\ call[Root].at = "write"
              => call[Root].word = Changed(msr[TargetCpu], step[Root] + 1, Wanted(Root))
         /\ call[Root].at = "check" => call[Root].word = msr[TargetCpu]
<1>1. cpu[Root] = TargetCpu
  BY ConstantsAssumption DEF OnItsCpus
<1>2. MsrCpu(Root) = TargetCpu /\ OneMsr(Root)
  BY <1>1 DEF MsrCpu, OneMsr
<1>3. QED
  BY <1>2, ConstantsAssumption DEF CallsAtomic

\* rdmsr, wrmsr and the check of one prefetcher.
LEMMA RestoreAccess ==
  ASSUME TypeInv, OnItsCpus, CallsAtomic, RestoreInv, state[Root] = "run",
         ReadMsr(Root) \/ WriteMsr(Root) \/ CheckMsr(Root)
  PROVE  RestoreInv'
<1> USE ConstantsAssumption
<1> DEFINE k == step[Root] + 1
<1>1. /\ TypeOK /\ UNCHANGED <<opts, state, phase, test, forks, affinity>>
      /\ phase[Root] \in {"pre", "post"} /\ Programming(Root)
  BY DEF TypeInv, ReadMsr, WriteMsr, CheckMsr, Setting, Running, placeVars, cpuVars
<1>2. step[Root] \in Nat /\ k \in Prefetchers /\ \A j \in 1..step[Root] : j # k
  BY <1>1 DEF TypeOK, Programming, Prefetchers
<1>3. SuccessAtEnd' /\ ForksProgrammed' /\ Stepping' /\ Unstarted' /\ AtEnd' /\ Cleared'
  BY <1>1 DEF RestoreInv, SuccessAtEnd, ForksProgrammed, Stepping, Unstarted, AtEnd, Cleared,
     InFlight, Programming, Requested
<1>4. ASSUME affinity[Root] = {TargetCpu} PROVE PostProgress'
  <2>1. PostProgress
    BY <1>4 DEF RestoreInv
  <2>2. CASE ReadMsr(Root)
    <3>1. UNCHANGED <<step, msr>> /\ call'[Root].at = "write"
      BY <1>1, <2>2 DEF ReadMsr, TypeOK, placeVars
    <3>2. QED
      BY <1>1, <2>1, <3>1 DEF PostProgress
  <2>3. CASE WriteMsr(Root)
    <3>1. step' = step /\ call[Root].at = "write"
      BY <2>3 DEF WriteMsr, Setting, placeVars
    <3>2. msr'[TargetCpu] = Changed(msr[TargetCpu], k, Wanted(Root))
      BY <1>1, <1>4, <2>3, <3>1, PinnedCall DEF WriteMsr, TypeOK
    <3>3. /\ k \in msr'[TargetCpu] <=> k \notin Wanted(Root)
          /\ \A j : j # k => (j \in msr'[TargetCpu] <=> j \in msr[TargetCpu])
      BY <3>2, ChangedBits
    <3>4. QED
      BY <1>1, <1>2, <2>1, <3>1, <3>3 DEF PostProgress, Wanted
  <2>4. CASE CheckMsr(Root)
    <3>1. step'[Root] = k /\ msr' = msr /\ call'[Root].at = "read" /\ call[Root].at = "check"
      BY <1>1, <2>4 DEF CheckMsr, Setting, NoCall, TypeOK
    <3>2. \A j \in 1..k : j \in 1..step[Root] \/ j = k
      BY <1>2
    <3>3. QED
      BY <1>1, <2>1, <3>1, <3>2 DEF PostProgress
  <2>5. QED
    BY <2>2, <2>3, <2>4
<1>5. QED
  BY <1>1, <1>3, <1>4 DEF RestoreInv

\* pre_test and post_test have made all their calls.
LEMMA RestoreProgrammed ==
  ASSUME TypeInv, RestoreInv, state[Root] = "run",
         PreTestDone(Root) \/ PostTestDone(Root)
  PROVE  RestoreInv'
<1> USE ConstantsAssumption DEF Running
<1>1. /\ TypeOK /\ UNCHANGED <<opts, state, test, call, affinity, msr>>
      /\ phase[Root] \in {"pre", "post"} /\ ~Programming(Root)
  BY DEF TypeInv, PreTestDone, PostTestDone, cpuVars
<1>2. step'[Root] = 0
  BY <1>1 DEF PreTestDone, PostTestDone, TypeOK
<1>3. Requested' = Requested
  BY <1>1 DEF Requested
<1>4. CASE PreTestDone(Root)
  <2>1. phase[Root] = "pre" /\ phase'[Root] = "identify"
    BY <1>1, <1>4, RootGoto DEF PreTestDone
  <2>2. ASSUME ForkingIsProgrammed, forks'[Root] > 0 PROVE test[Root] \in Programmed
    <3>1. test[Root] \in Tests
      BY <1>1, <2>1 DEF TypeInv, TestChosen, TestPhases, TypeOK, Tests
    <3>2. forks'[Root] = IdentifyForks[test[Root]]
      BY <1>1, <1>4 DEF PreTestDone, TypeOK
    <3>3. QED
      BY <2>2, <3>1, <3>2 DEF ForkingIsProgrammed
  <2>3. SuccessAtEnd' /\ ForksProgrammed' /\ Stepping' /\ Unstarted' /\ AtEnd'
    BY <1>1, <1>2, <2>1, <2>2 DEF SuccessAtEnd, ForksProgrammed, Stepping, Unstarted, AtEnd
  <2>4. PostProgress' /\ (Cleared' <=> Cleared)
    BY <1>1, <1>3, <2>1 DEF PostProgress, Cleared, InFlight, Passed
  <2>5. QED
    BY <1>1, <2>3, <2>4 DEF RestoreInv
<1>5. CASE PostTestDone(Root)
  <2>1. phase[Root] = "post" /\ phase'[Root] = "dump" /\ forks' = forks
    BY <1>1, <1>5, RootGoto DEF PostTestDone
  <2>2. ASSUME affinity[Root] = {TargetCpu} PROVE Cleared'
    <3>1. CASE test[Root] \in Programmed
      <4>0. step[Root] \in Nat /\ step[Root] <= NumPrefetchers
        BY <1>1 DEF TypeOK
      <4>1. step[Root] = NumPrefetchers
        BY <1>1, <3>1, <4>0 DEF Programming
      <4>2. msr[TargetCpu] \subseteq Prefetchers
        BY <1>1 DEF TypeOK
      <4>3. msr[TargetCpu] = {}
        BY <2>1, <2>2, <3>1, <4>1, <4>2 DEF RestoreInv, PostProgress, Prefetchers
      <4>4. QED
        BY <1>1, <4>3 DEF Cleared
    <3>2. CASE test[Root] \notin Programmed
      <4>1. \A u \in Programmed : Passed(u)' => Passed(u)
        BY <1>1, <2>1, <3>2 DEF Passed
      <4>2. ~InFlight
        BY <3>2 DEF InFlight
      <4>3. QED
        BY <1>1, <1>3, <2>2, <4>1, <4>2 DEF RestoreInv, Cleared
    <3>3. QED
      BY <3>1, <3>2
  <2>3. SuccessAtEnd' /\ ForksProgrammed' /\ Stepping' /\ Unstarted' /\ AtEnd' /\ PostProgress'
    BY <1>1, <1>2, <2>1 DEF SuccessAtEnd, ForksProgrammed, Stepping, Unstarted, AtEnd, PostProgress
  <2>4. QED
    BY <1>1, <2>2, <2>3 DEF RestoreInv
<1>6. QED
  BY <1>4, <1>5

\* Root ends, forks, waits, or is moved by the scheduler.
LEMMA RestoreEnd ==
  ASSUME TypeOK, OnItsCpus, RootInv, RestoreInv,
         \/ Teardown(Root) \/ CheckMsrFails(Root) \/ MsrError(Root) \/ Abort(Root)
         \/ CharacterizeDies(Root) \/ ForkError(Root) \/ JoinLostThread(Root)
         \/ Fork(Root) \/ Exec(Root) \/ HelperExit(Root) \/ Reap(Root) \/ Migrate(Root)
  PROVE  RestoreInv'
<1> USE ConstantsAssumption DEF Exit, placeVars, cpuVars
<1>1. CASE \/ Teardown(Root) \/ CheckMsrFails(Root) \/ MsrError(Root) \/ Abort(Root)
           \/ CharacterizeDies(Root) \/ ForkError(Root) \/ JoinLostThread(Root)
  <2> USE DEF Teardown, CheckMsrFails, MsrError, Abort, CharacterizeDies, ForkError, JoinLostThread
  <2>1. UNCHANGED <<opts, phase, test, step, forks, affinity, msr, call>>
    BY <1>1
  <2>2. PICK s : /\ s # "wait" /\ state' = [state EXCEPT ![Root] = s]
                 /\ s = "success" => phase[Root] = "teardown"
    BY <1>1 DEF Running
  <2>3. state'[Root] = s
    BY <2>2 DEF TypeOK
  <2>4. QED
    BY <2>1, <2>2, <2>3, RestoreFrame DEF SuccessAtEnd
<1>2. CASE Fork(Root)
  <2>1. PICK c \in Procs :
          /\ state[c] = "free"
          /\ state' = [state EXCEPT ![Root] = "wait", ![c] = "forked"]
          /\ phase' = CopyOf(phase, Root, c) /\ test' = CopyOf(test, Root, c)
          /\ step' = CopyOf(step, Root, c) /\ call' = CopyOf(call, Root, c)
          /\ affinity' = CopyOf(affinity, Root, c)
          /\ forks' = [forks EXCEPT ![Root] = @ - 1, ![c] = forks[Root] - 1]
    BY <1>2 DEF Fork
  <2>2. c # Root /\ forks[Root] > 0 /\ phase[Root] \in {"identify", "characterize"}
    BY <1>2, <2>1 DEF RootInv, RootApart, Fork, Running
  <2>3. /\ phase'[Root] = phase[Root] /\ test'[Root] = test[Root] /\ step'[Root] = step[Root]
        /\ call'[Root] = call[Root] /\ affinity'[Root] = affinity[Root] /\ state'[Root] = "wait"
    BY <2>1, <2>2 DEF CopyOf, TypeOK
  <2>4. msr' = msr /\ opts' = opts /\ (ForkingIsProgrammed => test[Root] \in Programmed)
    BY <1>2, <2>2 DEF Fork, RestoreInv, ForksProgrammed
  <2>5. QED
    BY <2>2, <2>3, <2>4 DEF RestoreInv, SuccessAtEnd, ForksProgrammed, Stepping, Unstarted,
       PostProgress, Cleared, InFlight, Passed, AtEnd, Requested
<1>3. CASE Reap(Root)
  <2>1. child[Root] # Root /\ UNCHANGED <<opts, phase, test, step, forks, affinity, msr, call>>
    BY <1>3 DEF Reap, RootInv, RootApart
  <2>2. state'[Root] = "run"
    BY <1>3, <2>1 DEF Reap, TypeOK
  <2>3. QED
    BY <2>1, <2>2, RestoreFrame DEF SuccessAtEnd
<1>4. CASE Migrate(Root)
  <2>1. UNCHANGED <<opts, state, phase, test, step, forks, affinity, msr, call>>
    BY <1>4 DEF Migrate
  <2>2. QED
    BY <2>1, RestoreFrame DEF RestoreInv, SuccessAtEnd
<1>5. ~Exec(Root) /\ ~HelperExit(Root)
  BY DEF Exec, HelperExit, RootInv, RootApart
<1>6. QED
  BY <1>1, <1>2, <1>3, <1>4, <1>5

\* The invariant holds throughout.
LEMMA RestoreInvariant ==
  ASSUME ForkingIsProgrammed \/ "exec" \notin Faults
  PROVE  Spec => []RestoreInv
<1>1. Init => RestoreInv
  <2> SUFFICES ASSUME Init PROVE RestoreInv
    OBVIOUS
  <2>1. state[Root] = "run" /\ phase[Root] = "pin" /\ test[Root] = 0 /\ step[Root] = 0
    BY ConstantsAssumption DEF Init
  <2>2. \A u \in Requested : u \in Nat \ {0} /\ ~Passed(u)
    BY <2>1, ConstantsAssumption DEF Requested, Tests, Passed
  <2>3. QED
    BY <2>1, <2>2 DEF RestoreInv, SuccessAtEnd, ForksProgrammed, Stepping, Unstarted, AtEnd,
       PostProgress, Cleared
<1>2. TypeInv /\ OneActive /\ AtomicInv /\ RootInv /\ RestoreInv /\ [Next]_vars
        /\ (ForkingIsProgrammed \/ OnlyRoot) => RestoreInv'
  <2> SUFFICES ASSUME TypeInv, OneActive, AtomicInv, RootInv, RestoreInv, [Next]_vars,
                      ForkingIsProgrammed \/ OnlyRoot
               PROVE  RestoreInv'
    OBVIOUS
  <2>1. TypeOK /\ OnItsCpus /\ CallPhase /\ WaitPhase /\ CallsAtomic /\ Root \in Procs
    BY ConstantsAssumption DEF TypeInv, AtomicInv
  <2>2. CASE UNCHANGED vars
    BY <2>2, RestoreFrame DEF vars, placeVars, cpuVars, RestoreInv, SuccessAtEnd
  <2>3. ASSUME NEW p \in Procs, p # Root, Proceed(p) \/ Migrate(p) PROVE RestoreInv'
    BY <2>1, <2>3, RestoreOthers
  <2>4. CASE \/ Pin(Root) \/ InitClock(Root) \/ Calibrate(Root) \/ StopOwnClock(Root)
             \/ IdentifyDone(Root) \/ CharacterizeDone(Root) \/ StartOwnClock(Root)
             \/ Dump(Root)
    <3>1. state[Root] = "run"
      BY <2>4 DEF Pin, InitClock, Calibrate, StopOwnClock, IdentifyDone, CharacterizeDone,
         StartOwnClock, Dump, Running
    <3>2. QED
      BY <2>1, <2>4, <3>1, RestoreControl
  <2>5. CASE NextTest(Root) \/ EndOfTests(Root)
    BY <2>5, RestoreLoop DEF NextTest, EndOfTests, Running
  <2>6. CASE ReadMsr(Root) \/ WriteMsr(Root) \/ CheckMsr(Root)
    BY <2>1, <2>6, RestoreAccess DEF ReadMsr, WriteMsr, CheckMsr, Setting, Running
  <2>7. CASE PreTestDone(Root) \/ PostTestDone(Root)
    BY <2>7, RestoreProgrammed DEF PreTestDone, PostTestDone, Running
  <2>8. CASE \/ Teardown(Root) \/ CheckMsrFails(Root) \/ MsrError(Root) \/ Abort(Root)
             \/ CharacterizeDies(Root) \/ ForkError(Root) \/ JoinLostThread(Root)
             \/ Fork(Root) \/ Exec(Root) \/ HelperExit(Root) \/ Reap(Root) \/ Migrate(Root)
    BY <2>1, <2>8, RestoreEnd
  <2>9. QED
    BY <2>2, <2>3, <2>4, <2>5, <2>6, <2>7, <2>8 DEF Next, Proceed, Done
<1>3. Spec => [](ForkingIsProgrammed \/ OnlyRoot)
  <2>1. CASE ForkingIsProgrammed
    BY <2>1, PTL
  <2>2. CASE "exec" \notin Faults
    BY <2>2, OnlyRootInvariant, PTL
  <2>3. QED
    BY <2>1, <2>2
<1>4. QED
  BY <1>1, <1>2, <1>3, TypeCorrect, OnlyOneExecutes, AtomicInvariant, RootInvariant, PTL DEF Spec, TypeInv

\* Whatever fails (execvp, pinning, the MSR device, tests, the disk), and however
\* many copies of the benchmark program the same MSR: a run that ends successfully
\* on the CPU that it was told to use leaves all prefetchers of that CPU enabled.
\* When execvp can fail, the testcases that fork helpers must program the MSRs
\* themselves: it is their post_test that undoes what a copy left.
THEOREM PrefetchersRestored ==
  ASSUME ForkingIsProgrammed \/ "exec" \notin Faults
  PROVE  Spec => []Restored
<1>1. TypeOK /\ RestoreInv => Restored
  <2> SUFFICES ASSUME TypeOK, RestoreInv, state[Root] = "success", affinity[Root] = {TargetCpu},
                      NEW u \in Requested \intersect Programmed
               PROVE  msr[TargetCpu] = {}
    BY DEF Restored
  <2>1. phase[Root] = "teardown" /\ u <= test[Root] /\ ~InFlight
    BY DEF RestoreInv, SuccessAtEnd, AtEnd, InFlight
  <2>2. u \in Nat /\ test[Root] \in Nat
    BY ConstantsAssumption DEF TypeOK, Requested, Tests
  <2>3. Passed(u)
    BY <2>1, <2>2 DEF Passed
  <2>4. QED
    BY <2>1, <2>3 DEF RestoreInv, Cleared
<1>2. QED
  BY <1>1, RestoreInvariant, TypeCorrect, PTL

------------------------------------------------------------------------------
\* Without failing execvp and sched_setaffinity the process that the user started
\* owns the MSR of the target CPU.

\* Once pinned, the benchmark never leaves the target CPU.
Pinned == phase[Root] # "pin" => affinity[Root] = {TargetCpu} /\ cpu[Root] = TargetCpu

\* How far pre_test has got with the MSR of the target CPU, and that nothing
\* changes the MSR from its end to the end of the measurements.
PreProgress ==
  test[Root] \in Programmed =>
    /\ phase[Root] = "pre" =>
         /\ \A k \in 1..step[Root] : k \in msr[TargetCpu] <=> k \notin Enabled[test[Root]]
         /\ call[Root].at = "check" =>
              (step[Root] + 1 \in msr[TargetCpu] <=> step[Root] + 1 \notin Enabled[test[Root]])
    /\ phase[Root] \in {"identify", "characterize"}
         => msr[TargetCpu] = Prefetchers \ Enabled[test[Root]]

\* A requested testcase that programs the MSRs is complete.
OneComplete == \E t \in Requested \intersect Programmed : t < test[Root]

\* What is disabled outside the measurements is at most what the current testcase
\* disables: in pre_test because an earlier post_test left nothing disabled.
LeftBits ==
  test[Root] \in Programmed
  /\ (\/ phase[Root] \in {"start_clock", "post", "dump", "next", "teardown"}
      \/ phase[Root] \in {"stop_clock", "pre"} /\ OneComplete)
    => msr[TargetCpu] \subseteq Prefetchers \ Enabled[test[Root]]

MsrInv == OnlyRoot /\ Pinned /\ PreProgress /\ LeftBits

\* A step that changes nothing of Root's that the invariant speaks of.
LEMMA MsrFrame ==
  ASSUME MsrInv, OnlyRoot', opts' = opts, msr' = msr,
         phase'[Root] = phase[Root], test'[Root] = test[Root], step'[Root] = step[Root],
         call'[Root] = call[Root], affinity'[Root] = affinity[Root], cpu'[Root] = cpu[Root]
  PROVE  MsrInv'
BY DEF MsrInv, Pinned, PreProgress, OneComplete, LeftBits, Requested

\* Helper processes start, run and end; processes end or are moved.
LEMMA MsrOthers ==
  ASSUME "pin" \notin Faults, TypeOK, MsrInv, OnlyRoot', NEW p \in Procs,
         \/ Fork(p) \/ Exec(p) \/ HelperExit(p) \/ Reap(p) \/ Migrate(p)
         \/ Teardown(p) \/ JoinLostThread(p) \/ CheckMsrFails(p) \/ MsrError(p)
         \/ Abort(p) \/ CharacterizeDies(p) \/ ForkError(p)
  PROVE  MsrInv'
<1> USE ConstantsAssumption DEF placeVars, cpuVars, Exit
<1>1. OnlyRoot
  BY DEF MsrInv
<1>2. CASE Fork(p)
  <2>1. PICK c \in Procs :
          /\ state[c] = "free"
          /\ phase' = CopyOf(phase, p, c) /\ test' = CopyOf(test, p, c)
          /\ step' = CopyOf(step, p, c) /\ call' = CopyOf(call, p, c)
          /\ affinity' = CopyOf(affinity, p, c) /\ cpu' = CopyOf(cpu, p, c)
    BY <1>2 DEF Fork
  <2>2. c # Root
    BY <1>1, <2>1 DEF OnlyRoot
  <2>3. /\ phase'[Root] = phase[Root] /\ test'[Root] = test[Root]
        /\ step'[Root] = step[Root] /\ affinity'[Root] = affinity[Root]
        /\ cpu'[Root] = cpu[Root] /\ call'[Root] = call[Root]
    BY <2>1, <2>2 DEF CopyOf, TypeOK
  <2>4. QED
    BY <1>2, <2>3, MsrFrame DEF Fork
<1>3. CASE Exec(p)
  <2>1. p # Root /\ UNCHANGED <<opts, phase, test, step, msr, call>>
    BY <1>1, <1>3 DEF OnlyRoot, Exec
  <2>2. affinity'[Root] = affinity[Root] /\ cpu'[Root] = cpu[Root]
    BY <1>3, <2>1 DEF Exec, TypeOK
  <2>3. QED
    BY <2>1, <2>2, MsrFrame
<1>4. CASE Migrate(p)
  <2>1. UNCHANGED <<opts, phase, test, step, call, affinity, msr>>
    BY <1>4 DEF Migrate
  <2>2. CASE cpu'[Root] = cpu[Root]
    BY <2>1, <2>2, MsrFrame
  <2>3. CASE cpu'[Root] # cpu[Root]
    <3>1. phase[Root] = "pin"
      BY <1>4, <2>3 DEF Migrate, TypeOK, MsrInv, Pinned
    <3>2. QED
      BY <2>1, <3>1 DEF MsrInv, Pinned, PreProgress, LeftBits
  <2>4. QED
    BY <2>2, <2>3
<1>5. CASE \/ HelperExit(p) \/ Reap(p)
           \/ Teardown(p) \/ JoinLostThread(p) \/ CheckMsrFails(p) \/ MsrError(p)
           \/ Abort(p) \/ CharacterizeDies(p) \/ ForkError(p)
  <2>1. UNCHANGED <<opts, phase, test, step, call, affinity, cpu, msr>>
    BY <1>5 DEF HelperExit, Reap, Teardown, JoinLostThread, CheckMsrFails, MsrError, Abort,
       CharacterizeDies, ForkError
  <2>2. QED
    BY <2>1, MsrFrame
<1>6. QED
  BY <1>2, <1>3, <1>4, <1>5

\* Root is pinned, runs its test loop and goes through run().
LEMMA MsrMoves ==
  ASSUME "pin" \notin Faults, TypeInv, CallPhase, RestoreInv, MsrInv, OnlyRoot',
         state[Root] = "run",
         \/ Pin(Root) \/ InitClock(Root) \/ Calibrate(Root) \/ StopOwnClock(Root)
         \/ IdentifyDone(Root) \/ CharacterizeDone(Root) \/ StartOwnClock(Root)
         \/ Dump(Root) \/ NextTest(Root) \/ EndOfTests(Root)
  PROVE  MsrInv'
<1> USE ConstantsAssumption DEF Running
<1>1. /\ TypeOK /\ UNCHANGED <<opts, step, msr, call>>
      /\ (~NextTest(Root) => test' = test) /\ (~Pin(Root) => UNCHANGED <<affinity, cpu>>)
  BY DEF TypeInv, Pin, InitClock, Calibrate, StopOwnClock, IdentifyDone, CharacterizeDone,
     StartOwnClock, Dump, NextTest, EndOfTests, cpuVars
<1>2. Requested' = Requested
  BY <1>1 DEF Requested
<1>3. CASE Pin(Root)
  <2>1. phase'[Root] = "clock_init"
    BY <1>1, <1>3, RootGoto DEF Pin
  <2>2. affinity'[Root] = {TargetCpu} /\ cpu'[Root] = TargetCpu
    BY <1>1, <1>3 DEF Pin, TypeOK
  <2>3. QED
    BY <2>1, <2>2 DEF MsrInv, Pinned, PreProgress, LeftBits
<1>4. CASE NextTest(Root)
  <2>1. /\ phase[Root] = "next" /\ phase'[Root] \in {"stop_clock", "pre"}
        /\ test'[Root] = Following(Root)
    BY <1>1, <1>4, RootGoto DEF NextTest, TypeOK
  <2>2. step[Root] = 0
    BY <2>1 DEF RestoreInv, Stepping
  <2>3. LeftBits'
    <3>1. SUFFICES ASSUME OneComplete' PROVE msr[TargetCpu] = {}
      BY <1>1, <2>1 DEF LeftBits
    <3>2. PICK t \in Requested \intersect Programmed : t < test'[Root]
      BY <1>2, <3>1 DEF OneComplete
    <3>3. Passed(t)
      BY <1>1, <2>1, <3>2, LoopPassed
    <3>4. ~InFlight /\ affinity[Root] = {TargetCpu}
      BY <2>1 DEF InFlight, MsrInv, Pinned
    <3>5. QED
      BY <3>2, <3>3, <3>4 DEF RestoreInv, Cleared
  <2>4. PreProgress'
    <3>1. call[Root].at # "check"
      BY <2>1 DEF CallPhase
    <3>2. QED
      BY <1>1, <2>1, <2>2, <3>1 DEF PreProgress
  <2>5. QED
    BY <1>1, <1>4, <2>1, <2>3, <2>4 DEF MsrInv, Pinned, NextTest, cpuVars
<1>5. CASE InitClock(Root) \/ Calibrate(Root)
  <2>1. phase[Root] # "pin" /\ phase'[Root] \in {"calibrate", "next"} /\ test'[Root] = 0
    BY <1>1, <1>5, RootGoto DEF InitClock, Calibrate, RestoreInv, Unstarted
  <2>2. 0 \notin Programmed
    BY DEF Tests
  <2>3. UNCHANGED <<affinity, cpu>>
    BY <1>5 DEF InitClock, Calibrate, cpuVars
  <2>4. QED
    BY <2>1, <2>2, <2>3 DEF MsrInv, Pinned, PreProgress, LeftBits
<1>6. CASE StopOwnClock(Root)
  <2>1. phase[Root] = "stop_clock" /\ phase'[Root] = "pre"
    BY <1>1, <1>6, RootGoto DEF StopOwnClock
  <2>2. test' = test /\ UNCHANGED <<affinity, cpu>>
    BY <1>6 DEF StopOwnClock, cpuVars
  <2>3. step[Root] = 0 /\ call[Root].at # "check"
    BY <2>1 DEF RestoreInv, Stepping, CallPhase
  <2>4. QED
    BY <1>1, <1>2, <2>1, <2>2, <2>3 DEF MsrInv, Pinned, PreProgress, OneComplete, LeftBits
<1>7. CASE IdentifyDone(Root) \/ CharacterizeDone(Root)
  <2>1. /\ phase[Root] \in {"identify", "characterize"}
        /\ phase'[Root] \in {"characterize", "start_clock", "post"}
    BY <1>1, <1>7, RootGoto DEF IdentifyDone, CharacterizeDone, PostPhase
  <2>2. test' = test /\ UNCHANGED <<affinity, cpu>>
    BY <1>7 DEF IdentifyDone, CharacterizeDone, cpuVars
  <2>3. QED
    BY <1>1, <2>1, <2>2 DEF MsrInv, Pinned, PreProgress, LeftBits
<1>8. CASE StartOwnClock(Root) \/ Dump(Root) \/ EndOfTests(Root)
  <2>1. /\ phase[Root] \in {"start_clock", "dump", "next"}
        /\ phase'[Root] \in {"post", "next", "teardown"}
    BY <1>1, <1>8, RootGoto DEF StartOwnClock, Dump, EndOfTests
  <2>2. test' = test /\ UNCHANGED <<affinity, cpu>>
    BY <1>8 DEF StartOwnClock, Dump, EndOfTests, cpuVars
  <2>3. QED
    BY <1>1, <2>1, <2>2 DEF MsrInv, Pinned, PreProgress, LeftBits
<1>9. QED
  BY <1>3, <1>4, <1>5, <1>6, <1>7, <1>8

\* rdmsr, wrmsr and the check of one prefetcher, all on the target CPU.
LEMMA MsrAccess ==
  ASSUME TypeInv, OnItsCpus, CallsAtomic, MsrInv, OnlyRoot', state[Root] = "run",
         ReadMsr(Root) \/ WriteMsr(Root) \/ CheckMsr(Root)
  PROVE  MsrInv'
<1> USE ConstantsAssumption
<1> DEFINE k == step[Root] + 1
<1>1. /\ TypeOK /\ UNCHANGED <<opts, phase, test, affinity, cpu>>
      /\ phase[Root] \in {"pre", "post"} /\ Programming(Root)
  BY DEF TypeInv, ReadMsr, WriteMsr, CheckMsr, Setting, Running, placeVars, cpuVars
<1>2. step[Root] \in Nat /\ k \in Prefetchers /\ \A j \in 1..step[Root] : j # k
  BY <1>1 DEF TypeOK, Programming, Prefetchers
<1>3. Pinned' /\ Requested' = Requested /\ affinity[Root] = {TargetCpu}
  BY <1>1 DEF MsrInv, Pinned, Requested
<1>4. OneComplete' <=> OneComplete
  BY <1>1, <1>3 DEF OneComplete
<1>5. CASE ReadMsr(Root)
  <2>1. UNCHANGED <<step, msr>> /\ call'[Root].at = "write"
    BY <1>1, <1>5 DEF ReadMsr, TypeOK, placeVars
  <2>2. QED
    BY <1>1, <1>3, <1>4, <2>1 DEF MsrInv, PreProgress, LeftBits
<1>6. CASE WriteMsr(Root)
  <2>1. step' = step /\ call[Root].at = "write"
    BY <1>6 DEF WriteMsr, Setting, placeVars
  <2>2. msr'[TargetCpu] = Changed(msr[TargetCpu], k, Wanted(Root))
    BY <1>1, <1>3, <1>6, <2>1, PinnedCall DEF WriteMsr, TypeOK
  <2>3. /\ k \in msr'[TargetCpu] <=> k \notin Wanted(Root)
        /\ \A j : j # k => (j \in msr'[TargetCpu] <=> j \in msr[TargetCpu])
    BY <2>2, ChangedBits
  <2>4. PreProgress'
    BY <1>1, <1>2, <2>1, <2>3 DEF MsrInv, PreProgress, Wanted
  <2>5. LeftBits'
    <3>1. k \notin Wanted(Root) => k \notin Enabled[test[Root]]
      BY <1>1, <1>2 DEF Wanted
    <3>2. msr[TargetCpu] \subseteq Prefetchers \ Enabled[test[Root]]
            => msr'[TargetCpu] \subseteq Prefetchers \ Enabled[test[Root]]
      BY <1>2, <2>3, <3>1
    <3>3. QED
      BY <1>1, <1>4, <3>2 DEF MsrInv, LeftBits
  <2>6. QED
    BY <1>3, <2>4, <2>5 DEF MsrInv
<1>7. CASE CheckMsr(Root)
  <2>1. step'[Root] = k /\ msr' = msr /\ call'[Root].at = "read" /\ call[Root].at = "check"
    BY <1>1, <1>7 DEF CheckMsr, Setting, NoCall, TypeOK
  <2>2. \A j \in 1..k : j \in 1..step[Root] \/ j = k
    BY <1>2
  <2>3. PreProgress'
    BY <1>1, <2>1, <2>2 DEF MsrInv, PreProgress
  <2>4. QED
    BY <1>1, <1>3, <1>4, <2>1, <2>3 DEF MsrInv, LeftBits
<1>8. QED
  BY <1>5, <1>6, <1>7

\* pre_test and post_test have made all their calls.
LEMMA MsrProgrammed ==
  ASSUME TypeInv, MsrInv, OnlyRoot', state[Root] = "run", PreTestDone(Root) \/ PostTestDone(Root)
  PROVE  MsrInv'
<1> USE ConstantsAssumption DEF Running
<1>1. /\ TypeOK /\ UNCHANGED <<opts, test, call, affinity, cpu, msr>> /\ ~Programming(Root)
  BY DEF TypeInv, PreTestDone, PostTestDone, cpuVars
<1>2. step[Root] \in Nat /\ step[Root] <= NumPrefetchers /\ msr[TargetCpu] \subseteq Prefetchers
  BY <1>1 DEF TypeOK
<1>3. CASE PreTestDone(Root)
  <2>1. phase[Root] = "pre" /\ phase'[Root] = "identify"
    BY <1>1, <1>3, RootGoto DEF PreTestDone
  <2>2. ASSUME test[Root] \in Programmed
        PROVE  msr[TargetCpu] = Prefetchers \ Enabled[test[Root]]
    <3>1. step[Root] = NumPrefetchers
      BY <1>1, <1>2, <2>2 DEF Programming
    <3>2. QED
      BY <1>2, <2>1, <2>2, <3>1 DEF MsrInv, PreProgress, Prefetchers
  <2>3. QED
    BY <1>1, <2>1, <2>2 DEF MsrInv, Pinned, PreProgress, LeftBits
<1>4. CASE PostTestDone(Root)
  <2>1. phase[Root] = "post" /\ phase'[Root] = "dump"
    BY <1>1, <1>4, RootGoto DEF PostTestDone
  <2>2. QED
    BY <1>1, <2>1 DEF MsrInv, Pinned, PreProgress, LeftBits
<1>5. QED
  BY <1>3, <1>4

\* The invariant about the MSR of the target CPU holds throughout.
LEMMA MsrInvariant ==
  ASSUME "exec" \notin Faults, "pin" \notin Faults
  PROVE  Spec => []MsrInv
<1>1. Init => MsrInv
  BY ConstantsAssumption DEF Init, MsrInv, OnlyRoot, Pinned, PreProgress, LeftBits
<1>2. TypeInv /\ AtomicInv /\ RestoreInv /\ MsrInv /\ [Next]_vars => MsrInv'
  <2> SUFFICES ASSUME TypeInv, AtomicInv, RestoreInv, MsrInv, [Next]_vars PROVE MsrInv'
    OBVIOUS
  <2>1. TypeOK /\ OnItsCpus /\ CallPhase /\ CallsAtomic /\ OnlyRoot /\ OnlyRoot'
    BY OnlyRootStep DEF TypeInv, AtomicInv, MsrInv
  <2>2. CASE UNCHANGED vars
    BY <2>1, <2>2, MsrFrame DEF vars, placeVars, cpuVars
  <2>3. ASSUME NEW p \in Procs, state[p] = "run" PROVE p = Root
    BY <2>1, <2>3 DEF OnlyRoot
  <2>4. ASSUME NEW p \in Procs,
               \/ Pin(p) \/ InitClock(p) \/ Calibrate(p) \/ StopOwnClock(p)
               \/ IdentifyDone(p) \/ CharacterizeDone(p) \/ StartOwnClock(p)
               \/ Dump(p) \/ NextTest(p) \/ EndOfTests(p)
        PROVE  MsrInv'
    <3>1. state[p] = "run"
      BY <2>4 DEF Pin, InitClock, Calibrate, StopOwnClock, IdentifyDone, CharacterizeDone,
         StartOwnClock, Dump, NextTest, EndOfTests, Running
    <3>2. QED
      BY <2>1, <2>3, <2>4, <3>1, MsrMoves
  <2>5. ASSUME NEW p \in Procs,
               ReadMsr(p) \/ WriteMsr(p) \/ CheckMsr(p) \/ PreTestDone(p) \/ PostTestDone(p)
        PROVE  MsrInv'
    <3>1. state[p] = "run"
      BY <2>5 DEF ReadMsr, WriteMsr, CheckMsr, Setting, PreTestDone, PostTestDone, Running
    <3>2. QED
      BY <2>1, <2>3, <2>5, <3>1, MsrAccess, MsrProgrammed
  <2>6. ASSUME NEW p \in Procs,
               \/ Fork(p) \/ Exec(p) \/ HelperExit(p) \/ Reap(p) \/ Migrate(p)
               \/ Teardown(p) \/ JoinLostThread(p) \/ CheckMsrFails(p) \/ MsrError(p)
               \/ Abort(p) \/ CharacterizeDies(p) \/ ForkError(p)
        PROVE  MsrInv'
    BY <2>1, <2>6, MsrOthers
  <2>7. QED
    BY <2>2, <2>4, <2>5, <2>6 DEF Next, Proceed, Done
<1>3. QED
  BY <1>1, <1>2, TypeCorrect, AtomicInvariant, RestoreInvariant, PTL DEF Spec, TypeInv

\* As long as execvp and sched_setaffinity do not fail, every measurement is
\* taken with exactly the prefetchers disabled that its testcase disabled.
THEOREM MeasurementsAsConfigured ==
  ASSUME "exec" \notin Faults, "pin" \notin Faults
  PROVE  Spec => []MeasuredAsConfigured
<1>1. MsrInv => MeasuredAsConfigured
  <2> SUFFICES ASSUME MsrInv, NEW p \in Procs, Measuring(p), test[p] \in Programmed
               PROVE  msr[cpu[p]] = Prefetchers \ Enabled[test[p]]
    BY DEF MeasuredAsConfigured
  <2>1. p = Root /\ phase[Root] \in {"identify", "characterize"}
    BY DEF MsrInv, OnlyRoot, Measuring
  <2>2. QED
    BY <2>1 DEF MsrInv, Pinned, PreProgress
<1>2. QED
  BY <1>1, MsrInvariant, PTL

\* As long as execvp and sched_setaffinity do not fail, a run that dies leaves
\* no prefetcher disabled that the testcase it died in does not disable.
THEOREM FailureLeavesOwnSetting ==
  ASSUME "exec" \notin Faults, "pin" \notin Faults
  PROVE  Spec => []LeftByFailure
<1>1. TypeOK /\ RestoreInv /\ MsrInv => LeftByFailure
  <2> SUFFICES ASSUME TypeOK, RestoreInv, MsrInv, test[Root] \in Programmed,
                      phase[Root] \notin {"stop_clock", "pre"} \/ OneComplete
               PROVE  msr[TargetCpu] \subseteq Prefetchers \ Enabled[test[Root]]
    BY DEF LeftByFailure, OneComplete
  <2>1. phase[Root] \notin {"pin", "clock_init", "calibrate"}
    BY ConstantsAssumption DEF RestoreInv, Unstarted, Tests
  <2>2. QED
    BY <2>1, ConstantsAssumption DEF TypeOK, Phases, MsrInv, PreProgress, LeftBits
<1>2. QED
  BY <1>1, MsrInvariant, RestoreInvariant, TypeCorrect, PTL

------------------------------------------------------------------------------
\* Who waits for whom, and who has a counter thread

\* Processes that have not become a second copy of the benchmark.
Helpers == {"forked", "exec"}

\* Every waiting process waits for a process of its own, which stands where its
\* parent stood when it forked as long as it has not become a second copy.
WaitsForChild ==
  \A p \in Procs : state[p] = "wait" =>
    /\ child[p] \notin {p, Root} /\ state[child[p]] # "free"
    /\ \A q \in Procs \ {p} : state[q] = "wait" => child[q] # child[p]
    /\ state[child[p]] \in Helpers =>
         /\ phase[child[p]] = phase[p] /\ test[child[p]] = test[p]
         /\ forks[child[p]] = forks[p]

\* No processes wait for each other in a circle: a set of waiting processes
\* leads to one outside of the set.
NoCircle == \A S \in SUBSET Procs : S # {} => \E p \in S : state[p] # "wait" \/ child[p] \notin S

\* fork() does not copy the thread and exit() ends it.
ThreadOwners == \A p \in Procs : thread[p] => state[p] \in {"run", "wait"}

KinInv == WaitsForChild /\ NoCircle /\ ThreadOwners

\* A step of a process that neither forks nor reaps.
LEMMA KinFrame ==
  ASSUME TypeOK, KinInv, NEW p \in Procs, state[p] \notin {"free", "wait"}, child' = child,
         \A q \in Procs \ {p} :
           /\ state'[q] = state[q] /\ phase'[q] = phase[q] /\ test'[q] = test[q]
           /\ forks'[q] = forks[q] /\ thread'[q] = thread[q],
         state'[p] \notin {"free", "wait"},
         state'[p] \in Helpers =>
           /\ state[p] \in Helpers
           /\ phase'[p] = phase[p] /\ test'[p] = test[p] /\ forks'[p] = forks[p],
         thread'[p] => state'[p] = "run"
  PROVE  KinInv'
<1>1. \A q \in Procs : state'[q] = "wait" => state[q] = "wait" /\ q # p
  OBVIOUS
<1>2. \A q \in Procs : state[q] = "wait" => child[q] \in Procs
  BY DEF TypeOK
<1>3. WaitsForChild'
  <2> SUFFICES ASSUME NEW r \in Procs, state'[r] = "wait"
               PROVE  /\ child[r] \notin {r, Root} /\ state'[child[r]] # "free"
                      /\ \A q \in Procs \ {r} : state'[q] = "wait" => child[q] # child[r]
                      /\ state'[child[r]] \in Helpers =>
                           /\ phase'[child[r]] = phase'[r] /\ test'[child[r]] = test'[r]
                           /\ forks'[child[r]] = forks'[r]
    BY DEF WaitsForChild
  <2>1. state[r] = "wait" /\ r # p /\ child[r] \in Procs
    BY <1>1, <1>2
  <2>2. /\ child[r] \notin {r, Root} /\ state[child[r]] # "free"
        /\ \A q \in Procs \ {r} : state[q] = "wait" => child[q] # child[r]
        /\ state[child[r]] \in Helpers =>
             /\ phase[child[r]] = phase[r] /\ test[child[r]] = test[r]
             /\ forks[child[r]] = forks[r]
    BY <2>1 DEF KinInv, WaitsForChild
  <2>3. CASE child[r] = p
    BY <1>1, <2>1, <2>2, <2>3
  <2>4. CASE child[r] # p
    BY <1>1, <2>1, <2>2, <2>4
  <2>5. QED
    BY <2>3, <2>4
<1>4. NoCircle'
  BY <1>1 DEF KinInv, NoCircle
<1>5. ThreadOwners'
  BY DEF KinInv, ThreadOwners
<1>6. QED
  BY <1>3, <1>4, <1>5 DEF KinInv

\* A process forks a helper: a free process has no thread and no parent.
LEMMA KinFork ==
  ASSUME TypeOK, RootApart, KinInv, NEW p \in Procs, Fork(p)
  PROVE  KinInv'
<1>1. PICK c \in Procs :
        /\ state[c] = "free"
        /\ state' = [state EXCEPT ![p] = "wait", ![c] = "forked"]
        /\ child' = [child EXCEPT ![p] = c]
        /\ phase' = CopyOf(phase, p, c) /\ test' = CopyOf(test, p, c)
        /\ forks' = [forks EXCEPT ![p] = @ - 1, ![c] = forks[p] - 1]
        /\ thread' = [thread EXCEPT ![c] = FALSE]
  BY DEF Fork
<1>2. state[p] = "run" /\ c # p /\ c # Root
  BY <1>1 DEF Fork, Running, RootApart
<1>3. /\ state'[p] = "wait" /\ state'[c] = "forked" /\ child'[p] = c
      /\ phase'[c] = phase'[p] /\ test'[c] = test'[p] /\ forks'[c] = forks'[p]
      /\ thread'[c] = FALSE /\ thread'[p] = thread[p]
  BY <1>1, <1>2 DEF CopyOf, TypeOK
<1>4. \A q \in Procs \ {p, c} :
        /\ state'[q] = state[q] /\ child'[q] = child[q] /\ phase'[q] = phase[q]
        /\ test'[q] = test[q] /\ forks'[q] = forks[q] /\ thread'[q] = thread[q]
  BY <1>1, <1>2 DEF CopyOf, TypeOK
<1>5. ASSUME NEW r \in Procs \ {p}, state'[r] = "wait"
      PROVE  /\ r # c /\ state[r] = "wait" /\ child'[r] = child[r]
             /\ child[r] \in Procs \ {c, r, Root}
  <2>1. r # c /\ state[r] = "wait" /\ child'[r] = child[r] /\ child[r] \in Procs
    BY <1>3, <1>4, <1>5 DEF TypeOK
  <2>2. child[r] \notin {r, Root} /\ state[child[r]] # "free"
    BY <2>1 DEF KinInv, WaitsForChild
  <2>3. QED
    BY <1>1, <2>1, <2>2
<1>6. WaitsForChild'
  <2> SUFFICES ASSUME NEW r \in Procs, state'[r] = "wait"
               PROVE  /\ child'[r] \notin {r, Root} /\ state'[child'[r]] # "free"
                      /\ \A q \in Procs \ {r} : state'[q] = "wait" => child'[q] # child'[r]
                      /\ state'[child'[r]] \in Helpers =>
                           /\ phase'[child'[r]] = phase'[r] /\ test'[child'[r]] = test'[r]
                           /\ forks'[child'[r]] = forks'[r]
    BY DEF WaitsForChild
  <2>1. CASE r = p
    BY <1>2, <1>3, <1>5, <2>1
  <2>2. CASE r # p
    <3>1. r # c /\ state[r] = "wait" /\ child'[r] = child[r] /\ child[r] \in Procs \ {c, r, Root}
      BY <1>5, <2>2
    <3>2. /\ state[child[r]] # "free"
          /\ \A q \in Procs \ {r} : state[q] = "wait" => child[q] # child[r]
          /\ state[child[r]] \in Helpers =>
               /\ phase[child[r]] = phase[r] /\ test[child[r]] = test[r]
               /\ forks[child[r]] = forks[r]
      BY <3>1 DEF KinInv, WaitsForChild
    <3>3. state'[child[r]] # "free" /\ (state'[child[r]] \in Helpers => child[r] # p)
      BY <1>3, <1>4, <3>1, <3>2 DEF Helpers
    <3>4. ASSUME NEW q \in Procs \ {r}, state'[q] = "wait" PROVE child'[q] # child[r]
      <4>1. CASE q = p
        BY <1>3, <3>1, <4>1
      <4>2. CASE q # p
        <5>1. state[q] = "wait" /\ child'[q] = child[q]
          BY <1>5, <3>4, <4>2
        <5>2. QED
          BY <3>2, <5>1
      <4>3. QED
        BY <4>1, <4>2
    <3>5. state'[child[r]] \in Helpers =>
            /\ phase'[child[r]] = phase'[r] /\ test'[child[r]] = test'[r]
            /\ forks'[child[r]] = forks'[r]
      <4>1. SUFFICES ASSUME state'[child[r]] \in Helpers
                     PROVE  /\ phase'[child[r]] = phase'[r] /\ test'[child[r]] = test'[r]
                            /\ forks'[child[r]] = forks'[r]
        OBVIOUS
      <4>2. child[r] \in Procs \ {p, c} /\ r \in Procs \ {p, c}
        BY <2>2, <3>1, <3>3, <4>1
      <4>3. state[child[r]] \in Helpers
        BY <1>4, <4>1, <4>2
      <4>4. QED
        BY <1>4, <3>2, <4>2, <4>3
    <3>6. QED
      BY <3>1, <3>3, <3>4, <3>5
  <2>3. QED
    BY <2>1, <2>2
<1>7. NoCircle'
  <2> SUFFICES ASSUME NEW S \in SUBSET Procs, S # {},
                      \A r \in S : state'[r] = "wait" /\ child'[r] \in S
               PROVE  FALSE
    BY DEF NoCircle
  <2>1. p \notin S
    BY <1>3
  <2>2. \A r \in S : state[r] = "wait" /\ child[r] \in S
    BY <1>5, <2>1
  <2>3. QED
    BY <2>2 DEF KinInv, NoCircle
<1>8. ThreadOwners'
  BY <1>2, <1>3, <1>4 DEF KinInv, ThreadOwners
<1>9. QED
  BY <1>6, <1>7, <1>8 DEF KinInv

\* waitpid() returns: the child has ended and nobody else waits for it.
LEMMA KinReap ==
  ASSUME TypeOK, KinInv, NEW p \in Procs, Reap(p)
  PROVE  KinInv'
<1> DEFINE c == child[p]
<1>1. /\ state[p] = "wait" /\ state[c] \in {"success", "failure"} /\ c \in Procs /\ c # p
      /\ state' = [state EXCEPT ![p] = "run", ![c] = "free"]
      /\ child' = [child EXCEPT ![p] = p]
      /\ UNCHANGED <<phase, test, forks, thread>>
  BY DEF Reap, TypeOK, placeVars, clockVars
<1>2. /\ state'[p] = "run" /\ state'[c] = "free"
      /\ \A q \in Procs \ {p, c} : state'[q] = state[q]
      /\ \A q \in Procs \ {p} : child'[q] = child[q] /\ child[q] \in Procs
  BY <1>1 DEF TypeOK
<1>3. ASSUME NEW r \in Procs, state'[r] = "wait"
      PROVE  r \notin {p, c} /\ state[r] = "wait" /\ child'[r] = child[r] /\ child[r] # c
  <2>1. r \notin {p, c} /\ state[r] = "wait" /\ child'[r] = child[r]
    BY <1>2, <1>3
  <2>2. QED
    BY <1>1, <2>1 DEF KinInv, WaitsForChild
<1>4. WaitsForChild'
  <2> SUFFICES ASSUME NEW r \in Procs, state'[r] = "wait"
               PROVE  /\ child'[r] \notin {r, Root} /\ state'[child'[r]] # "free"
                      /\ \A q \in Procs \ {r} : state'[q] = "wait" => child'[q] # child'[r]
                      /\ state'[child'[r]] \in Helpers =>
                           /\ phase'[child'[r]] = phase'[r] /\ test'[child'[r]] = test'[r]
                           /\ forks'[child'[r]] = forks'[r]
    BY DEF WaitsForChild
  <2>1. /\ r \notin {p, c} /\ state[r] = "wait" /\ child'[r] = child[r]
        /\ child[r] # c /\ child[r] \in Procs
    BY <1>2, <1>3
  <2>2. /\ child[r] \notin {r, Root} /\ state[child[r]] # "free"
        /\ \A q \in Procs \ {r} : state[q] = "wait" => child[q] # child[r]
        /\ state[child[r]] \in Helpers =>
             /\ phase[child[r]] = phase[r] /\ test[child[r]] = test[r]
             /\ forks[child[r]] = forks[r]
    BY <2>1 DEF KinInv, WaitsForChild
  <2>3. \A q \in Procs \ {r} : state'[q] = "wait" => child'[q] # child'[r]
    BY <1>3, <2>1, <2>2
  <2>4. state'[child[r]] = state[child[r]] \/ state'[child[r]] = "run"
    BY <1>2, <2>1
  <2>5. state'[child[r]] # "free" /\ (state'[child[r]] \in Helpers => state[child[r]] \in Helpers)
    BY <2>2, <2>4 DEF Helpers
  <2>6. QED
    BY <1>1, <2>1, <2>2, <2>3, <2>5
<1>5. NoCircle'
  <2> SUFFICES ASSUME NEW S \in SUBSET Procs, S # {},
                      \A r \in S : state'[r] = "wait" /\ child'[r] \in S
               PROVE  FALSE
    BY DEF NoCircle
  <2>1. \A r \in S : state[r] = "wait" /\ child[r] \in S
    BY <1>3
  <2>2. QED
    BY <2>1 DEF KinInv, NoCircle
<1>6. ThreadOwners'
  BY <1>1, <1>2 DEF KinInv, ThreadOwners
<1>7. QED
  BY <1>4, <1>5, <1>6 DEF KinInv

LEMMA KinStep ==
  ASSUME TypeOK, RootApart, KinInv, [Next]_vars
  PROVE  KinInv'
<1> USE DEF Goto, placeVars, cpuVars, clockVars, StartClock, StopClock, Exit, Running, Setting, Helpers
<1>1. ASSUME NEW p \in Procs,
             \/ Pin(p) \/ InitClock(p) \/ Calibrate(p) \/ NextTest(p) \/ EndOfTests(p)
             \/ StopOwnClock(p) \/ ReadMsr(p) \/ WriteMsr(p) \/ CheckMsr(p) \/ PreTestDone(p)
             \/ IdentifyDone(p) \/ CharacterizeDone(p) \/ StartOwnClock(p) \/ PostTestDone(p)
             \/ Dump(p)
      PROVE  KinInv'
  <2> USE DEF Pin, InitClock, Calibrate, NextTest, EndOfTests, StopOwnClock, ReadMsr, WriteMsr,
        CheckMsr, PreTestDone, IdentifyDone, CharacterizeDone, StartOwnClock, PostTestDone, Dump
  <2>1. state[p] = "run" /\ UNCHANGED <<state, child>>
    BY <1>1
  <2>2. \A q \in Procs \ {p} :
          phase'[q] = phase[q] /\ test'[q] = test[q] /\ forks'[q] = forks[q]
    BY <1>1 DEF TypeOK
  <2>3. \A q \in Procs \ {p} : thread'[q] = thread[q]
    BY <1>1 DEF TypeOK
  <2>4. QED
    BY <2>1, <2>2, <2>3, KinFrame
<1>2. ASSUME NEW p \in Procs,
             \/ Teardown(p) \/ JoinLostThread(p) \/ CheckMsrFails(p) \/ MsrError(p) \/ Abort(p)
             \/ CharacterizeDies(p) \/ ForkError(p)
      PROVE  KinInv'
  <2> USE DEF Teardown, JoinLostThread, CheckMsrFails, MsrError, Abort, CharacterizeDies, ForkError
  <2>1. state[p] = "run" /\ UNCHANGED <<child, phase, test, forks>>
    BY <1>2
  <2>2. PICK s \in {"success", "failure", "hung"} : state' = [state EXCEPT ![p] = s]
    BY <1>2
  <2>3. state'[p] = s /\ \A q \in Procs \ {p} : state'[q] = state[q]
    BY <2>2 DEF TypeOK
  <2>4. ~thread'[p] /\ \A q \in Procs \ {p} : thread'[q] = thread[q]
    BY <1>2 DEF TypeOK
  <2>5. QED
    BY <2>1, <2>3, <2>4, KinFrame
<1>3. ASSUME NEW p \in Procs, Exec(p) \/ HelperExit(p) PROVE KinInv'
  <2> USE DEF Exec, HelperExit
  <2>1. state[p] \in Helpers /\ UNCHANGED <<child, phase, test, forks, thread>>
    BY <1>3
  <2>2. PICK s \in {"exec", "run", "success"} : state' = [state EXCEPT ![p] = s]
    BY <1>3
  <2>3. state'[p] = s /\ \A q \in Procs \ {p} : state'[q] = state[q]
    BY <2>2 DEF TypeOK
  <2>4. ~thread[p]
    BY <2>1 DEF KinInv, ThreadOwners
  <2>5. QED
    BY <2>1, <2>3, <2>4, KinFrame
<1>4. ASSUME NEW p \in Procs, Fork(p) \/ Reap(p) PROVE KinInv'
  BY <1>4, KinFork, KinReap
<1>5. ASSUME UNCHANGED <<state, child, phase, test, forks, thread>> PROVE KinInv'
  BY <1>5 DEF KinInv, WaitsForChild, NoCircle, ThreadOwners
<1>6. ASSUME NEW p \in Procs, Migrate(p) PROVE KinInv'
  BY <1>5, <1>6 DEF Migrate
<1>7. CASE UNCHANGED vars
  BY <1>5, <1>7 DEF vars
<1>8. QED
  BY <1>1, <1>2, <1>3, <1>4, <1>6, <1>7 DEF Next, Proceed, Done

LEMMA KinInvariant == Spec => []KinInv
<1>1. Init => KinInv
  BY ConstantsAssumption DEF Init, KinInv, WaitsForChild, NoCircle, ThreadOwners
<1>2. TypeOK /\ RootInv /\ KinInv /\ [Next]_vars => KinInv'
  BY KinStep DEF RootInv
<1>3. QED
  BY <1>1, <1>2, TypeCorrect, RootInvariant, PTL DEF Spec, TypeInv

\* While the process that the user started waits for a program that it exec'ed,
\* every other process is gone.
LEMMA AloneWithChild ==
  ASSUME TypeOK, OneActive, KinInv, state[Root] = "wait", state[child[Root]] = "exec",
         NEW q \in Procs \ {Root, child[Root]}
  PROVE  state[q] = "free"
<1> DEFINE W == {r \in Procs \ {Root} : state[r] = "wait"}
<1>1. child[Root] \in Procs /\ Root \in Procs
  BY ConstantsAssumption DEF TypeOK
<1>2. \A r \in Procs \ {child[Root]} : state[r] \in {"free", "wait"}
  BY <1>1 DEF OneActive, Parked
<1>3. ASSUME NEW r \in W PROVE child[r] \in W
  <2>1. child[r] \in Procs /\ child[r] # Root /\ state[child[r]] # "free" /\ child[r] # child[Root]
    BY <1>1 DEF KinInv, WaitsForChild, TypeOK
  <2>2. QED
    BY <1>2, <2>1
<1>4. W = {}
  BY <1>3 DEF KinInv, NoCircle
<1>5. QED
  BY <1>2, <1>4

\* While an external program that the benchmark started runs, no copy of the
\* benchmark has a counter thread, whatever has failed before and however many
\* copies a failing execvp has left.
THEOREM RunnerHasClockAlone == Spec => []RunnerClockAlone
<1>1. TypeOK /\ OneActive /\ RootInv /\ KinInv => RunnerClockAlone
  <2> SUFFICES ASSUME TypeOK, OneActive, RootInv, KinInv, state[Root] = "wait",
                      state[child[Root]] = "exec", IsRunner(child[Root]), NEW q \in Procs
               PROVE  ~thread[q]
    BY DEF RunnerClockAlone
  <2>1. Root \in Procs
    BY ConstantsAssumption
  <2>2. CASE q = Root
    <3>1. phase[Root] = "identify" /\ test[Root] \in External
      BY <2>1 DEF IsRunner, KinInv, WaitsForChild, Helpers
    <3>2. thread[Root] = runflag[Root] /\ ~runflag[Root]
      BY <3>1 DEF RootInv, ClockInv, LentClock
    <3>3. QED
      BY <2>2, <3>2
  <2>3. CASE q = child[Root]
    BY <2>3 DEF KinInv, ThreadOwners
  <2>4. CASE q \notin {Root, child[Root]}
    BY <2>4, AloneWithChild DEF KinInv, ThreadOwners
  <2>5. QED
    BY <2>2, <2>3, <2>4
<1>2. QED
  BY <1>1, TypeCorrect, OnlyOneExecutes, RootInvariant, KinInvariant, PTL

------------------------------------------------------------------------------
\* The external program on the CPU of the benchmark

\* Without failing calls, helpers stay on the target CPU.
HelpersPinned == \A p \in Procs : state[p] \in Helpers => affinity[p] = {TargetCpu}

LEMMA HelpersPinnedStep ==
  ASSUME "exec" \notin Faults, ~CounterThread, TypeOK, MsrInv, HelpersPinned, [Next]_vars
  PROVE  HelpersPinned'
<1> USE ConstantsAssumption DEF Helpers
<1>1. OnlyRoot /\ Pinned
  BY DEF MsrInv
<1>2. ASSUME NEW p \in Procs, Fork(p) PROVE HelpersPinned'
  <2>1. PICK c \in Procs :
          /\ state[c] = "free" /\ state' = [state EXCEPT ![p] = "wait", ![c] = "forked"]
          /\ affinity' = CopyOf(affinity, p, c)
    BY <1>2 DEF Fork
  <2>2. p = Root /\ c # p /\ affinity[p] = {TargetCpu}
    BY <1>1, <1>2, <2>1 DEF OnlyRoot, Pinned, Fork, Running
  <2>3. /\ affinity'[c] = {TargetCpu} /\ \A q \in Procs \ {c} : affinity'[q] = affinity[q]
        /\ state'[p] = "wait" /\ \A q \in Procs \ {p, c} : state'[q] = state[q]
    BY <2>1, <2>2 DEF CopyOf, TypeOK
  <2>4. QED
    BY <2>3 DEF HelpersPinned
<1>3. ASSUME NEW p \in Procs, Exec(p) PROVE HelpersPinned'
  <2>1. affinity[p] = {TargetCpu} /\ ChildAffinity(p) = {TargetCpu}
    BY <1>3 DEF Exec, HelpersPinned, ChildAffinity
  <2>2. affinity'[p] = {TargetCpu} /\ \A q \in Procs \ {p} : affinity'[q] = affinity[q]
    <3>1. CASE UNCHANGED cpuVars
      BY <2>1, <3>1 DEF cpuVars
    <3>2. CASE affinity' = [affinity EXCEPT ![p] = ChildAffinity(p)]
      BY <2>1, <3>2 DEF TypeOK
    <3>3. QED
      BY <1>3, <3>1, <3>2 DEF Exec
  <2>3. \A q \in Procs \ {p} : state'[q] = state[q]
    BY <1>3 DEF Exec, TypeOK
  <2>4. QED
    BY <2>2, <2>3 DEF HelpersPinned
<1>4. ASSUME UNCHANGED affinity, \A q \in Procs : state'[q] \in Helpers => state[q] \in Helpers
      PROVE  HelpersPinned'
  BY <1>4 DEF HelpersPinned
<1>5. ASSUME NEW p \in Procs, Pin(p) PROVE HelpersPinned'
  <2>1. state' = state /\ state[p] = "run" /\ \A q \in Procs \ {p} : affinity'[q] = affinity[q]
    BY <1>5 DEF Pin, Running, TypeOK, cpuVars
  <2>2. QED
    BY <2>1 DEF HelpersPinned
<1>6. ASSUME NEW p \in Procs,
             \/ InitClock(p) \/ Calibrate(p) \/ NextTest(p) \/ EndOfTests(p) \/ StopOwnClock(p)
             \/ ReadMsr(p) \/ WriteMsr(p) \/ CheckMsr(p) \/ PreTestDone(p) \/ IdentifyDone(p)
             \/ CharacterizeDone(p) \/ StartOwnClock(p) \/ PostTestDone(p) \/ Dump(p) \/ Migrate(p)
      PROVE  HelpersPinned'
  BY <1>4, <1>6 DEF InitClock, Calibrate, NextTest, EndOfTests, StopOwnClock, ReadMsr, WriteMsr,
     CheckMsr, PreTestDone, IdentifyDone, CharacterizeDone, StartOwnClock, PostTestDone, Dump,
     Migrate, cpuVars
<1>7. ASSUME NEW p \in Procs,
             \/ Teardown(p) \/ JoinLostThread(p) \/ CheckMsrFails(p) \/ MsrError(p) \/ Abort(p)
             \/ CharacterizeDies(p) \/ ForkError(p) \/ HelperExit(p) \/ Reap(p)
      PROVE  HelpersPinned'
  <2> USE DEF Teardown, JoinLostThread, CheckMsrFails, MsrError, Abort, CharacterizeDies,
        ForkError, HelperExit, Reap, Exit
  <2>1. affinity' = affinity
    BY <1>7 DEF cpuVars
  <2>2. \A q \in Procs : state'[q] \in Helpers => state[q] \in Helpers
    BY <1>7 DEF TypeOK
  <2>3. QED
    BY <1>4, <2>1, <2>2
<1>8. CASE UNCHANGED vars
  BY <1>4, <1>8 DEF vars, cpuVars
<1>9. QED
  BY <1>2, <1>3, <1>5, <1>6, <1>7, <1>8 DEF Next, Proceed, Done

\* The external parr and pchase programs run with every prefetcher of their CPU
\* enabled, for any prefetchers and CPUs, whatever the MSR held before, and
\* however many testcases with other settings ran before them.  The
\* hypothesis about External is what their pre_test does.  A build with a
\* counter thread is excluded: it lets the program use the counter's CPU too.
THEOREM RunnerUnhampered ==
  ASSUME "exec" \notin Faults, "pin" \notin Faults, ~CounterThread,
         \A t \in External : t \in Programmed /\ Enabled[t] = Prefetchers
  PROVE  Spec => []RunnerSeesAllPrefetchers
<1> USE ConstantsAssumption
<1>1. Init => HelpersPinned
  BY DEF Init, HelpersPinned, Helpers
<1>2. TypeOK /\ MsrInv /\ HelpersPinned /\ [Next]_vars => HelpersPinned'
  BY HelpersPinnedStep
<1>3. Spec => []HelpersPinned
  BY <1>1, <1>2, TypeCorrect, MsrInvariant, PTL DEF Spec
<1>4. TypeOK /\ OneActive /\ MsrInv /\ OnItsCpus /\ KinInv /\ HelpersPinned
        => RunnerSeesAllPrefetchers
  <2> SUFFICES ASSUME TypeOK, OneActive, MsrInv, OnItsCpus, KinInv, HelpersPinned,
                      NEW p \in Procs, state[p] = "exec", IsRunner(p)
               PROVE  msr[cpu[p]] = {}
    BY DEF RunnerSeesAllPrefetchers
  <2>1. cpu[p] = TargetCpu
    BY DEF OnItsCpus, HelpersPinned, Helpers
  <2>2. p # Root /\ \A q \in Procs \ {p} : state[q] \in {"free", "wait"}
    BY DEF MsrInv, OnlyRoot, OneActive, Parked
  <2>3. state[Root] = "wait"
    BY <2>2 DEF MsrInv, OnlyRoot
  <2>4. child[Root] = p
    <3>1. child[Root] \in Procs \ {Root} /\ state[child[Root]] # "free"
      BY <2>3 DEF KinInv, WaitsForChild, TypeOK
    <3>2. state[child[Root]] # "wait"
      BY <3>1 DEF MsrInv, OnlyRoot
    <3>3. QED
      BY <2>2, <3>1, <3>2
  <2>5. phase[Root] = "identify" /\ test[Root] \in External
    BY <2>3, <2>4 DEF KinInv, WaitsForChild, Helpers, IsRunner
  <2>6. msr[TargetCpu] = Prefetchers \ Enabled[test[Root]]
    BY <2>5 DEF MsrInv, PreProgress
  <2>7. QED
    BY <2>1, <2>5, <2>6
<1>5. Spec => []OnItsCpus
  <2>1. AtomicInv => OnItsCpus
    BY DEF AtomicInv
  <2>2. QED
    BY <2>1, AtomicInvariant, PTL
<1>6. QED
  BY <1>3, <1>4, <1>5, TypeCorrect, OnlyOneExecutes, MsrInvariant, KinInvariant, PTL

------------------------------------------------------------------------------
\* The results files

\* Root is past the dump of testcase t.
Dumped(t) ==
  /\ t \in Requested
  /\ \/ t < test[Root]
     \/ t = test[Root] /\ phase[Root] \in {"next", "teardown"}

Written == \A t \in Tests : results[t] = IF Dumped(t) THEN "complete" ELSE "none"

\* The current testcase was asked for.
Chosen == test[Root] = 0 \/ test[Root] \in Requested

ResultsInv == OnlyRoot /\ Unstarted /\ AtEnd /\ Chosen /\ Written

\* A step that neither moves Root to or from a dump nor writes results.
LEMMA ResultsFrame ==
  ASSUME ResultsInv, OnlyRoot', opts' = opts, results' = results, test'[Root] = test[Root],
         \/ phase'[Root] = phase[Root]
         \/ phase'[Root] \notin {"clock_init", "calibrate", "pin", "next", "teardown"}
            /\ phase[Root] \notin {"next", "teardown"}
         \/ phase[Root] \in {"pin", "clock_init", "calibrate"} /\ phase'[Root] # "teardown"
  PROVE  ResultsInv'
<1>1. Requested' = Requested /\ \A t \in Requested : t # 0
  BY DEF Requested, Tests
<1>2. Unstarted' /\ AtEnd' /\ Chosen'
  BY <1>1 DEF ResultsInv, Unstarted, AtEnd, Chosen
<1>3. \A t \in Tests : Dumped(t)' <=> Dumped(t)
  BY <1>1 DEF ResultsInv, Unstarted, Dumped
<1>4. QED
  BY <1>2, <1>3 DEF ResultsInv, Written

\* The test loop goes to the next testcase that was asked for.
LEMMA ResultsLoop ==
  ASSUME TypeOK, ResultsInv, OnlyRoot', NextTest(Root) \/ EndOfTests(Root)
  PROVE  ResultsInv'
<1> USE ConstantsAssumption
<1>1. /\ phase[Root] = "next" /\ UNCHANGED <<opts, results>>
      /\ test[Root] \in 0..NumTests /\ opts.testcase \in 0..Unknown /\ NumTests \in Nat
  BY DEF NextTest, EndOfTests, Running, TypeOK
<1>2. Requested' = Requested
  BY <1>1 DEF Requested
<1>3. CASE NextTest(Root)
  <2>1. /\ test'[Root] = Following(Root) /\ Following(Root) \in Tests
        /\ phase'[Root] \in {"stop_clock", "pre"}
    BY <1>3 DEF NextTest, Goto, TypeOK
  <2>2. Following(Root) \in Requested
    BY <1>1, <2>1 DEF Following, Requested, Tests
  <2>3. \A t \in Requested : t < Following(Root) <=> t <= test[Root]
    <3>1. CASE opts.testcase = 0
      <4>1. Following(Root) = test[Root] + 1 /\ Requested = Tests
        BY <3>1 DEF Following, Requested
      <4>2. QED
        BY <1>1, <4>1 DEF Tests
    <3>2. CASE opts.testcase # 0
      <4>1. opts.testcase # test[Root] /\ Following(Root) = opts.testcase
        BY <2>1, <3>2 DEF Following, Tests
      <4>2. Requested = {opts.testcase}
        BY <2>1, <3>2, <4>1 DEF Requested
      <4>3. test[Root] = 0
        BY <4>1, <4>2 DEF ResultsInv, Chosen
      <4>4. QED
        BY <1>1, <2>1, <4>1, <4>2, <4>3 DEF Tests
    <3>3. QED
      BY <3>1, <3>2
  <2>4. \A t \in Tests : Dumped(t)' <=> Dumped(t)
    <3>1. \A t \in Tests : t <= test[Root] <=> t < test[Root] \/ t = test[Root]
      BY <1>1 DEF Tests
    <3>2. QED
      BY <1>1, <1>2, <2>1, <2>3, <3>1 DEF Dumped
  <2>5. Unstarted' /\ AtEnd' /\ Chosen'
    BY <1>2, <2>1, <2>2 DEF Unstarted, AtEnd, Chosen
  <2>6. QED
    BY <1>1, <2>4, <2>5 DEF ResultsInv, Written
<1>4. CASE EndOfTests(Root)
  <2>1. test'[Root] = test[Root] /\ phase'[Root] = "teardown" /\ Following(Root) \notin Tests
    BY <1>4 DEF EndOfTests, Goto, TypeOK
  <2>2. \A u \in Requested : u <= test[Root]
    BY <1>1, <2>1 DEF Following, Requested, Tests, Unknown
  <2>3. Unstarted' /\ AtEnd' /\ Chosen'
    BY <1>2, <2>1, <2>2 DEF ResultsInv, Unstarted, AtEnd, Chosen
  <2>4. \A t \in Tests : Dumped(t)' <=> Dumped(t)
    BY <1>1, <1>2, <2>1 DEF Dumped
  <2>5. QED
    BY <1>1, <2>3, <2>4 DEF ResultsInv, Written
<1>5. QED
  BY <1>3, <1>4

\* The dump of the current testcase's results.
LEMMA ResultsDump ==
  ASSUME "io" \notin Faults, TypeInv, ResultsInv, OnlyRoot', Dump(Root)
  PROVE  ResultsInv'
<1> USE ConstantsAssumption
<1>1. /\ TypeOK /\ phase[Root] = "dump" /\ phase'[Root] = "next"
      /\ results' = [results EXCEPT ![test[Root]] = "complete"]
      /\ test' = test /\ opts' = opts
  BY DEF TypeInv, Dump, Running, Goto, TypeOK
<1>2. test[Root] \in Tests /\ test[Root] \in Requested
  BY <1>1 DEF TypeInv, TypeOK, TestChosen, TestPhases, Tests, ResultsInv, Chosen
<1>3. Requested' = Requested
  BY <1>1 DEF Requested
<1>4. ASSUME NEW t \in Tests PROVE Dumped(t)' <=> Dumped(t) \/ t = test[Root]
  BY <1>1, <1>2, <1>3 DEF Dumped
<1>5. ASSUME NEW t \in Tests
      PROVE  results'[t] = IF t = test[Root] THEN "complete" ELSE results[t]
  BY <1>1, <1>2 DEF TypeOK
<1>6. Written'
  BY <1>4, <1>5 DEF ResultsInv, Written
<1>7. Unstarted' /\ AtEnd' /\ Chosen'
  BY <1>1, <1>3 DEF ResultsInv, Unstarted, AtEnd, Chosen
<1>8. QED
  BY <1>6, <1>7 DEF ResultsInv

LEMMA ResultsStep ==
  ASSUME "exec" \notin Faults, "io" \notin Faults, TypeInv, ResultsInv, [Next]_vars
  PROVE  ResultsInv'
<1> USE ConstantsAssumption DEF Goto, Running, Setting, placeVars
<1>1. TypeOK /\ OnlyRoot /\ OnlyRoot'
  BY OnlyRootStep DEF TypeInv, ResultsInv
<1>2. ASSUME NEW p \in Procs, Running(p, "next") \/ Running(p, "dump"), Proceed(p) PROVE ResultsInv'
  <2>1. p = Root /\ state[p] = "run" /\ phase[p] \in {"next", "dump"}
    BY <1>1, <1>2 DEF OnlyRoot
  <2>2. NextTest(Root) \/ EndOfTests(Root) \/ Dump(Root)
    BY <1>2, <2>1 DEF Proceed, Pin, InitClock, Calibrate, Teardown, StopOwnClock, JoinLostThread,
       ReadMsr, WriteMsr, CheckMsr, CheckMsrFails, PreTestDone, IdentifyDone, CharacterizeDone,
       StartOwnClock, PostTestDone, MsrError, Abort, CharacterizeDies, Fork, ForkError, Exec,
       HelperExit, Reap
  <2>3. QED
    BY <1>1, <2>2, ResultsLoop, ResultsDump
<1>3. ASSUME NEW p \in Procs,
             \/ Pin(p) \/ InitClock(p) \/ Calibrate(p) \/ StopOwnClock(p) \/ ReadMsr(p)
             \/ WriteMsr(p) \/ CheckMsr(p) \/ PreTestDone(p) \/ IdentifyDone(p)
             \/ CharacterizeDone(p) \/ StartOwnClock(p) \/ PostTestDone(p)
      PROVE  ResultsInv'
  <2> USE DEF Pin, InitClock, Calibrate, StopOwnClock, ReadMsr, WriteMsr, CheckMsr, PreTestDone,
        IdentifyDone, CharacterizeDone, StartOwnClock, PostTestDone, PostPhase
  <2>1. p = Root
    BY <1>1, <1>3 DEF OnlyRoot
  <2>2. opts' = opts /\ results' = results /\ test' = test
    BY <1>3
  <2>3. \/ phase'[Root] = phase[Root]
        \/ phase'[Root] \notin {"clock_init", "calibrate", "pin", "next", "teardown"}
           /\ phase[Root] \notin {"next", "teardown"}
        \/ phase[Root] \in {"pin", "clock_init", "calibrate"} /\ phase'[Root] # "teardown"
    BY <1>1, <1>3, <2>1 DEF TypeOK
  <2>4. QED
    BY <1>1, <2>2, <2>3, ResultsFrame
<1>4. ASSUME NEW p \in Procs,
             \/ Teardown(p) \/ JoinLostThread(p) \/ CheckMsrFails(p) \/ MsrError(p) \/ Abort(p)
             \/ CharacterizeDies(p) \/ ForkError(p) \/ Exec(p) \/ HelperExit(p) \/ Reap(p)
             \/ Migrate(p)
      PROVE  ResultsInv'
  BY <1>1, <1>4, ResultsFrame DEF Teardown, JoinLostThread, CheckMsrFails, MsrError, Abort,
     CharacterizeDies, ForkError, Exec, HelperExit, Reap, Migrate
<1>5. ASSUME NEW p \in Procs, Fork(p) PROVE ResultsInv'
  <2>1. PICK c \in Procs : /\ state[c] = "free" /\ phase' = CopyOf(phase, p, c)
                           /\ test' = CopyOf(test, p, c)
    BY <1>5 DEF Fork
  <2>2. c # Root /\ opts' = opts /\ results' = results
    BY <1>1, <1>5, <2>1 DEF OnlyRoot, Fork
  <2>3. phase'[Root] = phase[Root] /\ test'[Root] = test[Root]
    BY <1>1, <2>1, <2>2 DEF CopyOf, TypeOK
  <2>4. QED
    BY <1>1, <2>2, <2>3, ResultsFrame
<1>6. CASE UNCHANGED vars
  BY <1>1, <1>6, ResultsFrame DEF vars
<1>7. QED
  BY <1>2, <1>3, <1>4, <1>5, <1>6 DEF Next, Proceed, Done, NextTest, EndOfTests, Dump

\* A successful run leaves complete results of every testcase that the command
\* line asked for and of no other, for any list of testcases.
THEOREM ResultsOfRequestedTests ==
  ASSUME "exec" \notin Faults, "io" \notin Faults
  PROVE  Spec => []ResultsComplete
<1> USE ConstantsAssumption
<1>1. Init => ResultsInv
  BY DEF Init, ResultsInv, OnlyRoot, Unstarted, AtEnd, Chosen, Written, Dumped, Requested, Tests
<1>2. TypeInv /\ ResultsInv /\ [Next]_vars => ResultsInv'
  BY ResultsStep
<1>3. TypeOK /\ ResultsInv => ResultsComplete
  <2> SUFFICES ASSUME TypeOK, ResultsInv, state[Root] = "success", NEW t \in Tests
               PROVE  results[t] = IF t \in Requested THEN "complete" ELSE "none"
    BY DEF ResultsComplete
  <2>1. phase[Root] = "teardown" /\ \A u \in Requested : u <= test[Root]
    BY DEF ResultsInv, OnlyRoot, AtEnd
  <2>2. t \in Nat /\ test[Root] \in Nat
    BY DEF TypeOK, Tests
  <2>3. Dumped(t) <=> t \in Requested
    BY <2>1, <2>2 DEF Dumped
  <2>4. QED
    BY <2>3 DEF ResultsInv, Written
<1>4. QED
  BY <1>1, <1>2, <1>3, TypeCorrect, PTL DEF Spec, TypeInv

------------------------------------------------------------------------------
(***************************************************************************)
(* The testcase of the adjacent cache line prefetcher.  The measured line  *)
(* is in the cache if and only if the accessed line or its prefetch        *)
(* brought it; so all latencies of a pair of lines are those of hits or    *)
(* all are those of misses, and so is their average.                       *)
(***************************************************************************)

\* Whether the access to a line brings the one at a range into the cache.
Brought(o, r) == r = 0 \/ o + r \in Prefetched(o)

\* The values of the variables, and where the loops are.
LoopInv ==
  /\ prefetcher \in {"none", "next", "block"}
  /\ fr_thresh \in Nat /\ noise_thresh \in Nat
  /\ pc \in {"flush", "access", "measure", "average", "evaluate", "done"}
  /\ range \in Ranges /\ i \in Nat /\ sum \in Nat
  /\ patterns \in [0..1 -> SUBSET Ranges]
  /\ pc \in {"flush", "access", "measure", "average"} => offset \in 0..1
  /\ pc \in {"evaluate", "done"} => offset = 2
  /\ pc \in {"flush", "access", "measure"} => i < Repeat
  /\ pc = "average" => i = Repeat

\* What the flush leaves and what the access then brings.
LineInv ==
  /\ pc = "access" => Other \notin cached
  /\ pc = "measure" => (Other \in cached <=> Brought(offset, range))

\* The latencies so far, when the thresholds tell hits from misses.
LatencyInv ==
  ThresholdsSeparate =>
    IF Brought(offset, range)
    THEN i * noise_thresh + i <= sum /\ sum + i <= i * fr_thresh
    ELSE i * fr_thresh <= sum

\* The patterns are complete up to the current range.
PatternInv ==
  ThresholdsSeparate =>
    \A o \in 0..1 : \A r \in Ranges :
      r \in patterns[o] <=> (o < offset \/ (o = offset /\ r < range)) /\ Brought(o, r)

AdjacentInv ==
  LoopInv /\ LineInv /\ LatencyInv /\ PatternInv /\ ReportsPrefetcher

\* The average of latencies of hits is a hit, that of misses is none.
LEMMA AverageHit ==
  ASSUME NEW n \in Nat \ {0}, NEW total \in Nat, NEW noise \in Nat, NEW fr \in Nat
  PROVE  /\ n * noise + n <= total /\ total + n <= n * fr =>
              noise < total \div n /\ total \div n < fr
         /\ n * fr <= total => fr <= total \div n
<1> DEFINE q == total \div n
<1>1. q \in Nat /\ n * q <= total /\ total < n * q + n
  BY SMT
<1>2. ASSUME NEW a \in Nat, NEW b \in Nat, a <= b PROVE n * a <= n * b
  BY <1>2, SMT
<1> HIDE DEF q
<1>3. ASSUME n * noise + n <= total, total + n <= n * fr PROVE noise < q /\ q < fr
  <2>1. ASSUME q <= noise PROVE FALSE
    BY <1>1, <1>2, <1>3, <2>1
  <2>2. ASSUME fr <= q PROVE FALSE
    BY <1>1, <1>2, <1>3, <2>2
  <2>3. QED
    BY <1>1, <2>1, <2>2
<1>4. ASSUME n * fr <= total, q < fr PROVE FALSE
  <2>1. n * (q + 1) <= n * fr
    BY <1>1, <1>2, <1>4
  <2>2. n * (q + 1) = n * q + n
    BY <1>1
  <2>3. QED
    BY <1>1, <1>4, <2>1, <2>2
<1>5. QED
  BY <1>1, <1>3, <1>4 DEF q

\* One latency more keeps the sum between its bounds.
LEMMA LatencyAdded ==
  ASSUME NEW n \in Nat, NEW total \in Nat, NEW t \in Nat, NEW noise \in Nat, NEW fr \in Nat
  PROVE  /\ n * noise + n <= total /\ noise < t =>
              (n + 1) * noise + (n + 1) <= total + t
         /\ total + n <= n * fr /\ t < fr =>
              (total + t) + (n + 1) <= (n + 1) * fr
         /\ n * fr <= total /\ fr <= t => (n + 1) * fr <= total + t
<1>1. (n + 1) * noise = n * noise + noise /\ (n + 1) * fr = n * fr + fr
  OBVIOUS
<1>2. n * noise \in Nat /\ n * fr \in Nat
  OBVIOUS
<1>3. QED
  BY <1>1, <1>2

\* Each step of the testcase keeps the invariant.
LEMMA AdjacentStep ==
  ASSUME AdjacentInv, [AdjacentNext]_adjacent_vars
  PROVE  AdjacentInv'
<1> USE AdjacentAssumption
<1>1. CASE UNCHANGED adjacent_vars
  BY <1>1
  DEF AdjacentInv, adjacent_vars, settings, LoopInv, LineInv, LatencyInv, PatternInv, Brought,
      Prefetched, Other, ThresholdsSeparate, ReportsPrefetcher
<1>2. CASE Flush
  <2>1. LoopInv'
    BY <1>2 DEF Flush, settings, AdjacentInv, LoopInv
  <2>2. LineInv'
    BY <1>2 DEF Flush, AdjacentInv, LoopInv, LineInv, Other, Ranges
  <2>3. LatencyInv' /\ PatternInv'
    BY <1>2
    DEF Flush, settings, AdjacentInv, LatencyInv, PatternInv, Brought, Prefetched, ThresholdsSeparate
  <2>4. ReportsPrefetcher'
    BY <1>2 DEF Flush, ReportsPrefetcher
  <2>5. QED
    BY <2>1, <2>2, <2>3, <2>4 DEF AdjacentInv
<1>3. CASE Access
  <2>1. LoopInv'
    BY <1>3 DEF Access, settings, AdjacentInv, LoopInv
  <2>2. LineInv'
    <3>1. Other \notin cached /\ offset \in 0..1 /\ range \in Ranges
      BY <1>3 DEF Access, AdjacentInv, LineInv, LoopInv
    <3>2. Other' = Other /\ cached' = cached \union {offset} \union Prefetched(offset)
      BY <1>3 DEF Access, Other, AccessCaches
    <3>3. Other = offset <=> range = 0
      BY <3>1 DEF Other, Ranges
    <3>4. Brought(offset, range)' <=> Brought(offset, range)
      BY <1>3 DEF Access, settings, Brought, Prefetched
    <3>5. QED
      BY <1>3, <3>1, <3>2, <3>3, <3>4 DEF Access, LineInv, Brought, Other
  <2>3. LatencyInv' /\ PatternInv'
    BY <1>3
    DEF Access, settings, AdjacentInv, LatencyInv, PatternInv, Brought, Prefetched, ThresholdsSeparate
  <2>4. ReportsPrefetcher'
    BY <1>3 DEF Access, ReportsPrefetcher
  <2>5. QED
    BY <2>1, <2>2, <2>3, <2>4 DEF AdjacentInv
<1>4. CASE Measure
  <2>1. PICK delta \in Latencies(Other) : sum' = sum + delta
    BY <1>4 DEF Measure
  <2>2. /\ pc = "measure" /\ i' = i + 1 /\ UNCHANGED <<settings, offset, range, patterns>>
        /\ pc' = IF i + 1 < Repeat THEN "flush" ELSE "average"
    BY <1>4 DEF Measure
  <2>3. delta \in Nat /\ i \in Nat /\ sum \in Nat /\ noise_thresh \in Nat /\ fr_thresh \in Nat
    BY DEF Latencies, AdjacentInv, LoopInv
  <2>4. LoopInv'
    BY <2>1, <2>2, <2>3 DEF AdjacentInv, LoopInv, settings
  <2>5. LineInv' /\ ReportsPrefetcher'
    BY <2>2 DEF LineInv, ReportsPrefetcher
  <2>6. LatencyInv'
    <3>1. (Brought(offset, range)' <=> Brought(offset, range)) /\ ThresholdsSeparate' = ThresholdsSeparate
      BY <2>2 DEF settings, Brought, Prefetched, ThresholdsSeparate
    <3>2. SUFFICES ASSUME ThresholdsSeparate PROVE LatencyInv'
      BY <3>1 DEF LatencyInv
    <3>3. fr_thresh' = fr_thresh /\ noise_thresh' = noise_thresh
      BY <2>2 DEF settings
    <3>4. CASE Brought(offset, range)
      <4>1. noise_thresh < delta /\ delta < fr_thresh
        BY <2>2, <3>2, <3>4 DEF AdjacentInv, LineInv, Latencies, ThresholdsSeparate
      <4>2. i * noise_thresh + i <= sum /\ sum + i <= i * fr_thresh
        BY <3>2, <3>4 DEF AdjacentInv, LatencyInv
      <4>3. (i + 1) * noise_thresh + (i + 1) <= sum + delta /\ (sum + delta) + (i + 1) <= (i + 1) * fr_thresh
        BY <2>3, <4>1, <4>2, LatencyAdded
      <4>4. QED
        BY <2>1, <2>2, <3>1, <3>3, <3>4, <4>3 DEF LatencyInv
    <3>5. CASE ~Brought(offset, range)
      <4>1. fr_thresh <= delta
        BY <2>2, <3>2, <3>5 DEF AdjacentInv, LineInv, Latencies, ThresholdsSeparate
      <4>2. i * fr_thresh <= sum
        BY <3>2, <3>5 DEF AdjacentInv, LatencyInv
      <4>3. (i + 1) * fr_thresh <= sum + delta
        BY <2>3, <4>1, <4>2, LatencyAdded
      <4>4. QED
        BY <2>1, <2>2, <3>1, <3>3, <3>5, <4>3 DEF LatencyInv
    <3>6. QED
      BY <3>4, <3>5
  <2>7. PatternInv'
    BY <2>2 DEF settings, AdjacentInv, PatternInv, Brought, Prefetched, ThresholdsSeparate
  <2>8. QED
    BY <2>4, <2>5, <2>6, <2>7 DEF AdjacentInv
<1>5. CASE NextRange
  <2>1. /\ pc = "average" /\ i' = 0 /\ sum' = 0 /\ UNCHANGED settings
        /\ patterns' = [patterns EXCEPT ![offset] =
                          IF Hit(sum \div Repeat) THEN @ \union {range} ELSE @]
        /\ pc' = IF range = 2 /\ offset = 1 THEN "evaluate" ELSE "flush"
    BY <1>5 DEF NextRange
  <2>2. offset \in 0..1 /\ range \in -3..2 /\ i = Repeat /\ patterns \in [0..1 -> SUBSET Ranges]
    BY <2>1 DEF AdjacentInv, LoopInv, Ranges
  <2>3. \/ range < 2 /\ range' = range + 1 /\ offset' = offset
        \/ range = 2 /\ range' = -3 /\ offset' = offset + 1
    BY <1>5, <2>2 DEF NextRange
  <2>4. LoopInv'
    <3>1. patterns' \in [0..1 -> SUBSET Ranges]
      BY <2>1, <2>2 DEF Ranges
    <3>2. range' \in Ranges /\ (pc' = "flush" => offset' \in 0..1) /\ (pc' = "evaluate" => offset' = 2)
      BY <2>1, <2>2, <2>3 DEF Ranges
    <3>3. QED
      BY <2>1, <3>1, <3>2 DEF AdjacentInv, LoopInv, settings
  <2>5. LineInv' /\ ReportsPrefetcher'
    BY <2>1 DEF LineInv, ReportsPrefetcher
  <2>6. LatencyInv'
    <3>1. fr_thresh' \in Nat /\ noise_thresh' \in Nat
      BY <2>4 DEF LoopInv
    <3> DEFINE fr == fr_thresh'
               noise == noise_thresh'
    <3>2. fr \in Nat /\ noise \in Nat
      BY <3>1
    <3>3. LatencyInv' <=> (ThresholdsSeparate' =>
                             IF Brought(offset, range)'
                             THEN 0 * noise + 0 <= 0 /\ 0 + 0 <= 0 * fr ELSE 0 * fr <= 0)
      BY <2>1 DEF LatencyInv
    <3> HIDE DEF fr, noise
    <3>4. 0 * noise + 0 <= 0 /\ 0 + 0 <= 0 * fr /\ 0 * fr <= 0
      BY <3>2
    <3>5. QED
      BY <3>3, <3>4
  <2>7. PatternInv'
    <3>1. SUFFICES ASSUME ThresholdsSeparate, NEW o \in 0..1, NEW r \in Ranges
                   PROVE  r \in patterns'[o] <=>
                            (o < offset' \/ (o = offset' /\ r < range')) /\ Brought(o, r)
      BY <2>1 DEF PatternInv, ThresholdsSeparate, settings, Brought, Prefetched
    <3>2. r \in patterns[o] <=> (o < offset \/ (o = offset /\ r < range)) /\ Brought(o, r)
      BY <3>1 DEF AdjacentInv, PatternInv
    <3>3. Hit(sum \div Repeat) <=> Brought(offset, range)
      <4>1. sum \in Nat /\ noise_thresh \in Nat /\ fr_thresh \in Nat
        BY DEF AdjacentInv, LoopInv
      <4>2. CASE Brought(offset, range)
        <5>1. Repeat * noise_thresh + Repeat <= sum /\ sum + Repeat <= Repeat * fr_thresh
          BY <2>2, <3>1, <4>2 DEF AdjacentInv, LatencyInv
        <5>2. QED
          BY <4>1, <4>2, <5>1, AverageHit DEF Hit
      <4>3. CASE ~Brought(offset, range)
        <5>1. Repeat * fr_thresh <= sum
          BY <2>2, <3>1, <4>3 DEF AdjacentInv, LatencyInv
        <5>2. fr_thresh <= sum \div Repeat /\ sum \div Repeat \in Int
          BY <4>1, <5>1, AverageHit
        <5>3. QED
          BY <4>1, <4>3, <5>2 DEF Hit
      <4>4. QED
        BY <4>2, <4>3
    <3>4. patterns'[o] = IF o = offset /\ Brought(offset, range)
                         THEN patterns[o] \union {range} ELSE patterns[o]
      BY <2>1, <2>2, <3>3
    <3>5. r \in patterns'[o] <=>
            (o < offset \/ (o = offset /\ r < range) \/ (o = offset /\ r = range)) /\ Brought(o, r)
      BY <3>2, <3>4
    <3>6. (o < offset \/ (o = offset /\ r < range) \/ (o = offset /\ r = range))
            <=> (o < offset' \/ (o = offset' /\ r < range'))
      BY <2>2, <2>3 DEF Ranges
    <3>7. QED
      BY <3>5, <3>6
  <2>8. QED
    BY <2>4, <2>5, <2>6, <2>7 DEF AdjacentInv
<1>6. CASE Evaluate
  <2>1. /\ pc = "evaluate" /\ pc' = "done" /\ result'.result = Classify
        /\ UNCHANGED <<settings, offset, range, i, sum, patterns>>
    BY <1>6 DEF Evaluate
  <2>2. LoopInv' /\ LineInv'
    BY <2>1 DEF AdjacentInv, LoopInv, LineInv, settings
  <2>3. LatencyInv' /\ PatternInv'
    BY <2>1
    DEF settings, AdjacentInv, LatencyInv, PatternInv, Brought, Prefetched, ThresholdsSeparate
  <2>4. ReportsPrefetcher'
    <3>1. SUFFICES ASSUME ThresholdsSeparate
                   PROVE  Classify = CASE prefetcher = "none"  -> "none"
                                       [] prefetcher = "next"  -> "next"
                                       [] prefetcher = "block" -> "2CL block"
      BY <2>1 DEF ReportsPrefetcher, ThresholdsSeparate, settings
    <3>2. patterns \in [0..1 -> SUBSET Ranges] /\ offset = 2
      BY <2>1 DEF AdjacentInv, LoopInv
    <3>3. \A o \in 0..1 : \A r \in Ranges : r \in patterns[o] <=> Brought(o, r)
      BY <3>1, <3>2 DEF AdjacentInv, PatternInv
    <3>4. CASE prefetcher = "none"
      <4>1. patterns[0] = {0} /\ patterns[1] = {0}
        BY <3>2, <3>3, <3>4 DEF Brought, Prefetched, Ranges
      <4>2. QED
        BY <3>4, <4>1 DEF Classify
    <3>5. CASE prefetcher = "next"
      <4>1. patterns[0] = {0, 1} /\ patterns[1] = {0, 1}
        BY <3>2, <3>3, <3>5 DEF Brought, Prefetched, Ranges
      <4>2. patterns[0] # {0} /\ patterns[1] # {-1, 0}
        BY <4>1
      <4>3. QED
        BY <3>5, <4>1, <4>2 DEF Classify
    <3>6. CASE prefetcher = "block"
      <4>1. patterns[0] = {0, 1} /\ patterns[1] = {-1, 0}
        BY <3>2, <3>3, <3>6 DEF Brought, Prefetched, Ranges
      <4>2. patterns[0] # {0}
        BY <4>1
      <4>3. QED
        BY <3>6, <4>1, <4>2 DEF Classify
    <3>7. QED
      BY <3>4, <3>5, <3>6 DEF AdjacentInv, LoopInv
  <2>5. QED
    BY <2>2, <2>3, <2>4 DEF AdjacentInv
<1>7. QED
  BY <1>1, <1>2, <1>3, <1>4, <1>5, <1>6 DEF AdjacentNext, AdjacentEnded

\* The invariant holds throughout.
LEMMA AdjacentInductive == AdjacentSpec => []AdjacentInv
<1>1. AdjacentInit => AdjacentInv
  <2> SUFFICES ASSUME AdjacentInit PROVE AdjacentInv
    OBVIOUS
  <2>1. LoopInv
    BY AdjacentAssumption DEF AdjacentInit, LoopInv, Ranges
  <2>2. LineInv /\ ReportsPrefetcher
    BY DEF AdjacentInit, LineInv, ReportsPrefetcher
  <2>3. LatencyInv
    BY <2>1 DEF AdjacentInit, LatencyInv, LoopInv
  <2>4. PatternInv
    BY DEF AdjacentInit, PatternInv, Ranges
  <2>5. QED
    BY <2>1, <2>2, <2>3, <2>4 DEF AdjacentInv
<1>2. AdjacentInv /\ [AdjacentNext]_adjacent_vars => AdjacentInv'
  BY AdjacentStep
<1>3. QED
  BY <1>1, <1>2, PTL DEF AdjacentSpec

\* The testcase reports the implementation that the machine has (test_adjacent()),
\* for any number of measurements and any latencies that the thresholds tell
\* apart, whatever is in the cache before.
THEOREM AdjacentReported == AdjacentSpec => []ReportsPrefetcher
<1>1. AdjacentInv => ReportsPrefetcher
  BY DEF AdjacentInv
<1>2. QED
  BY <1>1, AdjacentInductive, PTL

\* A range gets into a pattern only by a prefetch from the line that the pattern
\* is about, never by a prefetch of a measured access or by what the flush leaves.
THEOREM AdjacentPatterns == AdjacentSpec => []PatternsArePrefetches
<1>1. AdjacentInv => PatternsArePrefetches
  <2> SUFFICES ASSUME AdjacentInv, ThresholdsSeparate, NEW o \in 0..1, NEW r \in patterns[o]
               PROVE  r = 0 \/ o + r \in Prefetched(o)
    BY DEF PatternsArePrefetches
  <2>1. r \in Ranges
    BY DEF AdjacentInv, LoopInv
  <2>2. QED
    BY <2>1 DEF AdjacentInv, PatternInv, Brought
<1>2. QED
  BY <1>1, AdjacentInductive, PTL
==============================================================================
