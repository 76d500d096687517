----------------------------- MODULE TimingProofs -----------------------------
(***************************************************************************)
(* Proofs about what every measurement relies on to tell a hit from a      *)
(* miss: the counter thread, for any number of threads and both versions   *)
(* of its loop, and the calibrated threshold, for every number of accesses *)
(* when the latencies of hits and misses lie apart.                        *)
(***************************************************************************)
EXTENDS Calibrate, CounterThread, TLAPS

------------------------------------------------------------------------------
\* The counter thread

\* The run flag and the handle agree whenever the main thread is between calls.
HandleInv ==
  /\ mpc = "idle" => (thread # None <=> running)
  /\ mpc \in {"create", "spin"} => running
  /\ mpc = "join" => ~running
  /\ mpc = "create" => thread = None
  /\ mpc \in {"spin", "join"} => thread # None

\* A worker about to store the counter holds its current value; the assembly
\* loop does so from its first load on.
RegCurrent ==
  \A w \in Workers :
    wpc[w] = "store" \/ (aarch64 /\ wpc[w] = "check") => reg[w] = ctr

CounterInv == TypeOK /\ HandleInv /\ NoOrphan /\ RegCurrent

\* The counter stays in its range.
LEMMA BumpType == ASSUME NEW v \in 0..MaxCtr PROVE Bump(v) \in 0..MaxCtr
BY CounterAssumption DEF Bump

\* The steps of the main thread keep the invariant.
LEMMA MainKeeps ==
  ASSUME CounterInv, CallStart \/ CallStop \/ MainStep
  PROVE  CounterInv'
<1> USE CounterAssumption DEF CounterInv, TypeOK, HandleInv, NoOrphan, RegCurrent, MainLocs, WorkerLocs
<1>1. CASE CallStart
  BY <1>1 DEF CallStart
<1>2. CASE CallStop
  BY <1>2 DEF CallStop
<1>3. CASE CreateThread
  <2>1. PICK w \in Workers : wpc[w] = "unborn" /\ wpc' = [wpc EXCEPT ![w] = "pin"] /\ thread' = w
    BY <1>3 DEF CreateThread
  <2>2. \A u \in Workers : wpc'[u] = IF u = w THEN "pin" ELSE wpc[u]
    BY <2>1
  <2>3. \A u \in Workers \ {w} : wpc[u] = "unborn"
    BY <1>3, <2>1 DEF CreateThread
  <2>4. TypeOK'
    BY <1>3, <2>1 DEF CreateThread
  <2>5. HandleInv'
    BY <1>3, <2>1 DEF CreateThread
  <2>6. NoOrphan'
    BY <2>1, <2>2, <2>3
  <2>7. RegCurrent'
    BY <1>3, <2>2 DEF CreateThread
  <2>8. QED
    BY <2>4, <2>5, <2>6, <2>7
<1>4. CASE SpinDone
  BY <1>4 DEF SpinDone
<1>5. CASE Join
  <2>1. thread \in Workers
    BY <1>5 DEF Join
  <2>2. \A u \in Workers : wpc'[u] = "unborn"
    BY <1>5, <2>1 DEF Join
  <2>3. TypeOK'
    BY <1>5 DEF Join
  <2>4. HandleInv'
    BY <1>5 DEF Join
  <2>5. NoOrphan' /\ RegCurrent'
    BY <2>2
  <2>6. QED
    BY <2>3, <2>4, <2>5
<1>6. QED
  BY <1>1, <1>2, <1>3, <1>4, <1>5 DEF MainStep

\* The steps of a worker keep the invariant.
LEMMA WorkerKeeps ==
  ASSUME CounterInv, NEW w \in Workers, WorkerStep(w)
  PROVE  CounterInv'
<1> USE CounterAssumption DEF CounterInv, TypeOK, HandleInv, NoOrphan, RegCurrent, WorkerLocs
<1>1. CASE WorkerPin(w)
  BY <1>1 DEF WorkerPin
<1>2. CASE WorkerCheck(w)
  BY <1>2 DEF WorkerCheck
<1>3. CASE WorkerLoad(w)
  BY <1>3 DEF WorkerLoad
<1>4. CASE WorkerStore(w)
  <2>1. Bump(reg[w]) \in 0..MaxCtr
    BY BumpType
  <2>2. \A u \in Workers \ {w} : wpc[u] = "unborn"
    BY <1>4 DEF WorkerStore
  <2>3. TypeOK'
    BY <1>4, <2>1 DEF WorkerStore
  <2>4. HandleInv' /\ NoOrphan'
    BY <1>4 DEF WorkerStore
  <2>5. RegCurrent'
    BY <1>4, <2>2 DEF WorkerStore
  <2>6. QED
    BY <2>3, <2>4, <2>5
<1>5. QED
  BY <1>1, <1>2, <1>3, <1>4 DEF WorkerStep

\* The invariant holds throughout.
LEMMA CounterInductive == CounterSpec => []CounterInv
<1>1. CounterInit => CounterInv
  <2> SUFFICES ASSUME CounterInit PROVE CounterInv
    OBVIOUS
  <2>1. 0 \in 0..MaxCtr
    BY CounterAssumption
  <2>2. TypeOK
    BY <2>1 DEF CounterInit, TypeOK, MainLocs, WorkerLocs
  <2>3. HandleInv /\ NoOrphan /\ RegCurrent
    BY DEF CounterInit, HandleInv, NoOrphan, RegCurrent
  <2>4. QED
    BY <2>2, <2>3 DEF CounterInv
<1>2. CounterInv /\ [CounterNext]_counter_vars => CounterInv'
  <2> SUFFICES ASSUME CounterInv, [CounterNext]_counter_vars PROVE CounterInv'
    OBVIOUS
  <2>1. CASE UNCHANGED counter_vars
    BY <2>1 DEF counter_vars, CounterInv, TypeOK, HandleInv, NoOrphan, RegCurrent
  <2>2. CASE Sleep
    BY <2>1, <2>2 DEF Sleep
  <2>3. QED
    BY <2>1, <2>2, MainKeeps, WorkerKeeps DEF CounterNext
<1>3. QED
  BY <1>1, <1>2, PTL DEF CounterSpec

\* At most one worker exists, and it is the one that ctr_thread_stop() joins.
THEOREM WorkerOwned == CounterSpec => []NoOrphan
<1>1. CounterInv => NoOrphan
  BY DEF CounterInv
<1>2. QED
  BY <1>1, CounterInductive, PTL

\* The thread handle is neither assigned to while it is joinable nor joined
\* while it is not, whatever the order of the calls and wherever the worker is.
THEOREM HandleCorrect == CounterSpec => []HandleUsedCorrectly
<1>1. CounterInv => HandleUsedCorrectly
  BY DEF CounterInv, HandleInv, HandleUsedCorrectly
<1>2. QED
  BY <1>1, CounterInductive, PTL

\* The counter thread is a clock that counts up one at a time, and only between
\* a start and the end of the next stop.
THEOREM CounterIsClock == CounterSpec => C!Spec
<1>1. CounterInit => C!Init
  BY DEF CounterInit, C!Init
<1>2. CounterInv /\ [CounterNext]_counter_vars => [C!Next]_<<thread # None, ctr>>
  <2> SUFFICES ASSUME CounterInv, [CounterNext]_counter_vars PROVE [C!Next]_<<thread # None, ctr>>
    OBVIOUS
  <2> USE CounterAssumption
  <2>1. CASE CreateThread
    <3>1. thread = None /\ thread' # None /\ ctr' = ctr
      BY <2>1 DEF CreateThread, CounterInv, HandleInv
    <3>2. QED
      BY <3>1 DEF C!Next, C!Begin
  <2>2. CASE Join
    <3>1. thread # None /\ thread' = None /\ ctr' = ctr
      BY <2>2 DEF Join, CounterInv, HandleInv
    <3>2. QED
      BY <3>1 DEF C!Next, C!End
  <2>3. ASSUME NEW w \in Workers, WorkerStore(w) PROVE C!Next
    <3>1. wpc[w] = "store" /\ thread = w /\ reg[w] = ctr
      BY <2>3 DEF WorkerStore, CounterInv, NoOrphan, RegCurrent
    <3>2. thread # None /\ thread' = thread /\ ctr' = Bump(ctr)
      BY <2>3, <3>1 DEF WorkerStore
    <3>3. QED
      BY <3>2 DEF C!Next, C!Tick, C!Bump, Bump
  <2>4. ASSUME NEW w \in Workers, WorkerPin(w) \/ WorkerCheck(w) \/ WorkerLoad(w)
        PROVE  UNCHANGED <<thread, ctr>>
    BY <2>4 DEF WorkerPin, WorkerCheck, WorkerLoad
  <2>5. CASE CallStart \/ CallStop \/ SpinDone \/ Sleep \/ UNCHANGED counter_vars
    BY <2>5 DEF Sleep, CallStart, CallStop, SpinDone, counter_vars
  <2>6. QED
    BY <2>1, <2>2, <2>3, <2>4, <2>5 DEF CounterNext, MainStep, WorkerStep
<1>3. QED
  BY <1>1, <1>2, CounterInductive, PTL DEF CounterSpec, C!Spec

------------------------------------------------------------------------------
\* Calibration

\* The average of numbers between lo and hi is between lo and hi.
LEMMA AverageBetween ==
  ASSUME NEW lo \in Nat, NEW hi \in Nat, NEW n \in Nat \ {0}, NEW total \in Nat,
         lo * n <= total, total <= hi * n
  PROVE  total \div n \in lo..hi
<1> DEFINE q == total \div n
<1>1. q \in Int /\ n * q <= total /\ total < n * (q + 1)
  BY SMT
<1>2. q <= hi
  <2>1. SUFFICES ASSUME q >= hi + 1 PROVE FALSE
    BY <1>1
  <2>2. n * q >= n * (hi + 1)
    BY <1>1, <2>1, SMT
  <2>3. n * (hi + 1) = hi * n + n
    BY SMT
  <2> QED BY <1>1, <2>2, <2>3, SMT
<1>3. lo <= q
  <2>1. SUFFICES ASSUME q + 1 <= lo PROVE FALSE
    BY <1>1
  <2>2. n * (q + 1) <= n * lo
    BY <1>1, <2>1, SMT
  <2>3. n * lo = lo * n
    BY SMT
  <2> QED BY <1>1, <2>2, <2>3, SMT
<1> QED BY <1>1, <1>2, <1>3

\* A bound grows by one addend with every number.
LEMMA OneMore ==
  ASSUME NEW bound \in Nat, NEW n \in Nat
  PROVE  bound * (n + 1) = bound * n + bound /\ bound * n \in Nat
BY SMT

\* An average of natural numbers is one.
LEMMA QuotientNat ==
  ASSUME NEW total \in Nat, NEW n \in Nat \ {0}
  PROVE  total \div n \in Nat
BY SMT

------------------------------------------------------------------------------
(***************************************************************************)
(* The inductive invariant.  What is summed up lies between the bounds of  *)
(* its measurement, and so does every average that is in use later; the    *)
(* threshold of the user is the one in use unless it is 0.                 *)
(***************************************************************************)
After(m) ==
  CASE m = "hit" -> {"miss", "thresh"}
    [] m = "miss" -> {"thresh"}

InUse ==
  /\ pc \in Measurements \union {"start", "thresh", "noise", "sleep", "experiment", "done",
                                 "sigfpe"}
  /\ fr_thresh \in Nat
  /\ avg \in [Measurements -> Nat]
  /\ i \in Nat /\ sum \in Nat /\ j \in Nat
  /\ pc = "start" => fr_thresh = user.fr /\ sum = 0 /\ j = 0

SumBetween(m, lo, hi) ==
  pc = m => lo * j <= sum /\ sum <= hi * j

AverageIn(m, lo, hi) ==
  pc \in After(m) => avg[m] \in lo..hi

\* Without interrupted accesses, when hits and misses are further apart than
\* each of them varies, the measured threshold separates them, whatever the
\* number of accesses and the latencies are (calibrate_thresh()).
THEOREM ThresholdBetween ==
  ASSUME NEW hlo \in Nat, NEW hhi \in Nat, NEW mlo \in Nat, NEW mhi \in Nat,
         HitTimes \subseteq hlo..hhi, MissTimes \subseteq mlo..mhi, Outliers = {},
         hhi < (hlo + mlo) \div 2, (hhi + mhi) \div 2 <= mlo
  PROVE  Spec => []FrThreshSeparates
<1> DEFINE SumInv == SumBetween("hit", hlo, hhi) /\ SumBetween("miss", mlo, mhi)
           AvgInv == AverageIn("hit", hlo, hhi) /\ AverageIn("miss", mlo, mhi)
           Inv == InUse /\ SumInv /\ AvgInv /\ FrThreshSeparates
<1>1. Init => Inv
  BY CalibrateAssumption
  DEF Init, InUse, SumBetween, AverageIn, After, FrThreshSeparates, Calibrated, Measurements
<1>2. Inv /\ [Next]_vars => Inv'
  <2> SUFFICES ASSUME Inv, [Next]_vars PROVE Inv'
    OBVIOUS
  <2> USE DEF InUse, SumBetween, AverageIn, After, Calibrated, FrThreshSeparates
  <2>1. CASE Start
    BY <2>1 DEF Start, Measurements, parameters, measuring
  <2>2. ASSUME NEW m \in Measurements, Access(m) PROVE Inv'
    <3> PICK delta \in Times(m) :
          IF Kept(delta, Median(m)) THEN sum' = sum + delta /\ j' = j + 1
                                    ELSE UNCHANGED <<sum, j>>
      BY <2>2 DEF Access
    <3>1. delta \in Nat
      BY CalibrateAssumption DEF Times
    <3>2. m = "hit" => hlo <= delta /\ delta <= hhi
      BY DEF Times
    <3>3. m = "miss" => mlo <= delta /\ delta <= mhi
      BY DEF Times, Measurements
    <3>4. pc = m /\ UNCHANGED <<pc, parameters, user, avg>> /\ i' = i + 1
      BY <2>2 DEF Access
    <3>5. InUse'
      BY <3>1, <3>4 DEF parameters, Measurements
    <3>6. SumInv'
      <4>1. CASE UNCHANGED <<sum, j>>
        BY <3>4, <4>1
      <4>2. CASE sum' = sum + delta /\ j' = j + 1
        <5>1. hlo * (j + 1) = hlo * j + hlo /\ hhi * (j + 1) = hhi * j + hhi
          BY OneMore
        <5>2. mlo * (j + 1) = mlo * j + mlo /\ mhi * (j + 1) = mhi * j + mhi
          BY OneMore
        <5>3. hlo * j \in Nat /\ hhi * j \in Nat /\ mlo * j \in Nat /\ mhi * j \in Nat
          BY OneMore
        <5>4. pc' = "hit" => hlo * (j + 1) <= sum + delta /\ sum + delta <= hhi * (j + 1)
          BY <3>1, <3>2, <3>4, <5>1, <5>3
        <5>5. pc' = "miss" => mlo * (j + 1) <= sum + delta /\ sum + delta <= mhi * (j + 1)
          BY <3>1, <3>3, <3>4, <5>2, <5>3
        <5> QED BY <4>2, <5>4, <5>5
      <4> QED BY <4>1, <4>2
    <3>7. AvgInv' /\ FrThreshSeparates'
      BY <3>4 DEF parameters, Measurements
    <3> QED BY <3>5, <3>6, <3>7
  <2>3. ASSUME NEW m \in Measurements, Measured(m) PROVE Inv'
    <3>1. pc = m /\ UNCHANGED <<parameters, user>> /\ i' = 0 /\ sum' = 0 /\ j' = 0
      BY <2>3 DEF Measured
    <3>2. CASE j = 0
      BY <2>3, <3>1, <3>2 DEF Measured, parameters, Measurements
    <3>3. CASE j # 0
      <4>1. pc' = Following[m] /\ avg' = [avg EXCEPT ![m] = sum \div j]
        BY <2>3, <3>3 DEF Measured
      <4>2. sum \div j \in Nat
        BY <3>3, QuotientNat
      <4>3. m = "hit" => sum \div j \in hlo..hhi
        BY <3>1, <3>3, AverageBetween
      <4>4. m = "miss" => sum \div j \in mlo..mhi
        BY <3>1, <3>3, AverageBetween
      <4>5. CASE m = "hit"
        BY <3>1, <4>1, <4>2, <4>3, <4>5 DEF Following, parameters, Measurements
      <4>6. CASE m = "miss"
        BY <3>1, <4>1, <4>2, <4>4, <4>6 DEF Following, parameters, Measurements
      <4>7. CASE m = "hit_median" \/ m = "miss_median"
        BY <3>1, <4>1, <4>2, <4>7 DEF Following, parameters, Measurements
      <4> QED BY <4>5, <4>6, <4>7 DEF Measurements
    <3> QED BY <3>2, <3>3
  <2>4. CASE SetThresh
    <3> DEFINE thresh == (avg["hit"] + avg["miss"]) \div 2
    <3>1. avg["hit"] \in hlo..hhi /\ avg["miss"] \in mlo..mhi
      BY <2>4 DEF SetThresh
    <3>2. hhi < thresh /\ thresh <= mlo /\ thresh \in Nat
      BY <3>1
    <3>3. fr_thresh' = thresh /\ pc' = "noise" /\ UNCHANGED <<user, avg, measuring>>
      BY <2>4 DEF SetThresh
    <3>4. FrThreshSeparates'
      BY <3>2, <3>3
    <3> HIDE DEF thresh
    <3> QED BY <3>2, <3>3, <3>4 DEF measuring, Measurements
  <2>5. CASE CalibrateNoise
    BY <2>5 DEF CalibrateNoise, measuring, Measurements
  <2>6. CASE CalibrateSleep
    BY <2>6 DEF CalibrateSleep, measuring, Measurements
  <2>7. CASE Experiment
    BY <2>7 DEF Experiment, measuring, Measurements
  <2>8. CASE UNCHANGED vars
    BY <2>8 DEF vars, parameters, measuring
  <2> QED BY <2>1, <2>2, <2>3, <2>4, <2>5, <2>6, <2>7, <2>8 DEF Next, Ended
<1>3. QED
  BY <1>1, <1>2, PTL DEF Spec
==============================================================================
