# FetchBench: TLA+ models, checks and proofs

FetchBench identifies and characterises hardware prefetchers. It disables all
prefetchers but the one of interest through model-specific registers (MSRs),
runs loads that the prefetcher should react to, and finds out by Flush+Reload
which cache lines were fetched without having been asked for. Its results are
only as good as its experimental hygiene: which prefetchers are on, which CPU it
runs on, whether its clock ticks, what is left in the cache and whether its
arithmetic separates hits from misses. This directory models that hygiene,
checks it with TLC on small instances and proves the parts that matter most with
TLAPS for all instances.

Paths below are relative to `src/src/` of the repository unless they start with
another directory.

## 1. Inventory

| component | sources | state | operations | models |
|---|---|---|---|---|
| main program and test life cycle | `main.cc`, `testcase.hh`, `testcases.hh`, `utils.hh`, `utils.cc`, `testcase_parr.hh`, `testcase_pchase.hh` | options, current testcase, position in `run()`, CPU and affinity, MSRs, results files, forked helpers | options, pin, `clock_init`, calibrate, `run()`: `pre_test`, `identify`, `characterize`, `post_test`, dump; fork/execvp/waitpid | `Harness` |
| counter thread (clock for CPUs without a usable cycle counter) | `counter_thread.cc` | `ctr_thread_running`, `ctr_thread_ctr`, the `std::thread` handle, the worker | start, stop, the loop (C++ and aarch64 assembly) | `Clock`, `CounterThread` |
| calibration | `calibrate.cc` | `fr_thresh`, `noise_thresh`, `use_nanosleep` | `calibrate_thresh`, `calibrate_noise_thresh`, `calibrate_sleep` | `Calibrate` |
| stride experiment | `testcase_stride_strideexperiment.*` | cache histogram, prefetch vector | collect (one mapping, two mappings, lazy; patterns of two and three strides), evaluate, classification of offsets and lines | `StrideGeometry`, `StrideExperiment` |
| stride testcase | `testcase_stride.hh` | the vectors of the experiments of a test | the tests of `identify()` and `characterize()`, `test_direction` | `StrideTests` |
| SMS experiment and testcase | `testcase_sms*` | histogram, what the prefetcher has learned | training, region accesses, trigger, probing, the tests, their random access orders | `AccessOrder`, `SmsExperiment` |
| stream, temporal and replay experiments and testcases | `testcase_stream*`, `testcase_temporal*`, `testcase_dcreplay*` | as above | workload, probing, evaluation | `ProbingExperiment`, `StreamExperiment`, `TemporalExperiment`, `DCReplayExperiment` |
| adjacent-line testcase | `testcase_adjacent.hh` | hit counts per line | flush, access, measure, classify | `Adjacent` |
| external program `parr` | `parr/` | pointer array, used entries, cache | set-up, flush, train, measure | `PointerArray` |
| external program `pchase` | `pchase/` | linked list, cache | set-up, flush, chase, measure | `PointerChase` |
| JSON output | `utils.cc` | results files | pretty-print, dump | `Dump` in `Harness`, otherwise not modelled |
| load instructions at chosen addresses | `aligned_maccess.cc` | where the functions lie | placement by alignment, choice of a pair, its assertions | `LoadInstructions` |
| mappings, cache primitives, logger | `mapping.cc`, `cacheutils.*`, `logger.hh` | - | mmap, clflush, rdtsc, output | by their effect only |
| json11, plot scripts, runner scripts, old copies (`src/arch.c`, `src/pchase.c`) | `src/3rdparty`, `src/*.py`, `src/*.sh` | - | - | not modelled |

### How they interact

* `main()` pins itself, starts the clock, calibrates and then runs the testcases
  one after the other in the same process. Each testcase programs the MSRs in
  `pre_test` and enables everything again in `post_test`; between the two it
  measures. So the MSRs, the clock, the affinity and the calibrated parameters
  are state that all testcases share.
* Plots and the programs `parr` and `pchase` are run by `fork`, `execvp` and
  `waitpid`. `parr` and `pchase` bring their own clock; their testcases
  therefore stop the counter thread in `pre_test` and start it in `post_test`.
* The counter thread is the only second thread. It is a data race by design: one
  thread increments, the other reads.
* A testcase makes experiment objects; an experiment calls a workload function,
  waits, probes one line per repetition with Flush+Reload, normalises the
  histogram and reduces it to a prefetch vector. The testcase counts the entries
  of such vectors and decides.

### What is hard about it

* A helper that fails to exec goes on as a copy of the benchmark (`utils.cc:83`):
  same MSRs, same files, its own position, a run flag but no counter thread.
* Every fault ends a process where it stands, MSRs and all.
* Nothing in a measurement fails loudly. A missed flush, a line classified
  wrongly or a probe order that misses lines give a plausible, wrong result.
* Probing is a sequence of accesses, which the prefetcher sees too.
* What the hardware learned in one experiment is still there in the next.
* Thresholds are integer averages of integer averages of parts per thousand.

What makes each component correct: for the life cycle, that each measurement
sees the prefetchers of its own testcase and a finished run leaves them all
enabled; for the clock, that it counts without losing a tick and that both calls
return; for calibration, a threshold between hits and misses; for an experiment,
that it reports nothing that the prefetcher did not fetch and all that it did;
for a test, that its conclusion is a property of the prefetcher.
`PROJECT.json` lists the places where these can go wrong ("hazards"), with the
properties about each.

## 2. Modules and their correspondence to the code

### Harness

A process is a copy of the benchmark or a program it exec'ed. `state[p]` is its
scheduling state, `phase[p]` its place in `main()` and `TestCaseBase::run()`,
`test[p]` the testcase, `step[p]` how many MSR writes of the current
`pre_test`/`post_test` are done, `forks[p]` how many helpers the current test
still forks. `fork()` (action `Fork`) copies all of these except the counter
thread. MSRs (`msr[cpu]`, the set of prefetchers whose disable bit is set) and
`results` are shared. The constants give per testcase which prefetchers it leaves
enabled, whether it addresses the target CPU's MSR or the one of the CPU it runs
on (`cpu = -1`), how many helpers it forks and whether its characterisation dies.
`Faults` says what may go wrong: pinning, MSR access, fork, execvp, the
measurement, the output.

Each function of `pre_test` is a sequence of `set_*_prefetcher` calls. One such
call is three steps (`ReadMsr`, `WriteMsr`, `CheckMsr`), each of which looks up
its CPU anew as `utils.hh:184-192` does with `cpu = -1`, so that a process that is
not pinned may migrate between them and fail the assertion (`CheckMsrFails`), and
a copy of the benchmark could write the MSR in between.

`identify()` and `characterize()` are here only their forks and their ends; what
they compute is in the modules below.

### Clock and CounterThread

`Clock` is what callers rely on: a number that moves only while the clock is on,
and only upwards by one. `CounterThread` has the main thread (idle, creating,
waiting for the first tick, joining) and workers with load and store of the
counter as separate steps, in the version of the C++ loop (`aarch64 = FALSE`) and
of the assembly loop, which keeps the counter in a register. Threads are numbered
so that a handle that is overwritten or a worker that is never joined would show.
The model reads the run flag as the flag: that the assembly loads eight bytes at
the address of a `bool` (`counter_thread.cc:34`) depends on the layout of `.bss`.

### Calibrate

The latencies of single accesses, the histogram without a workload and the
counts that `calibrate_sleep` compares are chosen by the environment; everything
computed from them is as in the code, including the integer divisions, the
outlier filter of the second pass and the end of the process in `sum / j` with
`j = 0`.

### StrideGeometry, StrideExperiment and StrideTests

`StrideGeometry` has the classification of byte offsets and cache lines and the
assertions on the bounds, with the division and remainder of C++ for negative
strides; its second half is the same for patterns: `gap1` strides, then `gap2`
that are `delta` longer, `step` times over. `StrideExperiment` is one experiment:
assertions, and then per repetition flush, workload, prefetching, and the probe
of one entry; then the normalisation, entry by entry, and the evaluation.
`variant` says which `collect_cache_histogram*()` it is, and `Entries`, `Probed`,
`ProbeOrder` and `WorkloadOffsets` what differs: the 2D variant has a histogram
entry per byte, the plus and 3D variants (which no enabled test calls) one per
line, and all three are evaluated by functions that take an entry's index for an
offset. `IdentifyReps` and `Reps` are the repetitions of `identify()` and
`characterize()`.

`StrideTests` runs the sequences of experiments of fourteen tests and computes
their results (`*Result`). A kind of prefetcher says under what it files a stride
(bits of the instruction's address, memory area), how many accesses it needs to
recognise one and to resume one in a new area, which strides it follows, whether
it looks at bytes and whether it crosses pages; `Follows` derives from it whether
an experiment triggers it. For `test_pc_collision` the bits that two instructions
share come from the placement in `LoadInstructions`.

Today `characterize()` gets no further than its fifth test, `test_load_pref_corr`,
whose experiments violate an assertion (section 6), so each test is modelled from
its own first experiment. The conclusions that `StrideTests` checks are those the
tests draw once they are run.

### LoadInstructions

The linker places the functions of `aligned_maccess.cc` one behind the other at the
next multiple of their alignment (`PairAt`, `Placed`), and the loader moves them
together (`Loaded`). `CoAligned` is the conjunction of the three assertions of
`get_maccess_functions()`, `CollidingBits` what a prefetcher that looks at low bits
of an address sees. With `-Os` a function is 7 bytes long, 11 with `endbr64`, both
below the smallest alignment.

### AccessOrder and SmsExperiment

`SmsExperiment` has all of `identify()` and `characterize()`: the trigger tests one
after the other with what the prefetcher learned carried over, then the access
order of `test_region_boundary`, whose workload dies at the null pointer it is
given (`Die`, pc `"segv"`). What follows in `characterize()` is never reached today;
`test_direction` (up to the same null pointer), `test_pc_collision` and
`test_training_entries` are therefore modelled from their own beginnings, as the
initial values of `test` say. `AccessOrder` draws the distinct offsets of a region
and repairs the order: any draw and any shuffle is possible.

Only `mapping2`, which is probed, has lines; for even positions it is inside
`mapping1`, whose pages the region accesses touch. A prefetcher (`hw`) says what it
keys by, when it stores a pattern, how many bits of the instruction's address it
looks at, how many regions it can be trained on at once and whether
`random_activity()`, which uses one load instruction, makes it forget. json11's
operator `[]` gives null for a missing key (`BoolValue`).

### ProbingExperiment, StreamExperiment, TemporalExperiment, DCReplayExperiment

`ProbingExperiment` has what the three experiments share, which the code repeats
in each class: the flush, the probe, the normalisation and the evaluation. The
other modules add the workload, the classification and the tests. The
prefetchers see every access, those of the probing included, except that the
replay prefetcher tells the probing instruction apart. `MCProbing` composes them.

### Adjacent, PointerArray, PointerChase

`Adjacent` is the testcase with the adjacent-line prefetchers that its comment
names and with none. `PointerArray` and `PointerChase` are the external programs:
random choices are nondeterministic, the assembly loops are `Train` and `Chase`.
`PointerArray` also has the outcomes `rejected` (the arrays do not fit) and
`segv` (`access_pages` reads one page behind the array).

## 3. Runs

| run | question | bounds and why they are enough |
|---|---|---|
| `harness_intel` | Does each measurement see the prefetchers of its own testcase, do the external programs see all, what does a failure leave disabled, and are exactly the requested results complete? | All eight testcases and the four Intel prefetchers, every initial content of both CPUs' MSRs, every `-t` (an unknown name too) and `-i`; two plots stand for the many of `identify()`. Failures of MSR access, fork and measurements anywhere. |
| `harness_copies` | What if execvp fails and children go on as copies: does anything get between the accesses of one MSR call, has the first process its clock, is everything enabled again after a success, and does the benchmark end? | Three testcases (stride, parr, sms), because what matters is what follows a testcase with an external program; one prefetcher; three processes, so that a copy can fork a copy; failing pinning, exec, output and measurements; a counter-thread build. A copy may hang in `join()`, hence `CHECK_DEADLOCK FALSE`; `Termination` has fairness and names that as the only way not to end. |
| `counter_thread` | Do two threads implement the clock? | Two workers, so that one can outlive its stop; a counter to 8, saturating, with start and stop at any time. |
| `stride_tests` | Does an experiment report what was prefetched, and does each test conclude what the prefetcher is? | 24 lines in two pages of twelve, 4-byte lines, so that every offset in a line occurs; 50 repetitions probe each line twice and some a third time, 110 of `identify()` each byte of a pattern once and those up to its last line twice; strides of 1 to 7 lines and of fractions of lines in both directions, patterns of one and two periods; 21 kinds of prefetchers. Four accesses stand for twelve, collisions of one to three bits for 5 to 24, eight strides of a byte for 128 of four. |
| `calib_outliers` | Does calibration end, with a threshold between hits and misses? | 40 rough and 8 precise accesses with at most one interrupted rough one and five interrupted precise ones; both an interrupted rough pass and a mostly interrupted precise pass occur. |
| `parr_all` | Does a hit at the measured pointer mean a prefetch? | The experiments of `main()` with 3 or 4 pointers, forwards and backwards, with and without blinding; one array that is rejected and two that the check lets pass although they have no entry for the reference, where the choice goes on for ever; two measurements of each kind, so that leftovers of the one before would show. |
| `pchase_lengths` | The same for linked lists | Lists of one to three entries among five, all kinds of last pointer. |
| `adjacent_all` | Is the right adjacent-line prefetcher reported? | No prefetcher, one that fetches the next line and one that fetches the other line of a pair; two latencies each for hits and misses, two measurements of each pair of lines. |
| `sms_tests` | Are SMS results due to the prefetcher, is its character told, and are access orders free of strides where the scan looks? | Pages of eight lines, an even and an odd position, four training loops, nine repetitions (each line, and one twice); regions of five lines, every draw and shuffle; collisions of one to four bits with prefetchers that look at none to five; two or three regions to train with prefetchers that hold one to four. |
| `sms_v_identified` | Is a positive test reported? | As before, region prefetchers only. |
| `sms_v_order` | Is the access order free of strides? | As before. |
| `probing_tests` | Are stream, temporal and replay prefetchers told from none? | A stream in two pages of four lines with 2 to 6 loads, which end on either side of the page border; every choice of three random offsets among three lines; the replay test with its real offsets in 64 lines. The erratic prefetcher fetches any of the candidates upon any load, those of the training and the probing included. |

The two runs with `expect: violation` are disagreements between the code and its
own comments:

* `sms_v_identified`: `testcase_sms.hh:134` says "Report positive test result if
  any prefetching was detected", but `identify()` reads a key (`:628`) that the
  test does not set, so the result is negative on every machine.
* `sms_v_order`: `testcase_sms.hh:497` says "make sure the pseudo-random order does not
  contain a stride pattern", but after a shuffle the scan resumes at the fourth
  access (`i = 2` at `:505`, then `i++`), so the first three may form a stride.
  `OrderChecked` says what the scan does ensure: no stride at all in an order that
  was not shuffled, none but the first in one that was.

### Fairness

`Termination` (Harness) assumes weak fairness of every process: the kernel
schedules runnable processes, and plot scripts and external programs end. It is
checked in `harness_copies`, where children may go on as copies: the benchmark ends
unless a copy hangs in `join()`, which makes its parent wait forever
(`RootNeverHangs` says that the process the user started does not itself hang
there, so that without copies it always ends). `CallsReturn` and `ClockAdvances`
assume weak fairness of the main thread's steps and of each worker. They are on
different CPUs (`CTR_THREAD_CPU`), both runnable unless the main thread joins.
Nothing is assumed about calls: the program may never start or stop the clock.
`CalibrationEnds` assumes only that the program continues to run.

## 4. Proofs

Each theorem holds for every value of the constants that satisfies the named
assumptions of the modules it is about, and the hypotheses that are listed here.
The proof modules extend the modules of one or more components; `HarnessProofs`
and `TimingProofs` are about two each, whose definitions have different names.
`Arithmetic` is a library.

* `Arithmetic`: integer quotients (`DivUnique`, `DivBetween`), how often one of L
  entries is probed in n repetitions (`Turns`, `NextTurn`, `TurnsScaled`: 1000 to
  2000 parts per thousand), and sums over finite sets (`SumBetween`,
  `AverageBetween`). The models add up a histogram with a fold, which is defined
  by recursion over the finite set. The library's induction rules are out of the
  prover's reach, but a smallest counterexample is not: `SmallestSubset` gives a
  smallest subset of which the claim is false, and the subset without one element
  contradicts it. So the fold's function exists, is unique (`SumExists`,
  `SumUnique`) and has its recursion equation (`SumStep`). Likewise
  `SetInduction` is induction over a set of numbers, which is what is needed here,
  where an operator is not. Powers of two, of which the prover knows nothing,
  count the subsets of an interval (`SubsetsOf`), so they double (`Powers`),
  multiply (`PowerOfSum`) and divide each other (`PowerDivides`). `PairsExist` and
  `PairsPlaced` say that the pairs of functions can be placed one behind the other
  and where they lie then, `PairRemainders` in how many low bits two addresses agree.
* `HarnessProofs`, the harness
  * `TypeCorrect`: types, and that a process inside `run()` has a testcase.
  * `OnlyOneExecutes`: at any time exactly one process executes. The invariant
    is inductive with the types: each fork parks the parent and each wait ends
    with the child being freed.
  * `MeasurementsAsConfigured`, `FailureLeavesOwnSetting` (`LeftByFailure`): if execvp
    and pinning do not fail, for all testcases, prefetcher assignments, helpers
    and remaining faults. `MeasuredAsConfigured` alone is not inductive, because it says
    nothing of how the MSR got there. The strengthening `MsrInv` says that Root
    is the only copy of the benchmark (`OnlyRoot`) and has stayed on the target
    CPU (`Pinned`), how much of the MSR `pre_test` and `post_test` have written
    after `step` calls (`PreProgress`, `PostProgress`), that the MSR is clear
    between testcases once one `post_test` is complete (`Cleared`), and where the
    loop is (`Unstarted`, `Stepping`, `AtEnd`). The two fault assumptions are
    needed: without pinning, the MSR that is written may be that of another CPU;
    with copies, a copy that dies may leave the MSR changed for its parent.
  * `PrefetchersRestored` (`Restored`) needs less: with all faults and copies, a run
    that succeeds on the target CPU leaves all of its prefetchers enabled, because
    the last `post_test` of the first process comes after all copies have ended
    (`RestoreInv`). If execvp can fail, the testcases that fork must program the MSRs
    themselves (`ForkingIsProgrammed`; true on Intel, where all testcases do).
  * `SetPrefetcherAtomic` (`CallsAtomic`), with all faults and copies: from
    `OneActive`, a call that has read is the only one under way (`AtomicInv`), so
    the value it writes is based on the MSR as it is.
  * `RootNeverJoinsLost` (`RootNeverHangs`) and `RootClockTicks` (`ClockTicks`): the
    process that the user started has a joinable thread whenever it stops the
    clock, by an invariant that relates its phase, its run flag and its thread
    (`RootInv`, `ClockInv`).
  * `RunnerHasClockAlone` (`RunnerClockAlone`), with all faults and copies. While
    the first process waits for an external program, a copy could only have a
    thread if it were running or waiting itself (`ThreadOwners`), so all others
    wait, and the program is nobody's parent. `KinInv` says who waits for whom:
    every waiting process has a child of its own, which stands where it stood
    when it forked (`WaitsForChild`), and no processes wait in a circle
    (`NoCircle`, for every set of processes, since "in a circle" is not a property
    of one or two).
  * `RunnerUnhampered` (`RunnerSeesAllPrefetchers`): from `MsrInv`, `KinInv` and that
    helpers stay on their CPUs. Hypotheses: execvp and pinning do not fail; the
    external programs' `pre_test` enables all prefetchers, as
    `testcase_parr.hh:36-42` does on Intel; and no counter-thread build, which lets
    the program use the counter's CPU, too, whose MSRs nobody sets.
  * `ResultsOfRequestedTests` (`ResultsComplete`): if neither execvp nor output
    fails. `ResultsInv` relates the files to the loop's position (`Written`) and
    the current testcase to the options (`Chosen`).
* `HarnessProofs`, the adjacent-line testcase: `AdjacentReported`
  (`ReportsPrefetcher`) and `AdjacentPatterns` (`PatternsArePrefetches`), for all
  numbers of measurements and all latencies; that the thresholds separate them is
  a premise of both properties. `AdjacentInv` has where the loops are, whether the
  other line is cached (`LineInv`), bounds of the sum of the latencies so far
  (`LatencyInv`) and that the patterns are complete up to the current range
  (`PatternInv`).
* `TimingProofs`, the counter thread: `WorkerOwned` (`NoOrphan`), `HandleCorrect`
  (`HandleUsedCorrectly`) and `CounterIsClock` (refinement of `Clock`), for any set of
  threads, counter range and both loops. The invariant is `CounterInv`: types, the
  agreement of flag and handle between calls (`HandleInv`), no orphan, and that a
  worker about to store holds the current value (`RegCurrent`), without which the
  store would not be a tick of the clock.
* `TimingProofs`, calibration: `ThresholdBetween` (`FrThreshSeparates`). Assumptions:
  hits lie in `hlo..hhi`, misses in `mlo..mhi`, no access is interrupted, and the
  two ranges lie further apart than each is wide. Then every average lies in its
  range, whatever the filter rejects, and so the midpoint separates. The
  invariant bounds the running sums. That the filter copes with interrupted
  accesses is model-checked only: it does so for few of them, not for any number.
* `StrideExperimentProofs`
  * `OffsetAccessedCorrect` (the classification holds for exactly the accessed
    offsets), `ClassesDisjoint` (no line is both accessed and a candidate),
    `AssertsSuffice` (the assertions imply that accesses are in bounds). These are
    facts about integer division with negative numbers.
  * `NeverLeavesMapping` (`NoStrayAccess`) from `AssertsSuffice` and the invariant
    that a running experiment passed its assertions (`BoundsInv`).
  * `ReportsOnlyPrefetches` (`OnlyPrefetches`) for every mapping, variant,
    prefetcher and number of repetitions. `OnlyPrefetches` says nothing before the
    evaluation, so the invariant follows the evidence: what the probed lines hold
    in the cache is explained by the accesses since the last flush or by a
    prefetch (`CacheInv`), and every counter above zero belongs to a line that is
    so explained (`HistInv`), which division by the number of rounds does not
    change. At the evaluation `ClassesDisjoint` and `OffsetAccessedCorrect` exclude
    the first explanation for a candidate.
  * `StridePrefetcherFound` (`PrefetcherFound`), the converse: `FoundInv` says what
    is in the cache at each probe and that the counters are exactly the number of
    probes of lines that are present, before, during and after the entry-wise
    normalisation. Then hits average between 1000 and 2000, misses at 0, and the
    threshold is below 1000. Hypotheses: the noise threshold is below 1000 (a line
    that is always hit counts 1000 per thousand) and the divisor at least 2 (the
    source has 64). In the histogram over bytes (variant `"2D"`) misses share
    lines with hits, so that nothing is known of their average in general; it is
    excluded.
  * `TestsStayInMapping`, `TestsReportOnlyPrefetches`, `TestsFindPrefetcher`: the
    same for the experiments of all tests of `StrideTests`, which follow each other
    on one mapping. `TestInv` says that each experiment that runs is the next of its
    test; the lists are shown to consist of experiments. The pattern of
    `test_2D_steps` is included when the prefetcher keeps to one line.
  * `FunctionsCollideIn`: the functions of `test_pc_collision` collide in exactly
    the bits that it asks for, wherever the program is loaded.
  * `StrideSharingTold` (`SharingTold`), `StrideRangeTold` (`RangeTold`) and
    `StrideLimitsTold` (`LimitsTold`): what the tests conclude, with the hypotheses of
    `StridePrefetcherFound`, for all kinds of prefetchers, parameters and numbers of
    repetitions. A conclusion counts what several vectors hold, so they must be
    known exactly: `ToldInv` says that each vector but a pattern's is `Reported`, a
    function of the prefetcher's kind and the experiment. The invariants of
    `ReportsOnlyPrefetches` and of `StridePrefetcherFound` give its two directions.
    The rest is what the experiments of each test have to do with the kind: which
    accesses complete the stride that a prefetcher waits for, what lies in the
    mapping and in the page, and which strides are multiples.
  * In the histogram over bytes, `TestsFindPrefetcher` needs more: `QuietInv` counts
    the probes of each byte when the prefetcher adds no line. `PatternInv` says that
    `test_2D_steps` then reports the bytes of the last line at multiples of the
    stride, whether prefetched or not (section 6). This rests on the repetitions, which end behind the pattern's lines,
    where they are no multiple of the page: so each byte that matters is probed
    equally often, hits average above the threshold, and misses no higher than hits.
  * `RoomAssumption` has what the tests rely on, test by test: their mapping has room
    for the experiments and for what follows them (2 to 262144 pages, the calls
    of `allocate_mapping()` in `testcase_stride.hh`), the one of
    `test_load_pref_corr` has not. For `test_2D_steps` it holds since 4 divides 64,
    512 is a multiple of 64, and 400000 repetitions over a page of 4096 bytes end at
    byte 2688, behind byte 576.
* `SmsExperimentProofs`
  * `SmsReportsOnlyPrefetches` (`OnlyPrefetches`) for all offsets, repetitions,
    region lines and prefetchers. The invariant says that the probed page is
    flushed when the trigger access comes (`CacheInv`), whichever way the training
    took, that counters above zero are the trigger's or a prefetched line's
    (`HistInv`), and that the tests with a null pointer never get that far
    (`NullInv`). It needs that no offset is trained twice (`SmsAssumption`; true of
    every list in `testcase_sms.hh`): with a repeated first offset the trigger's
    own line would be a candidate.
  * `SmsPrefetcherFound` (`PrefetcherFound`), with the hypotheses of
    `StridePrefetcherFound`: in the tests with the same instruction nothing but the
    one pattern is ever learned, and after region accesses it is known at each
    trigger (`FoundInv`), so that the counters are exact again.
  * `SmsCharacterTold` (`CharacterTold`), same hypotheses, for all kinds of
    prefetchers. What a test concludes depends on what the prefetcher learned in the
    tests before it: `LearnInv` says which patterns it may know under which keys
    when the trigger comes. In `test_pc_collision` those are only the keys of the
    pairs of functions so far (`LearnPairs`), and the result is the number of bits
    with a prefetcher that `random_activity()` clears. `FetchInv` says when the trigger brings
    nothing, `FoundInv` when it brings all; `ResultInv` carries both to the end of
    the test's loop. `FunctionsCollide`: the assertions of
    `get_maccess_functions()` hold for every number of bits.
  * `AccessOrderChecked` (`OrderChecked`): while lines are drawn they are distinct,
    and then the scan has seen no stride behind it (`ScanInv`), which it also says
    right after a shuffle, when nothing has been looked at; that is why the first
    three accesses are not covered then. The history variable `repaired` tells
    the two cases apart.
  * `PairsCollide`: for every alignment, free place and load address, functions no
    longer than their alignment satisfy the three assertions of
    `get_maccess_functions()`. The second function begins exactly one alignment
    behind the first.
* `PointerArrayProofs`: `HitsArePrefetches` (`HitMeansPrefetched`) and
  `PrefetcherShows` (`PrefetcherFound`), for all arrays. The invariant has the types and
  the injectivity of the pointers set up so far (`FillInv`), that the measured entry
  is none of the trained ones (`ApartInv`), and the contents of the cache (`CacheInv`,
  `FoundInv`).
* `PointerChaseProofs`: `ChaseStaysInList` (`ChaseFollowsList`), `ChaseSparesMeasured`
  (`HitMeansPrefetched`), `ChaseFindsPrefetcher` (`PrefetcherFound`), for all arrays,
  lengths and numbers of measurements. The selected entries are distinct and
  linked (`ListInv`), the chase has followed that list so far and left nothing else
  in the cache (`ChaseInv`), and the counters agree with the position in the two
  outer loops (`CountInv`).
* `ProbingProofs`
  * `ProbingReportsOnlyPrefetches` (`OnlyPrefetches`), by following the evidence
    as for the stride experiment: what is in the probed lines was loaded by the
    workload, and is then no candidate, or fetched upon a load of it that no flush
    follows (`CacheInv`). In the replay test those are the loads of the training,
    too, as what is fetched into `mapping2` then is never flushed.
  * What the replay prefetcher itself fetches there is no candidate.
    `ReplaySeenInv` says where in its sequence of offsets the
    prefetcher is: the last two distances tell it (`At`, `PairsAt`), and what the
    table gives for a pair is the distance to the next offset or one of the jumps
    behind the end of the training and of the triggers (`TableRight`, `NextAt`).
    So during the training it fetches an offset of `mapping1` or, by the jump to
    the triggers, the first of them in `mapping2`, which is no candidate
    (`TrainingFetch`).
  * `ReplayFollowed` (`ReplayIdentified`), noise below 1000 and divisor at least 2:
    once the training has passed the last trigger, the prefetcher knows that what
    follows it is the next distance of the training (`Learned`), although the jump
    back to `mapping1` at the end of the repetition before had taught it otherwise;
    so behind the triggers it fetches the next offset and nothing else
    (`TriggerFetch`, `ReplayLinesInv`). `NoReplayIdentified` is the case of a machine
    without prefetcher, which needs no hypothesis on the thresholds.
  * `StreamCountExact` (`StreamCounted`), noise below 1000 and divisor at least 2.
    The probes are a stream of their own. `StreamSeenInv` says what the prefetcher
    knows at each load: the last line, and how many loads of its page came before,
    except in the one repetition that follows the probe of the line in front of
    the first load, where the count is too high. In that repetition the line that
    is probed is the first load's own, which is in the cache anyway
    (`StreamProbed`), so the exception does not show. `StreamLinesInv` says which
    lines that leaves in the cache, and `ExactInv` that the histogram counts exactly
    the probes of the lines that show.
  * `TemporalSuccessor` (`TemporalTold`), same hypotheses. `TableInv` says that from
    the second load of a training on, the table gives for the trigger the line
    that followed its last occurrence so far (`Follows`), whatever it gave before;
    with the trigger access the training wraps around (`SuccessorFetched`).

Out of reach of the prover and left to TLC: liveness under fairness (`Termination`,
`CallsReturn`, `ClockAdvances`, `CalibrationEnds`) and anything with ENABLED.
Model-checked only, without a proof: `PrefetcherFound` of the stride experiment
for patterns over bytes other than that of `test_2D_steps`. The other invariants
and action properties of the runs are theorems, some under the hypotheses above.

Assumptions that TLC evaluates in each run: that setups are experiments
(`IsSetup`), that the tests are those of the source and that kinds of prefetchers
have sensible parameters (`TestsAssumption`; a test takes at least four bytes per
line and a page that has room for its strides), at least one alignment
(`CodeAssumption`), and for the others types, nonempty mappings and the like.
`ReplayDistances` holds of the offsets 1, 5, 15, 23, 31, 32, 44, 50 of the replay
test and its five triggers: the distances are 4, 10, 8, 8, 1, 12, 6, no pair of
successive ones comes twice, and none of them is a jump, for the 64 lines of the
run as well as for the 128 of two pages of 4 KiB.

## 5. Not modelled

* Tests that nothing calls: `test_entries`, `test_2D_steps_plus`, `test_2D_gap1`,
  `test_2D_direction` and `test_3D_direction` of stride,
  `test_trigger_same_pc_different_memory` and `test_trigger_different_pc_same_memory`
  of SMS; the `*_vec` functions and the tests of stream and temporal that are
  commented out; the one-mapping variants of SMS and replay.
* What `test_region_boundary` and `test_direction` of SMS count behind the access
  that kills them, and the pointer-offset experiment of `parr`.
* The layout of JSON output, logging, dump and restore of experiments.
* Timing: latencies are values, not durations; `nanosleep` is the moment at
  which the hardware prefetches.
* Noise of other processes: the histogram thresholds are modelled with the
  noise threshold at 0 except in `Adjacent`.

## 6. Disagreements seen while modelling that no run shows

These were met in code that is not modelled, or are what the models take as
given.

* `testcase.hh:84-89`: the test of the `identified` flag is commented out, so
  `characterize()` runs on machines where the identification failed, although
  `:27` and `src/EXTENDING.md:79-84` demand the flag; stride, stream, temporal,
  parr and pchase do not return it.
* `testcase_stride_strideexperiment.cc:160`: `test_load_pref_corr` always violates
  the assertion (64 lines per stride, eight pages, nine steps or more), so
  `characterize()` of stride ends the benchmark in its fifth test.
  `testcase_sms.hh:519` passes a null pointer that
  `testcase_sms_smsexperiment.hh:150` reads.
* `testcase_parr.hh:36`: on AMD, parr and pchase do not program the MSRs, so they see
  what an earlier, aborted run has left there. `utils.hh:184` needs root on AMD,
  `src/README.md:135` says so for Intel only.
* `counter_thread.cc:60-61`: start is to wait until the thread runs; after a restart
  the counter is not 0 any more and it does not wait.
* `calibrate.cc:45`, `:59`: the "median" is an average. `:136-137`: the first
  line is left out of the noise. `:143`: the factor 1000/3125 puts the noise
  threshold below the noise that it should filter (`src/README.md:145`).
* `testcase_stride_strideexperiment.cc:471`, `:478`, `:541`: values are said to be at
  most 1000 but can be more, since the number of repetitions is no multiple of
  the number of lines.
* `testcase.hh:92` says "Run post-test in any case", which is about the test at `:87`:
  an assertion or `exit()` ends the process with prefetchers disabled
  (`CharacterizeDies`, `MsrError`). `LeftByFailure` says which ones.
* `testcase_stride_strideexperiment.cc:122-134`: for patterns a byte that the
  workload accessed itself may be a candidate (the test at `:116` is missing), and
  the lines are probed by the byte (`:260`). `test_2D_steps`, the only test of
  `identify()`, therefore logs as many prefetches as accesses would follow in the
  last line, 16 with lines of 64 bytes, on any machine, although the comment at
  `:549-552` has a vector mark what was both expected and observed. `:41`
  subtracts one for positive distances only. `:285`, `:346`: the plus and 3D variants
  have a histogram entry per line, which the evaluation takes for a byte.
* `testcase_sms.hh:588-605`: `test_training_entries` reports one entry more than
  there are, and 2 without any prefetcher, although `:562-564` call its result the
  maximum number of regions that can be trained. `:327`: the state is to be cleared
  between two pairs of functions, but `random_activity()` makes noise with one load
  instruction only; with a prefetcher that keeps its patterns through it, the one
  of a pair may be recalled by the next and the number of bits come out one too
  small. `CharacterTold` covers neither: it speaks of prefetchers that do forget, and
  of what the experiments show. `:436`: `test_direction` would lose its maximum if no region
  were too large.
* `testcase_stride.hh:1165`: the baseline is counted from the random vector, while
  `:1135` wants both counts above 0. No prefetcher of the model tells the two apart.
  `:1036`: `test_pc_collision` has no baseline, so for a prefetcher that two
  accesses suffice for it reports the smallest number of bits.
* `parr/parr.c:84-85`: the entry for the reference needs one more in the target array
  than there are pointers, but the check also accepts as many and one less. With
  those, no unused entry is left for the last pointer and the loop at `:98` never
  ends; no experiment of `main()` has such sizes. `:35`, `:50`: the pseudocode of the
  training loops has `i <= iters`, which would train the pointer that is measured
  (`iters` is its index); the assembly ends before it (`parr_x86.S:463`), as
  `HitMeansPrefetched` needs. `:151`: one page too many is read.
* `testcase_dcreplay_dcexperiment.hh:81-87`: only `mapping1` is flushed in the training,
  so a line that a prefetcher fetches into `mapping2` then is reported like one that
  the trigger led to.
* `testcase_adjacent.hh:105`: a latency is compared with the noise threshold, which
  is in parts per thousand.
* `utils.cc:197`, `:213`: escaped backslashes and colons inside strings confuse the
  pretty-printer; no output has them.
* `testcase_stream.hh:164`: `stream_existence` needs both directions, only one is tested
  (`:102`). Nobody reads it.

## 7. Plan

Done, in this order: the harness, its proofs, the counter thread and its
refinement, the stride geometry and experiment, calibration, the external
programs, adjacent, SMS, the probing experiments, the stride tests; then the
three steps of an MSR call and the proofs of `CallsAtomic`, `RootNeverHangs` and
`ClockTicks`, the patterns of the stride experiment, the load instructions, the
remaining SMS tests and their access orders, and the proofs of `OnlyPrefetches`;
then the proofs of the harness's other invariants, of what the experiments find,
of `Adjacent`, `PointerChase` and the stream, temporal and replay tests, and of what
the stride and SMS tests conclude.

Next:

1. An abstract specification of an experiment (report exactly the fetched
   candidates) that `StrideExperiment`, `SmsExperiment` and `ProbingExperiment`
   implement.
2. The pointer-offset experiment of `parr`.
