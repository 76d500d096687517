----------------------- MODULE StrideExperimentProofs -----------------------
(***************************************************************************)
(* The classification of offsets and cache lines is right for every        *)
(* stride, step, first offset and cache line size; and what holds of a     *)
(* stride experiment for every mapping, experiment, way to collect and     *)
(* number of repetitions: it stays in the mapping, reports nothing that    *)
(* was not fetched, and finds a prefetcher of the next strides.  So do all *)
(* experiments of the tests, which run one after the other (TestSpec).     *)
(*                                                                         *)
(* What the tests conclude is right for every kind of prefetcher: each     *)
(* experiment's vector is known exactly (ToldInv), and each conclusion is  *)
(* what its vectors say of the prefetcher.                                 *)
(***************************************************************************)
EXTENDS StrideTests, Arithmetic

\* A positive factor does not make a positive number smaller.
LEMMA TimesGrows ==
  ASSUME NEW b \in Int, b > 0, NEW k \in Int, k >= 1
  PROVE  b * k >= b
<1>1. b * (k - 1) >= 0
  OBVIOUS
<1>2. b * (k - 1) = b * k - b
  OBVIOUS
<1>3. QED
  BY <1>1, <1>2

\* Dividing a multiple gives the factor back.
LEMMA MultipleDiv ==
  ASSUME NEW b \in Int, b > 0, NEW i \in Nat
  PROVE  (b * i) \div b = i
<1> DEFINE q == (b * i) \div b
           r == (b * i) % b
<1>1. q \in Int /\ r \in Int /\ b * i = b * q + r /\ 0 <= r /\ r < b
  OBVIOUS
<1>2. b * (i - q) = r
  BY <1>1
<1>3. CASE i - q >= 1
  BY <1>1, <1>2, <1>3, TimesGrows
<1>4. CASE q - i >= 1
  <2>1. b * (q - i) >= b
    BY <1>1, <1>4, TimesGrows
  <2>2. b * (q - i) = -r
    BY <1>1
  <2>3. QED
    BY <1>1, <2>1, <2>2
<1>5. QED
  BY <1>1, <1>3, <1>4

\* The truncated division is exact on multiples, whatever the signs.
LEMMA QuotientOfMultiple ==
  ASSUME NEW s \in Int \ {0}, NEW i \in Nat
  PROVE  CQuotient(i * s, s) = i
<1>1. CASE s > 0
  <2>1. i * s >= 0 /\ Magnitude(i * s) = s * i /\ Magnitude(s) = s
    BY <1>1 DEF Magnitude
  <2>2. (s * i) \div s = i
    BY <1>1, MultipleDiv
  <2>3. QED
    BY <1>1, <2>1, <2>2 DEF CQuotient
<1>2. CASE s < 0 /\ i > 0
  <2>1. i * s < 0 /\ Magnitude(i * s) = (-s) * i /\ Magnitude(s) = -s
    BY <1>2 DEF Magnitude
  <2>2. ((-s) * i) \div (-s) = i
    BY <1>2, MultipleDiv
  <2>3. QED
    BY <1>2, <2>1, <2>2 DEF CQuotient
<1>3. CASE s < 0 /\ i = 0
  <2>1. i * s = 0 /\ Magnitude(i * s) = 0 /\ Magnitude(s) = -s
    BY <1>3 DEF Magnitude
  <2>2. ((-s) * 0) \div (-s) = 0
    BY <1>3, MultipleDiv
  <2>3. QED
    BY <1>3, <2>1, <2>2 DEF CQuotient
<1>4. QED
  BY <1>1, <1>2, <1>3

\* A quotient is an integer.
LEMMA QuotientType ==
  ASSUME NEW a \in Int, NEW s \in Int \ {0}
  PROVE  CQuotient(a, s) \in Int
<1>1. Magnitude(a) \in Int /\ Magnitude(s) \in Int /\ Magnitude(s) > 0
  BY DEF Magnitude
<1>2. Magnitude(a) \div Magnitude(s) \in Int
  BY <1>1
<1>3. QED
  BY <1>2 DEF CQuotient

\* offset_accessed() answers yes exactly for the bytes that the experiment's
\* loop accesses, for strides of both signs.
THEOREM OffsetAccessedCorrect ==
  ASSUME NEW e, IsExperiment(e), NEW offset \in Nat
  PROVE  offset_accessed(e, offset) <=> offset \in Accesses(e)
<1> USE DEF IsExperiment
<1> DEFINE n == offset - e.first
           at == CQuotient(n, e.stride)
<1>1. n \in Int /\ at \in Int
  BY QuotientType
<1>2. ASSUME offset_accessed(e, offset) PROVE offset \in Accesses(e)
  <2>1. n - e.stride * at = 0 /\ at >= 0 /\ at < e.step
    BY <1>2 DEF offset_accessed, CRemainder
  <2>2. offset = e.first + at * e.stride /\ at \in 0..(e.step - 1)
    BY <1>1, <2>1
  <2>3. QED
    BY <2>2 DEF Accesses
<1>3. ASSUME offset \in Accesses(e) PROVE offset_accessed(e, offset)
  <2>1. PICK i \in 0..(e.step - 1) : offset = e.first + i * e.stride
    BY <1>3 DEF Accesses
  <2>2. n = i * e.stride
    BY <2>1
  <2>3. at = i
    <3>1. i \in Nat /\ e.stride \in Int \ {0}
      BY <2>1
    <3>2. CQuotient(i * e.stride, e.stride) = i
      BY <3>1, QuotientOfMultiple
    <3>3. QED
      BY <2>2, <3>2
  <2>4. n - e.stride * at = 0
    BY <1>1, <2>1, <2>2, <2>3
  <2>5. QED
    BY <2>1, <2>3, <2>4 DEF offset_accessed, CRemainder
<1>4. QED
  BY <1>2, <1>3

\* offset_potential_prefetch() answers yes exactly for the bytes that the loop
\* would access later if it did not stop.
LEMMA OffsetPotential ==
  ASSUME NEW e, IsExperiment(e), NEW offset \in Nat, offset_potential_prefetch(e, offset)
  PROVE  \E j \in Nat : j >= e.step /\ offset = e.first + j * e.stride
<1> USE DEF IsExperiment
<1> DEFINE n == offset - e.first
           at == CQuotient(n, e.stride)
<1>1. n \in Int /\ at \in Int
  BY QuotientType
<1>2. n - e.stride * at = 0 /\ at >= 0 /\ at >= e.step
  BY DEF offset_potential_prefetch, CRemainder
<1>3. offset = e.first + at * e.stride /\ at \in Nat
  BY <1>1, <1>2
<1>4. QED
  BY <1>2, <1>3

\* No cache line is both counted as accessed and as a prefetch candidate, so
\* evaluate_cache_histogram() never reports an access as a prefetch.
THEOREM ClassesDisjoint ==
  ASSUME NEW e, IsExperiment(e), NEW cl \in Nat
  PROVE  ~(cl_accessed(e, cl) /\ cl_potential_prefetch(e, cl))
<1> USE LineSizeAssumption DEF IsExperiment
<1> SUFFICES ASSUME cl_accessed(e, cl), cl_potential_prefetch(e, cl) PROVE FALSE
  OBVIOUS
<1>1. e.stride >= LineSize
  BY DEF cl_potential_prefetch
<1>2. cl * LineSize \in Nat /\ (cl + 1) * LineSize = cl * LineSize + LineSize
  OBVIOUS
<1>3. PICK a \in Bytes(cl) : offset_accessed(e, a)
  BY DEF cl_accessed
<1>4. PICK b \in Bytes(cl) : offset_potential_prefetch(e, b)
  BY DEF cl_potential_prefetch
<1>5. a \in Nat /\ b \in Nat /\ b - a < LineSize
  BY <1>2, <1>3, <1>4 DEF Bytes
<1>6. a \in Accesses(e)
  BY <1>3, <1>5, OffsetAccessedCorrect
<1>7. PICK i \in 0..(e.step - 1) : a = e.first + i * e.stride
  BY <1>6 DEF Accesses
<1>8. PICK j \in Nat : j >= e.step /\ b = e.first + j * e.stride
  BY <1>4, <1>5, OffsetPotential
<1>9. b - a = e.stride * (j - i) /\ j - i >= 1
  BY <1>7, <1>8
<1>10. e.stride * (j - i) >= e.stride
  BY <1>1, <1>7, <1>8, <1>9, TimesGrows
<1>11. QED
  BY <1>1, <1>5, <1>9, <1>10

\* Multiplication by a non-negative number is monotonic.
LEMMA TimesMonotonic ==
  ASSUME NEW a \in Int, NEW b \in Int, a <= b, NEW s \in Int, s >= 0
  PROVE  a * s <= b * s
<1>1. (b - a) * s >= 0
  OBVIOUS
<1>2. (b - a) * s = b * s - a * s
  OBVIOUS
<1>3. QED
  BY <1>1, <1>2

\* The assertions about the first and the last access keep every access of the
\* loop inside the mapping.
THEOREM AssertsSuffice ==
  ASSUME NEW e, IsExperiment(e), NEW size \in Nat, AssertsHold(e, size)
  PROVE  Accesses(e) \subseteq 0..(size - 1)
<1> USE DEF IsExperiment, AssertsHold
<1> SUFFICES ASSUME NEW i \in 0..(e.step - 1)
             PROVE  e.first + i * e.stride \in 0..(size - 1)
  BY DEF Accesses
<1> DEFINE last == e.step - 1
<1>1. last \in Nat /\ i \in Nat /\ i <= last
  OBVIOUS
<1>2. e.stride * e.step - e.stride = last * e.stride
  OBVIOUS
<1>3. i * e.stride \in Int /\ last * e.stride \in Int
  BY <1>1
<1>4. CASE e.stride >= 0
  <2>1. 0 * e.stride <= i * e.stride /\ i * e.stride <= last * e.stride
    BY <1>1, <1>4, TimesMonotonic
  <2>2. QED
    BY <1>2, <1>3, <2>1
<1>5. CASE e.stride < 0
  <2>1. 0 * (-e.stride) <= i * (-e.stride) /\ i * (-e.stride) <= last * (-e.stride)
    <3>1. -e.stride \in Int /\ -e.stride >= 0
      BY <1>5
    <3>2. QED
      BY <1>1, <3>1, TimesMonotonic
  <2>2. i * (-e.stride) = -(i * e.stride) /\ last * (-e.stride) = -(last * e.stride)
    BY <1>1
  <2>3. QED
    BY <1>2, <1>3, <2>1, <2>2
<1>6. QED
  BY <1>4, <1>5

------------------------------------------------------------------------------

\* An experiment that got past the assertions satisfies them.
BoundsInv ==
  /\ IsExperiment(exp)
  /\ pc \notin {"assert", "aborted"} => AssertsHold(exp, Size)

\* The experiment never leaves its mapping, for strides of both signs.
THEOREM NeverLeavesMapping == Spec => []NoStrayAccess
<1>1. Init => BoundsInv
  BY ExperimentAssumption DEF Init, BoundsInv, IsSetup
<1>2. BoundsInv /\ [Next]_vars => BoundsInv'
  <2> SUFFICES ASSUME BoundsInv, [Next]_vars PROVE BoundsInv'
    OBVIOUS
  <2>1. exp' = exp
    BY DEF Next, Step, CheckBounds, Flush, Workload, Prefetch, Probe, Normalize, Evaluate, Ended,
       vars, setup
  <2>2. pc' \notin {"assert", "aborted"} => pc \notin {"assert", "aborted"} \/ AssertsHold(exp, Size)
    BY DEF Next, Step, CheckBounds, Flush, Workload, Prefetch, Probe, Normalize, Evaluate, Ended,
       vars, setup
  <2>3. QED
    BY <2>1, <2>2 DEF BoundsInv, AssertsHold, Size
<1>3. BoundsInv => NoStrayAccess
  <2> SUFFICES ASSUME BoundsInv, pc \notin {"assert", "aborted"}
               PROVE  Accesses(exp) \subseteq 0..(Size - 1)
    BY DEF NoStrayAccess
  <2>1. IsExperiment(exp) /\ AssertsHold(exp, Size) /\ Size \in Nat
    BY ExperimentAssumption, LineSizeAssumption DEF BoundsInv, Size
  <2>2. QED
    BY <2>1, AssertsSuffice
<1>4. QED
  BY <1>1, <1>2, <1>3, PTL DEF Spec

------------------------------------------------------------------------------
\* What is reported was fetched

\* The lines that are flushed in the beginning of a repetition.
ProbedLines == {Probed(i) : i \in ToSet(ProbeOrder)}

\* What explains that a line is in the cache.
Explained == WorkloadLines \union fetched

SetupInv == IsSetup([exp |-> exp, variant |-> variant, tail |-> tail, hw |-> hw])

CacheInv ==
  /\ pc = "workload" => cache \intersect ProbedLines = {}
  /\ pc = "wait" => cache \intersect ProbedLines \subseteq WorkloadLines
  /\ pc = "probe" => cache \intersect ProbedLines \subseteq Explained

HistInv ==
  /\ hist \in [Entries -> Nat]
  /\ \A i \in Entries : hist[i] > 0 => Probed(i) \in Explained

IInv == SetupInv /\ BoundsInv /\ rep \in Nat /\ CacheInv /\ HistInv /\ OnlyPrefetches

\* The index of a repetition is one of the list's.
LEMMA IndexInRange ==
  ASSUME NEW r \in Nat, NEW n \in Nat \ {0}
  PROVE  (r % n) + 1 \in 1..n
OBVIOUS

LEMMA IntervalSize ==
  ASSUME NEW n \in Nat \ {0}
  PROVE  Cardinality(0..(n - 1)) = n
<1>1. Cardinality(0..(n - 1)) = IF 0 > n - 1 THEN 0 ELSE (n - 1) - 0 + 1
  BY FS_Interval
<1>2. QED
  BY <1>1

LEMMA FunctionIsSequence ==
  ASSUME NEW n \in Nat, NEW S, NEW f \in [1..n -> S]
  PROVE  f \in Seq(S) /\ Len(f) = n
OBVIOUS

\* The elements of two sequences in a row.
LEMMA FirstPart ==
  ASSUME NEW S, NEW f \in Seq(S), NEW g \in Seq(S), NEW k \in 1..Len(f)
  PROVE  (f \o g)[k] = f[k]
<1>1. Len(f) \in Nat /\ Len(g) \in Nat /\ k \in Nat /\ k <= Len(f)
  OBVIOUS
<1>2. k \in 1..(Len(f) + Len(g))
  BY <1>1
<1>3. QED
  BY <1>1, <1>2

LEMMA SecondPart ==
  ASSUME NEW S, NEW f \in Seq(S), NEW g \in Seq(S), NEW k \in (Len(f) + 1)..(Len(f) + Len(g))
  PROVE  (f \o g)[k] = g[k - Len(f)]
<1>1. Len(f) \in Nat /\ Len(g) \in Nat /\ k \in Nat /\ k > Len(f) /\ k <= Len(f) + Len(g)
  OBVIOUS
<1>2. k \in 1..(Len(f) + Len(g)) /\ ~(k <= Len(f))
  BY <1>1
<1>3. QED
  BY <1>1, <1>2

LEMMA PositiveSize == Size \in Nat \ {0} /\ Lines \in Nat \ {0}
<1>1. Lines \in Nat \ {0} /\ LineSize \in Nat \ {0}
  BY ExperimentAssumption, LineSizeAssumption
<1>2. Lines * LineSize >= LineSize
  BY <1>1, TimesGrows
<1>3. QED
  BY <1>1, <1>2 DEF Size

\* There is something to probe once the first access is known to lie in the
\* mapping.
LEMMA SomethingProbed ==
  ASSUME InMapping(exp.first), exp.first \in Nat, exp.stride \in Int
  PROVE  /\ Len(ProbeOrder) \in Nat \ {0}
         /\ DOMAIN ProbeOrder = 1..Len(ProbeOrder)
<1>1. CASE variant = "lazy"
  <2> DEFINE Hops == 0..Size
             forward  == {k \in Hops : InMapping(exp.first + k * exp.stride)}
             backward == {k \in Hops \ {0} : InMapping(exp.first - k * exp.stride)}
             f == [k \in 1..Cardinality(forward) |-> LineOf(exp.first + (k - 1) * exp.stride)]
             g == [k \in 1..Cardinality(backward) |-> LineOf(exp.first - k * exp.stride)]
  <2>1. IsFiniteSet(Hops)
    BY FS_Interval, PositiveSize
  <2>2. IsFiniteSet(forward) /\ IsFiniteSet(backward)
    BY <2>1, FS_Subset
  <2>3. 0 \in forward
    BY PositiveSize
  <2>4. Cardinality(forward) \in Nat \ {0} /\ Cardinality(backward) \in Nat
    BY <2>2, <2>3, FS_CardinalityType, FS_EmptySet
  <2>5. ProbeOrder = f \o g
    BY <1>1 DEF ProbeOrder, indices_to_probe
  <2> HIDE DEF forward, backward
  <2> DEFINE F == {f[k] : k \in 1..Cardinality(forward)}
             G == {g[k] : k \in 1..Cardinality(backward)}
  <2>6. f \in [1..Cardinality(forward) -> F] /\ g \in [1..Cardinality(backward) -> G]
    OBVIOUS
  <2> HIDE DEF f, g, F, G
  <2>7. f \in Seq(F) /\ Len(f) = Cardinality(forward)
    BY <2>4, <2>6, FunctionIsSequence
  <2>8. g \in Seq(G) /\ Len(g) = Cardinality(backward)
    BY <2>4, <2>6, FunctionIsSequence
  <2>9. QED
    BY <2>4, <2>5, <2>7, <2>8
<1>2. CASE variant # "lazy"
  <2>1. Cardinality(Entries) \in Nat \ {0}
    BY PositiveSize, IntervalSize DEF Entries, AllLines
  <2>2. ProbeOrder = [k \in 1..Cardinality(Entries) |-> k - 1]
    BY <1>2 DEF ProbeOrder
  <2> DEFINE n == Cardinality(Entries)
  <2> HIDE DEF n
  <2>3. ProbeOrder \in Seq(Int) /\ Len(ProbeOrder) = n
    BY <2>1, <2>2 DEF n
  <2>4. QED
    BY <2>1, <2>3 DEF n
<1>3. QED
  BY <1>1, <1>2

\* The setup does not change, and with it whatever is derived from it.
LEMMA SetupStays ==
  ASSUME setup' = setup
  PROVE  /\ ProbeOrder' = ProbeOrder /\ ProbedLines' = ProbedLines
         /\ WorkloadLines' = WorkloadLines /\ Entries' = Entries
         /\ \A i : Probed(i)' = Probed(i)
<1>1. exp' = exp /\ variant' = variant /\ tail' = tail
  BY DEF setup
<1>2. Entries' = Entries /\ \A i : Probed(i)' = Probed(i)
  BY <1>1 DEF Entries, Probed, Size, AllLines
<1>3. ProbeOrder' = ProbeOrder
  BY <1>1, <1>2 DEF ProbeOrder, indices_to_probe, InMapping, Size
<1>4. WorkloadLines' = WorkloadLines
  BY <1>1 DEF WorkloadLines, WorkloadOffsets
<1>5. QED
  BY <1>2, <1>3, <1>4 DEF ProbedLines

\* What a workload with one stride accesses in the probed mapping is part of what
\* the experiment's loop accesses.
LEMMA WorkloadAccesses ==
  ASSUME SetupInv, variant \notin Patterns
  PROVE  /\ IsExperiment(exp) /\ WorkloadOffsets \subseteq Accesses(exp)
         /\ variant # "two" => WorkloadOffsets = Accesses(exp)
<1>1. IsExperiment(exp)
  BY ExperimentAssumption DEF SetupInv, IsSetup
<1>2. CASE variant = "two"
  <2>1. tail \in 1..exp.step /\ exp.step \in Nat
    BY <1>1, <1>2, ExperimentAssumption DEF SetupInv, IsSetup, IsExperiment
  <2>2. (exp.step - tail)..(exp.step - 1) \subseteq 0..(exp.step - 1)
    BY <2>1
  <2>3. WorkloadOffsets = {exp.first + i * exp.stride : i \in (exp.step - tail)..(exp.step - 1)}
    BY <1>2 DEF WorkloadOffsets
  <2>4. QED
    BY <1>1, <1>2, <2>2, <2>3 DEF Accesses
<1>3. CASE variant # "two"
  BY <1>1, <1>3 DEF WorkloadOffsets, Patterns
<1>4. QED
  BY <1>2, <1>3

\* A line of a candidate is none of those that the experiment accesses, unless it
\* is a pattern.
LEMMA CandidateNotAccessed ==
  ASSUME SetupInv, AssertsHold(exp, Size), variant \notin Patterns,
         NEW l \in AllLines, cl_potential_prefetch(exp, l)
  PROVE  l \notin WorkloadLines
<1>1. IsExperiment(exp) /\ l \in Nat /\ Size \in Nat /\ LineSize \in Nat \ {0}
  BY ExperimentAssumption, LineSizeAssumption, PositiveSize DEF SetupInv, IsSetup, AllLines
<1>2. WorkloadOffsets \subseteq Accesses(exp)
  BY WorkloadAccesses
<1>3. SUFFICES ASSUME NEW offset \in WorkloadOffsets, l = LineOf(offset) PROVE FALSE
  BY DEF WorkloadLines
<1>4. offset \in Accesses(exp) /\ offset \in Nat
  BY <1>1, <1>2, AssertsSuffice
<1>5. offset \in Bytes(l)
  <2>1. offset = LineSize * (offset \div LineSize) + (offset % LineSize)
        /\ 0 <= offset % LineSize /\ offset % LineSize < LineSize
    BY <1>1, <1>4
  <2>2. (l + 1) * LineSize = LineSize * l + LineSize /\ l * LineSize = LineSize * l
    BY <1>1
  <2>3. QED
    BY <1>1, <1>3, <1>4, <2>1, <2>2 DEF Bytes, LineOf
<1>6. cl_accessed(exp, l)
  BY <1>1, <1>4, <1>5, OffsetAccessedCorrect DEF cl_accessed
<1>7. QED
  BY <1>1, <1>6, ClassesDisjoint

LEMMA QuotientNat ==
  ASSUME NEW a \in Nat, NEW n \in Nat \ {0}, a \div n # 0
  PROVE  a \div n \in Nat \ {0}
<1> DEFINE q == a \div n
<1>1. q \in Int /\ a % n \in Int /\ a = n * q + (a % n) /\ 0 <= a % n /\ a % n < n
  OBVIOUS
<1>2. CASE q < 0
  <2>1. n * (-q) >= n /\ n * (-q) = -(n * q)
    BY <1>1, <1>2, TimesGrows
  <2>2. QED
    BY <1>1, <2>1
<1>3. QED
  BY <1>1, <1>2

\* Zero parts are zero parts per thousand.
LEMMA ScaledType ==
  ASSUME NEW h \in Nat, NEW n \in Nat \ {0}
  PROVE  (h * 1000) \div n \in Nat /\ (h = 0 => (h * 1000) \div n = 0)
<1> DEFINE q == (h * 1000) \div n
<1>1. q \in Int /\ (h * 1000) % n \in Int /\ h * 1000 = n * q + ((h * 1000) % n)
      /\ 0 <= (h * 1000) % n /\ (h * 1000) % n < n
  OBVIOUS
<1>2. q >= 0
  <2>1. CASE q < 0
    <3>1. n * (-q) >= n
      BY <1>1, <2>1, TimesGrows
    <3>2. n * (-q) = -(n * q)
      BY <1>1
    <3>3. QED
      BY <1>1, <3>1, <3>2
  <2>2. QED
    BY <1>1, <2>1
<1>3. ASSUME h = 0 PROVE q = 0
  <2>1. CASE q >= 1
    BY <1>1, <1>3, <2>1, TimesGrows
  <2>2. QED
    BY <1>1, <1>2, <2>1
<1>4. QED
  BY <1>1, <1>2, <1>3

\* One counter changes, if there is such a counter.
LEMMA CounterUpdate ==
  ASSUME NEW E, NEW h \in [E -> Nat], NEW i, NEW v, i \in E => v \in Nat
  PROVE  /\ [h EXCEPT ![i] = v] \in [E -> Nat]
         /\ \A j \in E : [h EXCEPT ![i] = v][j] = IF j = i THEN v ELSE h[j]
OBVIOUS

\* A counter changes and stays zero if it is zero: so do all.
LEMMA ZerosStay ==
  ASSUME NEW E, NEW h \in [E -> Nat], NEW i, NEW v, i \in E => v \in Nat /\ (h[i] = 0 => v = 0)
  PROVE  /\ [h EXCEPT ![i] = v] \in [E -> Nat]
         /\ \A j \in E : [h EXCEPT ![i] = v][j] > 0 => h[j] > 0
<1> DEFINE g == [h EXCEPT ![i] = v]
<1>1. g \in [E -> Nat] /\ \A j \in E : g[j] = IF j = i THEN v ELSE h[j]
  BY CounterUpdate
<1>2. QED
  BY <1>1

\* An experiment that is about to begin.
Fresh ==
  /\ SetupInv
  /\ pc = "assert" /\ rep = 0 /\ fetched = {} /\ vector = {}
  /\ hist = [i \in Entries |-> 0]

LEMMA FreshInv == Fresh => IInv
<1> SUFFICES ASSUME Fresh PROVE IInv
  OBVIOUS
<1>1. SetupInv /\ BoundsInv
  BY DEF Fresh, SetupInv, IsSetup, BoundsInv
<1>2. HistInv
  BY DEF Fresh, HistInv
<1>3. rep \in Nat /\ CacheInv /\ OnlyPrefetches
  BY DEF Fresh, CacheInv, OnlyPrefetches
<1>4. QED
  BY <1>1, <1>2, <1>3 DEF IInv

LEMMA InitFresh == Init => Fresh
<1> SUFFICES ASSUME Init PROVE Fresh
  OBVIOUS
<1>1. PICK s \in Setups : exp = s.exp /\ variant = s.variant /\ tail = s.tail /\ hw = s.hw
  BY DEF Init
<1>2. IsSetup(s)
  BY ExperimentAssumption
<1>3. SetupInv
  BY <1>1, <1>2 DEF SetupInv, IsSetup
<1>4. QED
  BY <1>3 DEF Init, Fresh

\* What every step keeps.
LEMMA NextKeeps ==
  ASSUME IInv, [Next]_vars
  PROVE  setup' = setup /\ SetupInv' /\ BoundsInv'
<1>1. setup' = setup
  BY DEF Next, Step, CheckBounds, Flush, Workload, Prefetch, Probe, Normalize, Evaluate, Ended, vars
<1>2. exp' = exp /\ variant' = variant /\ tail' = tail /\ hw' = hw
  BY <1>1 DEF setup
<1>3. SetupInv'
  BY <1>2 DEF IInv, SetupInv, IsSetup
<1>4. pc' \notin {"assert", "aborted"} => pc \notin {"assert", "aborted"} \/ AssertsHold(exp, Size)
  BY DEF Next, Step, CheckBounds, Flush, Workload, Prefetch, Probe, Normalize, Evaluate, Ended, vars
<1>5. BoundsInv'
  BY <1>2, <1>4 DEF IInv, BoundsInv, AssertsHold, Size
<1>6. QED
  BY <1>1, <1>3, <1>5

\* The probed line comes from the list.
LEMMA ProbedFromList ==
  ASSUME IInv, pc = "probe"
  PROVE  Probed(probe_index) \in ProbedLines
<1>1. IsExperiment(exp) /\ AssertsHold(exp, Size)
  BY ExperimentAssumption DEF IInv, SetupInv, IsSetup, BoundsInv
<1>2. InMapping(exp.first) /\ exp.first \in Nat /\ exp.stride \in Int
  BY <1>1 DEF InMapping, AssertsHold, IsExperiment
<1>3. (rep % Len(ProbeOrder)) + 1 \in DOMAIN ProbeOrder
  BY <1>2, SomethingProbed, IndexInRange DEF IInv
<1>4. probe_index \in ToSet(ProbeOrder)
  BY <1>3 DEF probe_index, ToSet
<1>5. QED
  BY <1>4 DEF ProbedLines

LEMMA NextInv == IInv /\ [Next]_vars => IInv'
<1> SUFFICES ASSUME IInv, [Next]_vars PROVE IInv'
  OBVIOUS
<1>1. setup' = setup /\ SetupInv' /\ BoundsInv'
  BY NextKeeps
<1>2. /\ ProbeOrder' = ProbeOrder /\ ProbedLines' = ProbedLines
      /\ WorkloadLines' = WorkloadLines /\ Entries' = Entries
      /\ \A i : Probed(i)' = Probed(i)
  BY <1>1, SetupStays
<1>3. variant' = variant
  BY <1>1 DEF setup
<1> SUFFICES rep' \in Nat /\ CacheInv' /\ HistInv' /\ OnlyPrefetches'
  BY <1>1 DEF IInv
\* As long as the counters stay and no explanation goes.
<1>4. ASSUME hist' = hist, fetched \subseteq fetched' PROVE HistInv'
  BY <1>2, <1>4 DEF IInv, HistInv, Explained
<1>5. CASE CheckBounds
  <2>1. hist' = hist /\ fetched' = fetched /\ rep' = rep /\ pc' \in {"flush", "aborted"}
    BY <1>5 DEF CheckBounds
  <2>2. QED
    BY <1>4, <2>1 DEF IInv, CacheInv, OnlyPrefetches
<1>6. CASE Flush
  <2>1. hist' = hist /\ fetched' = fetched /\ rep' = rep /\ pc' = "workload"
    BY <1>6 DEF Flush
  <2>2. cache' = cache \ ProbedLines
    BY <1>6 DEF Flush, ProbedLines
  <2>3. QED
    BY <1>2, <1>4, <2>1, <2>2 DEF IInv, CacheInv, OnlyPrefetches
<1>7. CASE Workload
  <2>1. hist' = hist /\ fetched' = fetched /\ rep' = rep /\ pc = "workload" /\ pc' = "wait"
    BY <1>7 DEF Workload
  <2>2. cache' = cache \union WorkloadLines
    BY <1>7 DEF Workload
  <2>3. QED
    BY <1>2, <1>4, <2>1, <2>2 DEF IInv, CacheInv, OnlyPrefetches
<1>8. CASE Prefetch
  <2>1. hist' = hist /\ rep' = rep /\ pc = "wait" /\ pc' = "probe"
    BY <1>8 DEF Prefetch
  <2>2. PICK lines \in SUBSET AheadLines : cache' = cache \union lines /\ fetched' = fetched \union lines
    BY <1>8 DEF Prefetch
  <2>3. QED
    BY <1>2, <1>4, <2>1, <2>2 DEF IInv, CacheInv, OnlyPrefetches, Explained
<1>9. CASE Probe
  <2>1. /\ pc = "probe" /\ pc' \in {"normalize", "flush"} /\ rep' \in {0, rep + 1}
        /\ fetched' = fetched
        /\ hist' = [hist EXCEPT ![probe_index] = @ + IF Probed(probe_index) \in cache THEN 1 ELSE 0]
    BY <1>9 DEF Probe
  <2>2. ASSUME Probed(probe_index) \in cache PROVE Probed(probe_index) \in Explained
    BY <2>1, <2>2, ProbedFromList DEF IInv, CacheInv
  <2>3. HistInv'
    <3> DEFINE hit == IF Probed(probe_index) \in cache THEN 1 ELSE 0
    <3>1. hit \in Nat /\ hist \in [Entries -> Nat]
      BY DEF IInv, HistInv
    <3>2. hist' = [hist EXCEPT ![probe_index] = hist[probe_index] + hit]
      BY <2>1
    <3> HIDE DEF hit
    <3>3. probe_index \in Entries => hist[probe_index] + hit \in Nat
      BY <3>1
    <3>4. hist' \in [Entries -> Nat]
      BY <3>1, <3>2, <3>3, CounterUpdate
    <3>5. ASSUME NEW i \in Entries, hist'[i] > 0 PROVE Probed(i) \in Explained
      <4>1. CASE hist[i] > 0
        BY <4>1 DEF IInv, HistInv
      <4>2. CASE hist[i] = 0
        BY <2>1, <2>2, <3>5, <4>2 DEF IInv, HistInv
      <4>3. QED
        BY <4>1, <4>2 DEF IInv, HistInv
    <3>6. QED
      BY <1>2, <2>1, <3>4, <3>5 DEF HistInv, Explained
  <2>4. QED
    BY <2>1, <2>3 DEF IInv, CacheInv, OnlyPrefetches
<1>10. CASE Normalize
  <2> DEFINE rounds == no_repetitions \div Len(ProbeOrder)
             i == ProbeOrder[rep + 1]
  <2>1. CASE rounds = 0
    <3>1. hist' = hist /\ fetched' = fetched /\ rep' = rep /\ pc' = "aborted"
      BY <1>10, <2>1 DEF Normalize
    <3>2. QED
      BY <1>4, <3>1 DEF IInv, CacheInv, OnlyPrefetches
  <2>2. CASE rounds # 0
    <3>1. /\ pc \notin {"assert", "aborted"} /\ pc' \in {"evaluate", "normalize"}
          /\ rep' = rep + 1 /\ fetched' = fetched
          /\ hist' = [hist EXCEPT ![i] = (@ * 1000) \div rounds]
      BY <1>10, <2>2 DEF Normalize
    <3>2. rounds \in Nat \ {0}
      <4>1. IsExperiment(exp) /\ AssertsHold(exp, Size)
        BY <3>1, ExperimentAssumption DEF IInv, SetupInv, IsSetup, BoundsInv
      <4>2. Len(ProbeOrder) \in Nat \ {0}
        BY <4>1, SomethingProbed DEF InMapping, AssertsHold, IsExperiment
      <4>3. no_repetitions \in Nat
        BY ExperimentAssumption DEF no_repetitions
      <4>4. QED
        BY <2>2, <4>2, <4>3, QuotientNat
    <3> HIDE DEF rounds, i
    <3>3. HistInv'
      <4>1. hist \in [Entries -> Nat]
        BY DEF IInv, HistInv
      <4>2. hist' \in [Entries -> Nat] /\ \A j \in Entries : hist'[j] > 0 => hist[j] > 0
        <5> DEFINE v == (hist[i] * 1000) \div rounds
        <5>1. hist' = [hist EXCEPT ![i] = v]
          BY <3>1
        <5>2. ASSUME i \in Entries PROVE v \in Nat /\ (hist[i] = 0 => v = 0)
          <6>1. hist[i] \in Nat
            BY <4>1, <5>2
          <6>2. QED
            BY <3>2, <6>1, ScaledType
        <5> HIDE DEF v
        <5>3. /\ [hist EXCEPT ![i] = v] \in [Entries -> Nat]
              /\ \A j \in Entries : [hist EXCEPT ![i] = v][j] > 0 => hist[j] > 0
          BY <4>1, <5>2, ZerosStay
        <5>4. QED
          BY <5>1, <5>3
      <4>3. QED
        BY <1>2, <3>1, <4>2 DEF IInv, HistInv, Explained
    <3>4. QED
      BY <3>1, <3>3 DEF IInv, CacheInv, OnlyPrefetches
  <2>3. QED
    BY <2>1, <2>2
<1>11. CASE Evaluate
  <2>1. /\ pc = "evaluate" /\ pc' = "done" /\ rep' = rep /\ hist' = hist /\ fetched' = fetched
        /\ vector' = {i \in CandidateEntries : hist[i] > Noise /\ hist[i] >= prefetch_thresh}
    BY <1>11 DEF Evaluate
  <2>2. ASSUME NEW i \in vector' PROVE i \in Entries /\ Candidate(i) /\ Probed(i) \in Explained
    <3>1. i \in Entries /\ Candidate(i) /\ hist[i] > Noise
      BY <2>1 DEF CandidateEntries
    <3>2. hist[i] > 0
      BY <3>1, ExperimentAssumption DEF IInv, HistInv
    <3>3. QED
      BY <3>1, <3>2 DEF IInv, HistInv
  <2>3. ASSUME NEW i \in vector', variant \notin Patterns PROVE Probed(i) \notin WorkloadLines
    <3>1. Probed(i) = i /\ i \in AllLines /\ cl_potential_prefetch(exp, i)
      BY <2>2, <2>3 DEF Patterns, Probed, Entries, Candidate
    <3>2. AssertsHold(exp, Size)
      BY <2>1 DEF IInv, BoundsInv
    <3>3. QED
      BY <2>3, <3>1, <3>2, CandidateNotAccessed DEF IInv
  <2>4. OnlyPrefetches'
    BY <1>2, <1>3, <2>1, <2>2, <2>3 DEF OnlyPrefetches, Explained
  <2>5. QED
    BY <1>4, <2>1, <2>4 DEF IInv, CacheInv
<1>12. CASE UNCHANGED vars
  <2>1. hist' = hist /\ fetched' = fetched /\ rep' = rep /\ pc' = pc /\ cache' = cache /\ vector' = vector
    BY <1>12 DEF vars
  <2>2. QED
    BY <1>2, <1>3, <1>4, <2>1 DEF IInv, CacheInv, OnlyPrefetches, Explained
<1>13. QED
  BY <1>5, <1>6, <1>7, <1>8, <1>9, <1>10, <1>11, <1>12 DEF Next, Step, Ended

\* Whatever the mapping, the experiment, the way to collect, the prefetcher and
\* the number of repetitions, an experiment reports nothing that it brought into
\* the cache itself, patterns excepted, and nothing that nobody fetched.
THEOREM ReportsOnlyPrefetches == Spec => []OnlyPrefetches
<1>1. IInv => OnlyPrefetches
  BY DEF IInv
<1>2. QED
  BY <1>1, InitFresh, FreshInv, NextInv, PTL DEF Spec
------------------------------------------------------------------------------
\* A prefetcher of the next strides is found

\* The lines that are in the cache when a line is probed, if the prefetcher
\* always fetches the next strides.
Present == WorkloadLines \union AheadLines

\* The numbers of the entries in the list.
Numbers == 1..Len(ProbeOrder)

\* How often the k-th entry was probed in n repetitions, and its part per
\* thousand of the rounds.
Probes(k, n) == Turns(k - 1, n, Len(ProbeOrder))
Scaled(k) == PerThousand(Probes(k, Reps), Rounds(Reps, Len(ProbeOrder)))

\* An experiment that counts lines on such a prefetcher.
Found == hw = "stride" /\ variant \notin Patterns

\* Each probe of a line that is present hits, and no other one does.
FoundInv ==
  Found =>
    /\ pc = "assert" => rep = 0 /\ \A l \in AllLines : hist[l] = 0
    /\ pc = "wait" => WorkloadLines \intersect ProbedLines \subseteq cache
    /\ pc = "probe" => cache \intersect ProbedLines = Present \intersect ProbedLines
    /\ pc = "normalize" => rep < Len(ProbeOrder)
    /\ pc \in {"evaluate", "done"} => Rounds(Reps, Len(ProbeOrder)) # 0
    /\ \A l \in AllLines : l \notin Present \intersect ToSet(ProbeOrder) => hist[l] = 0
    /\ \A k \in Numbers :
         ProbeOrder[k] \in AllLines \intersect Present =>
           /\ pc \in {"flush", "workload", "wait", "probe"} => hist[ProbeOrder[k]] = Probes(k, rep)
           /\ pc = "normalize" =>
                hist[ProbeOrder[k]] = IF k <= rep THEN Scaled(k) ELSE Probes(k, Reps)
           /\ pc \in {"evaluate", "done"} => hist[ProbeOrder[k]] = Scaled(k)
    /\ pc = "done" => AheadLines \ WorkloadLines \subseteq vector

\* The line of a byte is the one that has it.
LEMMA LineOfByte ==
  ASSUME NEW o \in Int
  PROVE  /\ LineOf(o) \in Int
         /\ LineOf(o) * LineSize <= o /\ o < LineOf(o) * LineSize + LineSize
<1> DEFINE q == o \div LineSize
           r == o % LineSize
<1>1. LineSize \in Nat \ {0}
  BY LineSizeAssumption
<1>2. q \in Int /\ r \in Int /\ o = LineSize * q + r /\ 0 <= r /\ r < LineSize
  BY <1>1
<1>3. q * LineSize = LineSize * q
  BY <1>1, <1>2
<1>4. QED
  BY <1>1, <1>2, <1>3 DEF LineOf

LEMMA BytesOfLine ==
  ASSUME NEW o \in Int, NEW l \in Int
  PROVE  o \in Bytes(l) <=> LineOf(o) = l
<1> DEFINE q == LineOf(o)
           b == l * LineSize
           c == q * LineSize
<1>1. q \in Int /\ c <= o /\ o < c + LineSize /\ LineSize \in Nat \ {0} /\ c \in Int /\ b \in Int
  BY LineOfByte, LineSizeAssumption
<1>2. (l + 1) * LineSize - 1 = b + LineSize - 1
  BY <1>1
<1>3. o \in Bytes(l) <=> b <= o /\ o < b + LineSize
  BY <1>1, <1>2 DEF Bytes
<1>4. CASE l > q
  <2>1. LineSize * (l - q) >= LineSize /\ LineSize * (l - q) = b - c
    BY <1>1, <1>4, TimesGrows
  <2>2. QED
    BY <1>1, <1>3, <1>4, <2>1
<1>5. CASE l < q
  <2>1. LineSize * (q - l) >= LineSize /\ LineSize * (q - l) = c - b
    BY <1>1, <1>5, TimesGrows
  <2>2. QED
    BY <1>1, <1>3, <1>5, <2>1
<1>6. CASE l = q
  BY <1>1, <1>3, <1>6
<1>7. QED
  BY <1>1, <1>4, <1>5, <1>6

\* Bytes of the same line are less than a line apart.
LEMMA SameLine ==
  ASSUME NEW a \in Int, NEW b \in Int, LineOf(a) = LineOf(b)
  PROVE  b - a < LineSize
<1> DEFINE c == LineOf(a) * LineSize
<1>1. c \in Int /\ c <= a /\ b < c + LineSize /\ LineSize \in Nat
  BY LineOfByte, LineSizeAssumption
<1>2. QED
  BY <1>1

\* A byte of the mapping is in one of its lines.
LEMMA LineInMapping ==
  ASSUME NEW o \in Int, InMapping(o)
  PROVE  o \in Nat /\ LineOf(o) \in AllLines
<1> DEFINE q == LineOf(o)
           c == q * LineSize
<1>1. q \in Int /\ c \in Int /\ c <= o /\ o < c + LineSize /\ LineSize \in Nat \ {0}
  BY LineOfByte, LineSizeAssumption
<1>2. Lines \in Nat \ {0} /\ 0 <= o /\ o < Lines * LineSize
  BY PositiveSize DEF InMapping, Size
<1>3. CASE q < 0
  <2>1. LineSize * (-q) >= LineSize /\ LineSize * (-q) = -c
    BY <1>1, <1>3, TimesGrows
  <2>2. QED
    BY <1>1, <1>2, <2>1
<1>4. CASE q >= Lines
  <2>1. LineSize * (q - Lines) >= 0
    BY <1>1, <1>2, <1>4
  <2>2. LineSize * (q - Lines) = c - Lines * LineSize
    BY <1>1, <1>2
  <2>3. QED
    BY <1>1, <1>2, <2>1, <2>2
<1>5. QED
  BY <1>1, <1>2, <1>3, <1>4 DEF AllLines

\* What the loop would access later is a potential prefetch.
LEMMA LaterIsPotential ==
  ASSUME NEW e, IsExperiment(e), NEW j \in Nat, j >= e.step
  PROVE  offset_potential_prefetch(e, e.first + j * e.stride)
<1> DEFINE n == j * e.stride
<1>1. e.stride \in Int \ {0} /\ e.first \in Nat /\ n \in Int /\ (e.first + n) - e.first = n
  BY DEF IsExperiment
<1>2. CQuotient(n, e.stride) = j
  BY <1>1, QuotientOfMultiple
<1>3. n - e.stride * j = 0
  BY <1>1
<1>4. CRemainder(n, e.stride) = 0
  BY <1>2, <1>3 DEF CRemainder
<1> HIDE DEF n
<1>5. offset_potential_prefetch(e, e.first + n)
  BY <1>1, <1>2, <1>4 DEF offset_potential_prefetch
<1>6. QED
  BY <1>5 DEF n

\* Where the next accesses would be.
LEMMA AheadOffset ==
  ASSUME SetupInv, variant \notin Patterns, NEW l \in AheadLines
  PROVE  \E j \in Nat : /\ j >= exp.step /\ InMapping(exp.first + j * exp.stride)
                        /\ l = LineOf(exp.first + j * exp.stride)
<1>1. IsExperiment(exp) /\ Degree \in Nat
  BY ExperimentAssumption DEF SetupInv, IsSetup
<1>2. PICK d \in 1..Degree : InMapping(exp.first + Ahead(d)) /\ l = LineOf(exp.first + Ahead(d))
  BY DEF AheadLines
<1> DEFINE j == exp.step - 1 + d
<1>3. Ahead(d) = j * exp.stride
  BY DEF Ahead, Patterns
<1>4. j \in Nat /\ j >= exp.step
  BY <1>1 DEF IsExperiment
<1>5. QED
  BY <1>2, <1>3, <1>4

\* The lines of the next strides are candidates if they are not accessed.
LEMMA AheadCandidates ==
  ASSUME SetupInv, variant \notin Patterns, NEW l \in AheadLines
  PROVE  l \in AllLines /\ (l \notin WorkloadLines => l \in CandidateEntries)
<1>1. PICK j \in Nat : /\ j >= exp.step /\ InMapping(exp.first + j * exp.stride)
                       /\ l = LineOf(exp.first + j * exp.stride)
  BY AheadOffset
<1>2. /\ IsExperiment(exp) /\ exp.first \in Nat /\ exp.stride \in Int \ {0}
      /\ exp.step \in Nat \ {0} /\ LineSize \in Nat \ {0}
  BY ExperimentAssumption, LineSizeAssumption DEF SetupInv, IsSetup, IsExperiment
<1> DEFINE o == exp.first + j * exp.stride
<1>3. o \in Int
  BY <1>2
<1>4. o \in Nat /\ l \in AllLines /\ l \in Nat
  <2>1. o \in Nat /\ LineOf(o) \in AllLines
    BY <1>1, <1>3, LineInMapping
  <2>2. QED
    BY <1>1, <2>1 DEF AllLines
<1>5. o \in Bytes(l) /\ offset_potential_prefetch(exp, o)
  <2>1. l = LineOf(o)
    BY <1>1
  <2>2. offset_potential_prefetch(exp, o)
    BY <1>1, <1>2, LaterIsPotential
  <2> HIDE DEF o
  <2>3. QED
    BY <1>3, <1>4, <2>1, <2>2, BytesOfLine
<1>6. ASSUME exp.stride < LineSize, cl_accessed(exp, l) PROVE l \in WorkloadLines
  <2>1. PICK a \in Bytes(l) : offset_accessed(exp, a)
    BY <1>6 DEF cl_accessed
  <2>2. a \in Nat /\ LineOf(a) = l
    <3>1. l * LineSize \in Nat
      BY <1>2, <1>4
    <3>2. a \in Nat
      BY <1>2, <1>4, <3>1 DEF Bytes
    <3>3. QED
      BY <1>4, <3>2, BytesOfLine
  <2>3. a \in Accesses(exp)
    BY <1>2, <2>1, <2>2, OffsetAccessedCorrect
  <2>4. CASE variant # "two"
    BY <2>2, <2>3, <2>4, WorkloadAccesses DEF WorkloadLines
  <2>5. CASE variant = "two"
    <3> DEFINE z == exp.first + (exp.step - 1) * exp.stride
    <3>1. exp.stride > 0 /\ tail \in 1..exp.step
      BY <2>5, ExperimentAssumption DEF SetupInv, IsSetup
    <3>2. PICK i \in 0..(exp.step - 1) : a = exp.first + i * exp.stride
      BY <2>3 DEF Accesses
    <3>3. i * exp.stride <= (exp.step - 1) * exp.stride /\ (exp.step - 1) * exp.stride <= j * exp.stride
      BY <1>1, <1>2, <3>1, <3>2, TimesMonotonic
    <3>4. (exp.step - 1) * exp.stride \in Int /\ i * exp.stride \in Int /\ j * exp.stride \in Int
      BY <1>1, <1>2, <3>2
    <3>5. a <= z /\ z <= o /\ z \in Int
      BY <1>2, <3>2, <3>3, <3>4
    <3>6. z \in WorkloadOffsets
      <4>1. exp.step - 1 \in (exp.step - tail)..(exp.step - 1)
        BY <1>2, <3>1
      <4>2. QED
        BY <2>5, <4>1 DEF WorkloadOffsets
    <3> HIDE DEF o, z
    <3>7. z \in Bytes(l)
      <4> DEFINE lo == l * LineSize
                 hi == (l + 1) * LineSize - 1
      <4>1. a \in lo..hi /\ o \in lo..hi
        BY <1>5, <2>1 DEF Bytes
      <4>2. lo \in Int /\ hi \in Int
        BY <1>2, <1>4
      <4> HIDE DEF lo, hi
      <4>3. z \in lo..hi
        BY <3>5, <4>1, <4>2
      <4>4. QED
        BY <4>3 DEF lo, hi, Bytes
    <3>8. LineOf(z) = l
      BY <1>4, <3>5, <3>7, BytesOfLine
    <3>9. QED
      BY <3>6, <3>8 DEF WorkloadLines
  <2>6. QED
    BY <2>4, <2>5
<1>7. ASSUME l \notin WorkloadLines PROVE cl_potential_prefetch(exp, l)
  <2>1. exp.stride >= LineSize \/ ~cl_accessed(exp, l)
    BY <1>2, <1>6, <1>7
  <2> HIDE DEF o
  <2>2. QED
    BY <1>5, <2>1 DEF cl_potential_prefetch
<1>8. QED
  BY <1>4, <1>7 DEF CandidateEntries, Candidate, Entries, Patterns

\* A line that is counted as a miss is not in the cache.
LEMMA MissAbsent ==
  ASSUME SetupInv, AssertsHold(exp, Size), variant \notin Patterns, NEW l \in MissEntries
  PROVE  l \in AllLines /\ l \notin Present
<1>1. l \in AllLines /\ l \in Nat /\ ~cl_accessed(exp, l) /\ l \notin CandidateEntries
  BY ExperimentAssumption DEF MissEntries, HitEntries, Accessed, Entries, Patterns, AllLines
<1>2. IsExperiment(exp) /\ WorkloadOffsets \subseteq Accesses(exp) /\ Size \in Nat
  BY WorkloadAccesses, PositiveSize
<1>3. ASSUME l \in WorkloadLines PROVE FALSE
  <2>1. PICK o \in WorkloadOffsets : l = LineOf(o)
    BY <1>3 DEF WorkloadLines
  <2>2. o \in Accesses(exp) /\ o \in Nat
    BY <1>2, AssertsSuffice
  <2>3. o \in Bytes(l) /\ offset_accessed(exp, o)
    BY <1>1, <1>2, <2>1, <2>2, BytesOfLine, OffsetAccessedCorrect
  <2>4. QED
    BY <1>1, <2>3 DEF cl_accessed
<1>4. QED
  BY <1>1, <1>3, AheadCandidates DEF Present

\* The list has all lines in order, if it is not the one of whole strides.
LEMMA FullList ==
  ASSUME variant \notin Patterns, variant # "lazy"
  PROVE  /\ Len(ProbeOrder) = Lines /\ Numbers = 1..Lines
         /\ \A k \in 1..Lines : ProbeOrder[k] = k - 1
<1>1. Cardinality(Entries) = Lines /\ Lines \in Nat \ {0}
  BY PositiveSize, IntervalSize DEF Entries, AllLines, Patterns
<1>2. ProbeOrder = [k \in 1..Cardinality(Entries) |-> k - 1]
  BY DEF ProbeOrder
<1>3. ProbeOrder = [k \in 1..Lines |-> k - 1]
  BY <1>1, <1>2
<1>4. ProbeOrder \in Seq(Int) /\ Len(ProbeOrder) = Lines
  BY <1>1, <1>3
<1>5. QED
  BY <1>3, <1>4 DEF Numbers

\* If an access of the loop that never ends is in the mapping, so are the ones
\* before it, and there are no more of them than the mapping has bytes.
LEMMA HopsBefore ==
  ASSUME IsExperiment(exp), InMapping(exp.first), NEW j \in Nat,
         InMapping(exp.first + j * exp.stride), NEW i \in 0..j
  PROVE  i \in 0..Size /\ InMapping(exp.first + i * exp.stride)
<1> DEFINE s == exp.stride
           f == exp.first
<1>1. s \in Int \ {0} /\ f \in Nat /\ Size \in Nat /\ f < Size
  BY PositiveSize DEF IsExperiment, InMapping
<1>2. 0 <= f + j * s /\ f + j * s < Size /\ i \in Nat /\ i <= j
  BY DEF InMapping
<1> SUFFICES i <= Size /\ 0 <= f + i * s /\ f + i * s < Size
  BY <1>1, <1>2 DEF InMapping
<1>3. j * s \in Int /\ i * s \in Int
  BY <1>1, <1>2
<1> HIDE DEF s, f
<1>4. CASE s > 0
  <2>1. j * 1 <= j * s /\ 0 <= i * s /\ i * s <= j * s
    <3>1. j * (s - 1) >= 0 /\ j * (s - 1) = j * s - j
      BY <1>1, <1>4
    <3>2. i * s >= 0 /\ (j - i) * s >= 0 /\ (j - i) * s = j * s - i * s
      BY <1>1, <1>2, <1>4
    <3>3. QED
      BY <1>3, <3>1, <3>2
  <2>2. QED
    BY <1>1, <1>2, <1>3, <2>1
<1>5. CASE s < 0
  <2>1. j <= -(j * s) /\ i * s <= 0 /\ j * s <= i * s
    <3>1. j * (-s - 1) >= 0 /\ j * (-s - 1) = -(j * s) - j
      BY <1>1, <1>5
    <3>2. i * (-s) >= 0 /\ i * (-s) = -(i * s)
      BY <1>1, <1>2, <1>5
    <3>3. (j - i) * (-s) >= 0 /\ (j - i) * (-s) = i * s - j * s
      BY <1>1, <1>2, <1>5
    <3>4. QED
      BY <1>3, <3>1, <3>2, <3>3
  <2>2. QED
    BY <1>1, <1>2, <1>3, <2>1
<1>6. QED
  BY <1>1, <1>4, <1>5

\* The list of whole strides: the lines of F hops forwards, as far as the mapping
\* goes, and B hops backwards.
LEMMA LazyList ==
  ASSUME IsExperiment(exp), InMapping(exp.first), variant = "lazy"
  PROVE  \E F \in Nat, B \in Nat :
           /\ Len(ProbeOrder) = F + B
           /\ \A k \in 1..F : ProbeOrder[k] = LineOf(exp.first + (k - 1) * exp.stride)
           /\ \A k \in (F + 1)..(F + B) : ProbeOrder[k] = LineOf(exp.first + (F - k) * exp.stride)
           /\ \A j \in Nat : InMapping(exp.first + j * exp.stride) => j < F
<1> DEFINE Hops == 0..Size
           forward  == {k \in Hops : InMapping(exp.first + k * exp.stride)}
           backward == {k \in Hops \ {0} : InMapping(exp.first - k * exp.stride)}
           F == Cardinality(forward)
           B == Cardinality(backward)
           f == [k \in 1..F |-> LineOf(exp.first + (k - 1) * exp.stride)]
           g == [k \in 1..B |-> LineOf(exp.first - k * exp.stride)]
<1>1. IsFiniteSet(Hops)
  BY FS_Interval, PositiveSize
<1>2. IsFiniteSet(forward) /\ IsFiniteSet(backward)
  BY <1>1, FS_Subset
<1>3. F \in Nat /\ B \in Nat
  BY <1>2, FS_CardinalityType
<1>4. ProbeOrder = f \o g
  BY DEF ProbeOrder, indices_to_probe
<1>5. ASSUME NEW j \in Nat, InMapping(exp.first + j * exp.stride) PROVE j < F
  <2>1. 0..j \subseteq forward
    BY <1>5, HopsBefore
  <2> HIDE DEF forward
  <2>2. Cardinality(0..j) <= F
    BY <1>2, <2>1, FS_Subset
  <2>3. Cardinality(0..j) = j + 1
    <3>1. Cardinality(0..j) = IF 0 > j THEN 0 ELSE j - 0 + 1
      BY FS_Interval
    <3>2. QED
      BY <3>1
  <2>4. QED
    BY <1>3, <2>2, <2>3
<1> HIDE DEF forward, backward, F, B
<1> DEFINE FS == {f[k] : k \in 1..F}
           GS == {g[k] : k \in 1..B}
<1>6. f \in [1..F -> FS] /\ g \in [1..B -> GS]
  OBVIOUS
<1>7. \A k \in 1..F : f[k] = LineOf(exp.first + (k - 1) * exp.stride)
  OBVIOUS
<1>8. \A k \in 1..B : g[k] = LineOf(exp.first - k * exp.stride)
  OBVIOUS
<1> HIDE DEF f, g, FS, GS
<1>9. f \in Seq(FS) /\ Len(f) = F /\ g \in Seq(GS) /\ Len(g) = B
  BY <1>3, <1>6, FunctionIsSequence
<1>10. Len(ProbeOrder) = F + B
  <2>1. f \in Seq(FS \union GS) /\ g \in Seq(FS \union GS)
    BY <1>9
  <2>2. Len(f \o g) = Len(f) + Len(g)
    BY <2>1
  <2>3. QED
    BY <1>4, <1>9, <2>2
<1>11. ASSUME NEW k \in 1..F
       PROVE  ProbeOrder[k] = f[k]
  <2>1. f \in Seq(FS \union GS) /\ g \in Seq(FS \union GS) /\ k \in 1..Len(f)
    BY <1>9
  <2>2. (f \o g)[k] = f[k]
    BY <2>1, FirstPart
  <2>3. QED
    BY <1>4, <2>2
<1>12. ASSUME NEW k \in (F + 1)..(F + B)
       PROVE  ProbeOrder[k] = g[k - F]
  <2>1. f \in Seq(FS \union GS) /\ g \in Seq(FS \union GS)
    BY <1>9
  <2>2. k \in (Len(f) + 1)..(Len(f) + Len(g))
    BY <1>9
  <2>3. (f \o g)[k] = g[k - Len(f)]
    BY <2>1, <2>2, SecondPart
  <2>4. QED
    BY <1>4, <1>9, <2>3
<1>13. ASSUME NEW k \in (F + 1)..(F + B)
       PROVE  ProbeOrder[k] = LineOf(exp.first + (F - k) * exp.stride)
  <2>1. k - F \in 1..B /\ k \in Int
    BY <1>3
  <2>2. ProbeOrder[k] = LineOf(exp.first - (k - F) * exp.stride)
    BY <1>8, <1>12, <2>1
  <2>3. exp.first - (k - F) * exp.stride = exp.first + (F - k) * exp.stride
    BY <1>3, <2>1 DEF IsExperiment
  <2>4. QED
    BY <2>2, <2>3
<1>14. QED
  BY <1>3, <1>5, <1>7, <1>10, <1>11, <1>13

\* Every line is in the list once, and the lines of the next strides are in it.
LEMMA ListOnce ==
  ASSUME SetupInv, AssertsHold(exp, Size), variant \notin Patterns
  PROVE  /\ \A k, j \in Numbers : ProbeOrder[k] = ProbeOrder[j] => k = j
         /\ AheadLines \subseteq ToSet(ProbeOrder)
<1>1. IsExperiment(exp) /\ InMapping(exp.first) /\ exp.stride \in Int \ {0} /\ exp.first \in Nat
  BY ExperimentAssumption DEF SetupInv, IsSetup, AssertsHold, InMapping, IsExperiment
<1>2. CASE variant # "lazy"
  <2>1. \A k, j \in Numbers : ProbeOrder[k] = ProbeOrder[j] => k = j
    BY <1>2, FullList
  <2>2. ASSUME NEW l \in AheadLines PROVE l \in ToSet(ProbeOrder)
    <3>1. l \in 0..(Lines - 1) /\ Lines \in Nat
      BY AheadCandidates, PositiveSize DEF AllLines
    <3>2. l + 1 \in 1..Lines /\ (l + 1) - 1 = l
      BY <3>1
    <3>3. l + 1 \in DOMAIN ProbeOrder /\ ProbeOrder[l + 1] = l
      BY <1>1, <1>2, <3>2, FullList, SomethingProbed
    <3>4. QED
      BY <3>3 DEF ToSet
  <2>3. QED
    BY <2>1, <2>2
<1>3. CASE variant = "lazy"
  <2>1. PICK F \in Nat, B \in Nat :
          /\ Len(ProbeOrder) = F + B
          /\ \A k \in 1..F : ProbeOrder[k] = LineOf(exp.first + (k - 1) * exp.stride)
          /\ \A k \in (F + 1)..(F + B) : ProbeOrder[k] = LineOf(exp.first + (F - k) * exp.stride)
          /\ \A j \in Nat : InMapping(exp.first + j * exp.stride) => j < F
    BY <1>1, <1>3, LazyList
  <2> DEFINE hop(k) == IF k <= F THEN k - 1 ELSE F - k
  <2>2. ASSUME NEW k \in Numbers
        PROVE  hop(k) \in Int /\ ProbeOrder[k] = LineOf(exp.first + hop(k) * exp.stride)
    <3>1. k \in Int /\ (k \in 1..F \/ k \in (F + 1)..(F + B))
      BY <2>1 DEF Numbers
    <3>2. CASE k \in 1..F
      BY <2>1, <3>1, <3>2
    <3>3. CASE k \in (F + 1)..(F + B)
      BY <2>1, <3>1, <3>3
    <3>4. QED
      BY <3>1, <3>2, <3>3
  <2>3. Magnitude(exp.stride) >= LineSize /\ LineSize \in Nat \ {0}
    BY <1>3, LineSizeAssumption DEF SetupInv, IsSetup
  <2>4. ASSUME NEW a \in Int, NEW b \in Int, a > b,
               LineOf(exp.first + a * exp.stride) = LineOf(exp.first + b * exp.stride)
        PROVE  FALSE
    <3> DEFINE x == exp.first + a * exp.stride
               y == exp.first + b * exp.stride
    <3>1. x \in Int /\ y \in Int /\ x - y = exp.stride * (a - b)
      BY <1>1
    <3>2. x - y < LineSize /\ y - x < LineSize
      <4>1. x \in Int /\ y \in Int /\ LineOf(x) = LineOf(y)
        BY <2>4, <3>1
      <4> HIDE DEF x, y
      <4>2. QED
        BY <4>1, SameLine
    <3> HIDE DEF x, y
    <3>3. CASE exp.stride > 0
      <4>1. exp.stride >= LineSize /\ exp.stride * (a - b) >= exp.stride
        BY <1>1, <2>3, <2>4, <3>3, TimesGrows DEF Magnitude
      <4>2. QED
        BY <1>1, <2>3, <3>1, <3>2, <4>1
    <3>4. CASE exp.stride < 0
      <4>1. -exp.stride >= LineSize /\ (-exp.stride) * (a - b) >= -exp.stride
        BY <1>1, <2>3, <2>4, <3>4, TimesGrows DEF Magnitude
      <4>2. (-exp.stride) * (a - b) = -(exp.stride * (a - b))
        BY <1>1
      <4>3. QED
        BY <1>1, <2>3, <3>1, <3>2, <4>1, <4>2
    <3>5. QED
      BY <1>1, <3>3, <3>4
  <2>5. ASSUME NEW k \in Numbers, NEW j \in Numbers, ProbeOrder[k] = ProbeOrder[j] PROVE k = j
    <3> DEFINE a == hop(k)
               b == hop(j)
    <3>1. a \in Int /\ b \in Int
      BY <2>2
    <3>2. LineOf(exp.first + a * exp.stride) = LineOf(exp.first + b * exp.stride)
      BY <2>2, <2>5
    <3>3. a = b
      <4> HIDE DEF a, b
      <4>1. ~(a > b) /\ ~(b > a)
        BY <2>4, <3>1, <3>2
      <4>2. QED
        BY <3>1, <4>1
    <3>4. k \in Nat /\ j \in Nat /\ k >= 1 /\ j >= 1
      BY <2>1 DEF Numbers
    <3>5. QED
      BY <2>1, <3>3, <3>4
  <2>6. ASSUME NEW l \in AheadLines PROVE l \in ToSet(ProbeOrder)
    <3>1. PICK j \in Nat : /\ j >= exp.step /\ InMapping(exp.first + j * exp.stride)
                           /\ l = LineOf(exp.first + j * exp.stride)
      BY AheadOffset
    <3>2. j + 1 \in 1..F /\ (j + 1) - 1 = j
      BY <2>1, <3>1
    <3>3. ProbeOrder[j + 1] = l
      <4>1. ProbeOrder[j + 1] = LineOf(exp.first + ((j + 1) - 1) * exp.stride)
        BY <2>1, <3>2
      <4>2. QED
        BY <3>1, <3>2, <4>1
    <3>4. j + 1 \in DOMAIN ProbeOrder
      BY <1>1, <2>1, <3>2, SomethingProbed
    <3>5. QED
      BY <3>3, <3>4 DEF ToSet
  <2>7. QED
    BY <2>5, <2>6
<1>4. QED
  BY <1>2, <1>3

\* What the list is once the assertions have held.
LEMMA ListKnown ==
  ASSUME IInv, pc \notin {"assert", "aborted"}
  PROVE  /\ AssertsHold(exp, Size)
         /\ Len(ProbeOrder) \in Nat \ {0} /\ DOMAIN ProbeOrder = Numbers
<1>1. IsExperiment(exp) /\ AssertsHold(exp, Size)
  BY ExperimentAssumption DEF IInv, SetupInv, IsSetup, BoundsInv
<1>2. InMapping(exp.first) /\ exp.first \in Nat /\ exp.stride \in Int
  BY <1>1 DEF InMapping, AssertsHold, IsExperiment
<1>3. QED
  BY <1>1, <1>2, SomethingProbed DEF Numbers

\* Lines are counted, in the order of the list.
LEMMA LinesCounted ==
  ASSUME variant \notin Patterns
  PROVE  /\ Entries = AllLines /\ (\A l : Probed(l) = l) /\ ProbedLines = ToSet(ProbeOrder)
         /\ no_repetitions = Reps
BY DEF Patterns, Entries, Probed, ProbedLines, no_repetitions

\* What the next strides are does not change either.
LEMMA AheadStays ==
  ASSUME setup' = setup
  PROVE  AheadLines' = AheadLines /\ Found' = Found
<1>1. exp' = exp /\ variant' = variant /\ hw' = hw
  BY DEF setup
<1>2. QED
  BY <1>1 DEF AheadLines, Ahead, InMapping, Size, Found

\* What the next step of a probe is: the entry whose turn it is has one more.
LEMMA OneProbeMore ==
  ASSUME Len(ProbeOrder) \in Nat \ {0}, NEW n \in Nat, NEW k \in Numbers
  PROVE  /\ Probes(k, 0) = 0 /\ Probes(k, n) \in Nat
         /\ Probes(k, n + 1) =
              Probes(k, n) + IF k = (n % Len(ProbeOrder)) + 1 THEN 1 ELSE 0
<1> DEFINE L == Len(ProbeOrder)
           j == k - 1
           b == n % L
<1>1. k \in Int /\ j \in 0..(L - 1) /\ b \in Int
  BY DEF Numbers
<1>2. (k = b + 1) <=> (j = b)
  BY <1>1
<1>3. /\ Turns(j, 0, L) = 0 /\ Turns(j, n, L) \in Nat
      /\ Turns(j, n + 1, L) = Turns(j, n, L) + IF j = b THEN 1 ELSE 0
  <2>1. L \in Nat \ {0}
    OBVIOUS
  <2> HIDE DEF j, L
  <2>2. QED
    BY <1>1, <2>1, NextTurn, Zenon
<1>4. QED
  BY <1>2, <1>3, Zenon DEF Probes

\* An entry that always hit has 1000 to 2000 parts per thousand.
LEMMA ScaledBetween ==
  ASSUME Len(ProbeOrder) \in Nat \ {0}, Rounds(Reps, Len(ProbeOrder)) # 0, NEW k \in Numbers
  PROVE  Scaled(k) \in Nat /\ 1000 <= Scaled(k) /\ Scaled(k) <= 2000
<1> DEFINE L == Len(ProbeOrder)
           j == k - 1
<1>1. j \in 0..(L - 1) /\ L \in Nat \ {0} /\ Reps \in Nat
  BY ExperimentAssumption DEF Numbers
<1> HIDE DEF j, L
<1>2. Rounds(Reps, L) # 0
  BY DEF L
<1>3. /\ PerThousand(Turns(j, Reps, L), Rounds(Reps, L)) \in Nat
      /\ 1000 <= PerThousand(Turns(j, Reps, L), Rounds(Reps, L))
      /\ PerThousand(Turns(j, Reps, L), Rounds(Reps, L)) <= 2000
  BY <1>1, <1>2, TurnsScaled
<1>4. QED
  BY <1>3 DEF Scaled, Probes, j, L

\* Average() is a quotient of the sum that Arithmetic speaks of.
LEMMA AverageSum ==
  ASSUME NEW S
  PROVE  Average(S) = IF S = {} THEN 0 ELSE SumOver(hist, S) \div Cardinality(S)
BY Zenon DEF Average, MapThenSumSet, MapThenFoldSet, SumOver, IsSum, Picked

\* The threshold is at most half of a hit per round, and the lines of the next
\* strides have at least a whole one.
LEMMA AllFound ==
  ASSUME Noise < 1000, Divisor >= 2, IInv, FoundInv, Found, Evaluate
  PROVE  AheadLines \ WorkloadLines \subseteq vector'
<1> DEFINE hit == Average(HitEntries)
           miss == Average(MissEntries)
           list == ToSet(ProbeOrder)
<1>1. /\ pc = "evaluate" /\ variant \notin Patterns /\ Noise \in Nat /\ Divisor \in Nat \ {0}
      /\ SetupInv /\ hist \in [AllLines -> Nat]
  BY LinesCounted, ExperimentAssumption DEF Evaluate, Found, IInv, HistInv
<1>2. /\ AssertsHold(exp, Size) /\ Len(ProbeOrder) \in Nat \ {0} /\ DOMAIN ProbeOrder = Numbers
      /\ Rounds(Reps, Len(ProbeOrder)) # 0
  BY <1>1, ListKnown DEF FoundInv
<1>3. ASSUME NEW l \in AllLines, l \notin Present \intersect list PROVE hist[l] = 0
  BY <1>3 DEF FoundInv
<1>4. ASSUME NEW l \in AllLines, l \in Present \intersect list
      PROVE  hist[l] \in Nat /\ 1000 <= hist[l] /\ hist[l] <= 2000
  <2>1. PICK k \in Numbers : l = ProbeOrder[k]
    BY <1>2, <1>4 DEF ToSet
  <2>2. hist[l] = Scaled(k)
    BY <1>1, <1>4, <2>1 DEF FoundInv
  <2>3. QED
    BY <1>2, <2>2, ScaledBetween
<1> DEFINE lo == 0
           hi == 2000
<1>5. lo \in Nat /\ hi \in Nat
  OBVIOUS
<1>6. ASSUME NEW l \in AllLines PROVE hist[l] \in lo..hi
  <2> DEFINE count == hist[l]
  <2>1. count = 0 \/ (count \in Nat /\ 1000 <= count /\ count <= 2000)
    BY <1>3, <1>4
  <2> HIDE DEF count
  <2>2. count \in lo..hi
    BY <2>1
  <2>3. QED
    BY <2>2 DEF count
<1> HIDE DEF lo, hi
<1>7. IsFiniteSet(AllLines) /\ HitEntries \subseteq AllLines /\ MissEntries \subseteq AllLines
  <2>1. IsFiniteSet(AllLines)
    BY FS_Interval, PositiveSize DEF AllLines
  <2>2. QED
    BY <1>1, <2>1, LinesCounted DEF HitEntries, MissEntries
<1>8. hit \in Nat /\ hit <= 2000
  <2>1. CASE HitEntries = {}
    BY <2>1, AverageSum
  <2>2. CASE HitEntries # {}
    <3>1. IsFiniteSet(HitEntries) /\ \A l \in HitEntries : hist[l] \in lo..hi
      BY <1>6, <1>7, FS_Subset
    <3>2. SumOver(hist, HitEntries) \div Cardinality(HitEntries) \in lo..hi
      BY <1>5, <2>2, <3>1, AverageBetween
    <3>3. hit \in lo..hi
      BY <2>2, <3>2, AverageSum
    <3> HIDE DEF hit
    <3>4. QED
      BY <3>3 DEF lo, hi
  <2>3. QED
    BY <2>1, <2>2
<1>9. miss = 0
  <2>1. \A l \in MissEntries : hist[l] = 0
    BY <1>1, <1>2, <1>3, MissAbsent
  <2>2. \A l \in MissEntries : hist[l] \in 0..0
    BY <2>1
  <2>3. IsFiniteSet(MissEntries)
    BY <1>7, FS_Subset
  <2>4. MissEntries # {} => SumOver(hist, MissEntries) \div Cardinality(MissEntries) \in 0..0
    BY <2>2, <2>3, AverageBetween
  <2>5. QED
    BY <2>4, AverageSum
<1> DEFINE part == hit \div Divisor
<1>10. part \in 0..1000
  <2> HIDE DEF hit
  <2>1. hit \in Nat /\ Divisor * 0 <= hit /\ hit <= Divisor * 1000
    BY <1>1, <1>8
  <2>2. QED
    BY <1>1, <2>1, DivBetween
<1>11. prefetch_thresh \in 1..1000
  <2>1. prefetch_thresh = LET thresh == IF hit >= miss THEN miss + ((hit - miss) \div Divisor) ELSE Huge
                          IN  IF thresh = 0 THEN 1 ELSE thresh
    BY DEF prefetch_thresh
  <2> HIDE DEF hit, miss
  <2>2. hit >= miss /\ hit - miss = hit
    BY <1>8, <1>9
  <2>3. miss + ((hit - miss) \div Divisor) = part
    BY <1>9, <1>10, <2>2
  <2>4. prefetch_thresh = IF part = 0 THEN 1 ELSE part
    BY <2>1, <2>2, <2>3
  <2>5. QED
    BY <1>10, <2>4
<1>12. ASSUME NEW l \in AheadLines \ WorkloadLines PROVE l \in vector'
  <2>1. l \in AllLines /\ l \in CandidateEntries /\ l \in Present \intersect list
    BY <1>1, <1>2, AheadCandidates, ListOnce DEF Present
  <2> DEFINE count == hist[l]
             thresh == prefetch_thresh
  <2>2. count \in Nat /\ 1000 <= count
    BY <1>4, <2>1
  <2>3. thresh \in 1..1000
    BY <1>11
  <2> HIDE DEF count, thresh
  <2>4. count > Noise /\ count >= thresh
    BY <1>1, <2>2, <2>3
  <2>5. QED
    BY <2>1, <2>4 DEF Evaluate, count, thresh
<1>13. QED
  BY <1>12

\* A probe of a line that is present hits, and is counted for its entry only.
LEMMA FoundProbe ==
  ASSUME IInv, FoundInv, Found, Probe
  PROVE  /\ \A l \in AllLines : l \notin Present \intersect ToSet(ProbeOrder) => hist'[l] = 0
         /\ \A k \in Numbers : ProbeOrder[k] \in AllLines \intersect Present =>
              hist'[ProbeOrder[k]] = Probes(k, rep + 1)
<1> DEFINE list == ToSet(ProbeOrder)
           m == (rep % Len(ProbeOrder)) + 1
           hit == IF probe_index \in cache THEN 1 ELSE 0
<1>1. /\ pc = "probe" /\ variant \notin Patterns /\ rep \in Nat /\ hist \in [AllLines -> Nat]
      /\ SetupInv
      /\ hist' = [hist EXCEPT ![probe_index] = hist[probe_index] + hit]
  <2>1. variant \notin Patterns /\ Entries = AllLines /\ Probed(probe_index) = probe_index
    BY LinesCounted DEF Found
  <2>2. hist' = [hist EXCEPT ![probe_index] =
                   hist[probe_index] + IF Probed(probe_index) \in cache THEN 1 ELSE 0]
    BY DEF Probe
  <2>3. QED
    BY <2>1, <2>2 DEF Probe, IInv, HistInv
<1>2. /\ AssertsHold(exp, Size) /\ Len(ProbeOrder) \in Nat \ {0} /\ DOMAIN ProbeOrder = Numbers
  BY <1>1, ListKnown
<1>3. m \in Numbers /\ probe_index = ProbeOrder[m] /\ probe_index \in list
  BY <1>1, <1>2, IndexInRange DEF probe_index, Numbers, ToSet
<1>4. hit = IF probe_index \in Present THEN 1 ELSE 0
  <2>1. cache \intersect list = Present \intersect list
    BY <1>1, LinesCounted DEF FoundInv
  <2>2. QED
    BY <1>3, <2>1
<1> HIDE DEF hit, m
<1>5. hit \in Nat
  BY <1>4
<1>6. ASSUME NEW l \in AllLines
      PROVE  hist'[l] = IF l = probe_index THEN hist[l] + hit ELSE hist[l]
  BY <1>1
<1>7. ASSUME NEW l \in AllLines, l \notin Present \intersect list PROVE hist'[l] = 0
  <2>1. hist[l] = 0
    BY <1>7 DEF FoundInv
  <2>2. l = probe_index => hit = 0
    BY <1>3, <1>4, <1>7
  <2>3. QED
    BY <1>6, <2>1, <2>2
<1>8. ASSUME NEW k \in Numbers, ProbeOrder[k] \in AllLines \intersect Present
      PROVE  hist'[ProbeOrder[k]] = Probes(k, rep + 1)
  <2> DEFINE l == ProbeOrder[k]
  <2>1. hist[l] = Probes(k, rep)
    BY <1>1, <1>8 DEF FoundInv
  <2>2. Probes(k, rep) \in Nat /\ Probes(k, rep + 1) = Probes(k, rep) + IF k = m THEN 1 ELSE 0
    BY <1>1, <1>2, OneProbeMore DEF m
  <2>3. l = probe_index <=> k = m
    BY <1>1, <1>2, <1>3, ListOnce
  <2>4. CASE k = m
    <3>1. hit = 1
      BY <1>4, <1>8, <2>3, <2>4
    <3>2. hist'[l] = hist[l] + hit
      BY <1>6, <1>8, <2>3, <2>4
    <3>3. QED
      BY <2>1, <2>2, <2>4, <3>1, <3>2
  <2>5. CASE k # m
    <3>1. hist'[l] = hist[l]
      BY <1>6, <1>8, <2>3, <2>5
    <3>2. Probes(k, rep + 1) = Probes(k, rep) + 0
      BY <2>2, <2>5
    <3>3. QED
      BY <2>1, <2>2, <3>1, <3>2
  <2>6. QED
    BY <2>4, <2>5
<1>9. QED
  BY <1>7, <1>8

\* Each entry is normalized once.
LEMMA FoundNormalize ==
  ASSUME IInv, FoundInv, Found, Normalize, pc' # "aborted"
  PROVE  /\ Rounds(Reps, Len(ProbeOrder)) # 0
         /\ \A l \in AllLines : l \notin Present \intersect ToSet(ProbeOrder) => hist'[l] = 0
         /\ \A k \in Numbers : ProbeOrder[k] \in AllLines \intersect Present =>
              hist'[ProbeOrder[k]] = IF k <= rep + 1 THEN Scaled(k) ELSE Probes(k, Reps)
<1> DEFINE rounds == Rounds(Reps, Len(ProbeOrder))
           n == rep + 1
           i == ProbeOrder[n]
           v == PerThousand(hist[i], rounds)
<1>1. /\ pc = "normalize" /\ variant \notin Patterns /\ rep \in Nat /\ hist \in [AllLines -> Nat]
      /\ SetupInv /\ no_repetitions = Reps /\ Reps \in Nat
  BY LinesCounted, ExperimentAssumption DEF Normalize, Found, IInv, HistInv
<1>2. /\ AssertsHold(exp, Size) /\ Len(ProbeOrder) \in Nat \ {0} /\ DOMAIN ProbeOrder = Numbers
  BY <1>1, ListKnown
<1>3. n \in Numbers /\ i \in ToSet(ProbeOrder)
  <2>1. rep < Len(ProbeOrder)
    BY <1>1 DEF FoundInv
  <2>2. n \in Numbers
    BY <1>1, <1>2, <2>1 DEF Numbers
  <2>3. QED
    BY <1>2, <2>2 DEF ToSet
<1>4. rounds # 0 /\ hist' = [hist EXCEPT ![i] = v]
  BY <1>1 DEF Normalize, Rounds, PerThousand
<1>5. rounds \in Nat \ {0}
  BY <1>1, <1>2, <1>4, QuotientNat DEF Rounds
<1> HIDE DEF rounds, v, i, n
<1>6. ASSUME NEW l \in AllLines PROVE hist'[l] = IF l = i THEN v ELSE hist[l]
  BY <1>1, <1>4
<1>7. ASSUME NEW l \in AllLines, l \notin Present \intersect ToSet(ProbeOrder) PROVE hist'[l] = 0
  <2>1. hist[l] = 0
    BY <1>7 DEF FoundInv
  <2>2. l = i => v = 0
    <3>1. (0 * 1000) \div rounds = 0
      BY <1>5, ScaledType
    <3>2. QED
      BY <2>1, <3>1 DEF v, PerThousand
  <2>3. QED
    BY <1>6, <2>1, <2>2
<1>8. ASSUME NEW k \in Numbers, ProbeOrder[k] \in AllLines \intersect Present
      PROVE  hist'[ProbeOrder[k]] = IF k <= rep + 1 THEN Scaled(k) ELSE Probes(k, Reps)
  <2> DEFINE l == ProbeOrder[k]
  <2>1. hist[l] = IF k <= rep THEN Scaled(k) ELSE Probes(k, Reps)
    BY <1>1, <1>8 DEF FoundInv
  <2>2. l = i <=> k = n
    BY <1>1, <1>2, <1>3, ListOnce DEF i
  <2>3. k \in Int /\ n = rep + 1
    BY <1>2 DEF Numbers, n
  <2>4. CASE k = n
    <3>1. hist'[l] = v
      BY <1>6, <1>8, <2>2, <2>4
    <3>2. hist[l] = Probes(k, Reps) /\ hist[i] = hist[l]
      BY <1>1, <2>1, <2>2, <2>3, <2>4
    <3>3. v = Scaled(k)
      BY <3>2 DEF v, Scaled, rounds
    <3>4. QED
      BY <1>1, <2>3, <2>4, <3>1, <3>3
  <2>5. CASE k # n
    <3>1. hist'[l] = hist[l]
      BY <1>6, <1>8, <2>2, <2>5
    <3>2. k <= rep <=> k <= rep + 1
      BY <1>1, <2>3, <2>5
    <3>3. QED
      BY <2>1, <3>1, <3>2
  <2>6. QED
    BY <2>4, <2>5
<1>9. QED
  BY <1>4, <1>7, <1>8 DEF rounds

LEMMA FreshFound == Fresh => FoundInv
<1> SUFFICES ASSUME Fresh, Found PROVE FoundInv
  BY DEF FoundInv
<1>1. pc = "assert" /\ rep = 0 /\ \A l \in AllLines : hist[l] = 0
  BY LinesCounted DEF Fresh, Found
<1>2. QED
  BY <1>1 DEF FoundInv

LEMMA FoundNext ==
  ASSUME Noise < 1000, Divisor >= 2
  PROVE  IInv /\ FoundInv /\ [Next]_vars => FoundInv'
<1> SUFFICES ASSUME IInv, FoundInv, [Next]_vars PROVE FoundInv'
  OBVIOUS
<1>0. Found' = Found
  BY NextKeeps, AheadStays
<1> SUFFICES ASSUME Found PROVE FoundInv'
  BY <1>0 DEF FoundInv
<1>1. /\ ProbeOrder' = ProbeOrder /\ ProbedLines' = ProbedLines
      /\ WorkloadLines' = WorkloadLines /\ AheadLines' = AheadLines
  BY NextKeeps, SetupStays, AheadStays
<1>2. /\ variant \notin Patterns /\ ProbedLines = ToSet(ProbeOrder) /\ no_repetitions = Reps
      /\ hw = "stride" /\ rep \in Nat /\ Reps \in Nat
  BY LinesCounted, ExperimentAssumption DEF Found, IInv
\* The setup stays, and what is left to show speaks of the same lines.
<1>3. ASSUME pc' = "assert" => rep' = 0 /\ \A l \in AllLines : hist'[l] = 0,
             pc' = "wait" => WorkloadLines \intersect ProbedLines \subseteq cache',
             pc' = "probe" => cache' \intersect ProbedLines = Present \intersect ProbedLines,
             pc' = "normalize" => rep' < Len(ProbeOrder),
             pc' \in {"evaluate", "done"} => Rounds(Reps, Len(ProbeOrder)) # 0,
             \A l \in AllLines : l \notin Present \intersect ToSet(ProbeOrder) => hist'[l] = 0,
             \A k \in Numbers :
               ProbeOrder[k] \in AllLines \intersect Present =>
                 /\ pc' \in {"flush", "workload", "wait", "probe"} =>
                      hist'[ProbeOrder[k]] = Probes(k, rep')
                 /\ pc' = "normalize" =>
                      hist'[ProbeOrder[k]] = IF k <= rep' THEN Scaled(k) ELSE Probes(k, Reps)
                 /\ pc' \in {"evaluate", "done"} => hist'[ProbeOrder[k]] = Scaled(k),
             pc' = "done" => AheadLines \ WorkloadLines \subseteq vector'
      PROVE  FoundInv'
  BY <1>1, <1>3 DEF FoundInv, Present, Numbers, Probes, Scaled, AllLines
<1>4. CASE CheckBounds
  <2>1. hist' = hist /\ rep' = rep /\ pc = "assert" /\ pc' \in {"flush", "aborted"}
    BY <1>4 DEF CheckBounds
  <2>2. rep = 0 /\ \A l \in AllLines : hist[l] = 0
    BY <2>1 DEF FoundInv
  <2>3. ASSUME pc' = "flush", NEW k \in Numbers PROVE Probes(k, 0) = 0
    <3>1. AssertsHold(exp, Size)
      BY <1>4, <2>3 DEF CheckBounds
    <3>2. /\ IsExperiment(exp) /\ InMapping(exp.first) /\ exp.first \in Nat /\ exp.stride \in Int
      BY <3>1, ExperimentAssumption DEF IInv, SetupInv, IsSetup, InMapping, AssertsHold, IsExperiment
    <3>3. QED
      BY <3>2, SomethingProbed, OneProbeMore
  <2>4. QED
    BY <1>3, <2>1, <2>2, <2>3
<1>5. CASE Flush
  <2>1. hist' = hist /\ rep' = rep /\ pc = "flush" /\ pc' = "workload"
    BY <1>5 DEF Flush
  <2>2. QED
    BY <1>3, <2>1 DEF FoundInv
<1>6. CASE Workload
  <2>1. /\ hist' = hist /\ rep' = rep /\ pc = "workload" /\ pc' = "wait"
        /\ cache' = cache \union WorkloadLines
    BY <1>6 DEF Workload
  <2>2. QED
    BY <1>3, <2>1 DEF FoundInv
<1>7. CASE Prefetch
  <2>1. /\ hist' = hist /\ rep' = rep /\ pc = "wait" /\ pc' = "probe"
        /\ cache' = cache \union AheadLines
    BY <1>2, <1>7 DEF Prefetch
  <2>2. cache' \intersect ProbedLines = Present \intersect ProbedLines
    BY <2>1 DEF IInv, CacheInv, FoundInv, Present
  <2>3. QED
    BY <1>3, <2>1, <2>2 DEF FoundInv
<1>8. CASE Probe
  <2>1. /\ pc = "probe"
        /\ rep' = IF rep + 1 = Reps THEN 0 ELSE rep + 1
        /\ pc' = IF rep + 1 = Reps THEN "normalize" ELSE "flush"
    BY <1>2, <1>8 DEF Probe
  <2>2. /\ \A l \in AllLines : l \notin Present \intersect ToSet(ProbeOrder) => hist'[l] = 0
        /\ \A k \in Numbers : ProbeOrder[k] \in AllLines \intersect Present =>
             hist'[ProbeOrder[k]] = Probes(k, rep + 1)
    BY <1>8, FoundProbe
  <2>3. 0 < Len(ProbeOrder) /\ \A k \in Numbers : ~(k <= 0)
    BY <2>1, ListKnown DEF Numbers
  <2>4. QED
    BY <1>3, <2>1, <2>2, <2>3
<1>9. CASE Normalize
  <2>1. pc = "normalize" /\ pc' \in {"aborted", "evaluate", "normalize"}
    BY <1>9 DEF Normalize
  <2>2. CASE pc' = "aborted"
    <3>1. hist' = hist
      BY <1>9, <2>2 DEF Normalize
    <3>2. QED
      BY <1>3, <2>2, <3>1 DEF FoundInv
  <2>3. CASE pc' # "aborted"
    <3>1. rep' = rep + 1 /\ pc' = IF rep + 1 = Len(ProbeOrder) THEN "evaluate" ELSE "normalize"
      BY <1>9, <2>3 DEF Normalize
    <3>2. /\ Rounds(Reps, Len(ProbeOrder)) # 0
          /\ \A l \in AllLines : l \notin Present \intersect ToSet(ProbeOrder) => hist'[l] = 0
          /\ \A k \in Numbers : ProbeOrder[k] \in AllLines \intersect Present =>
               hist'[ProbeOrder[k]] = IF k <= rep + 1 THEN Scaled(k) ELSE Probes(k, Reps)
      BY <1>9, <2>3, FoundNormalize
    <3>3. rep < Len(ProbeOrder) /\ Len(ProbeOrder) \in Nat
      BY <2>1, ListKnown DEF FoundInv
    <3>4. pc' = "normalize" => rep' < Len(ProbeOrder)
      BY <1>2, <3>1, <3>3
    <3>5. pc' = "evaluate" => \A k \in Numbers : k <= rep + 1
      BY <3>1, <3>3 DEF Numbers
    <3>6. QED
      BY <1>3, <3>1, <3>2, <3>4, <3>5
  <2>4. QED
    BY <2>2, <2>3
<1>10. CASE Evaluate
  <2>1. hist' = hist /\ rep' = rep /\ pc = "evaluate" /\ pc' = "done"
    BY <1>10 DEF Evaluate
  <2>2. AheadLines \ WorkloadLines \subseteq vector'
    BY <1>10, AllFound
  <2>3. QED
    BY <1>3, <2>1, <2>2 DEF FoundInv
<1>11. CASE UNCHANGED vars
  <2>1. hist' = hist /\ rep' = rep /\ pc' = pc /\ cache' = cache /\ vector' = vector
    BY <1>11 DEF vars
  <2>2. QED
    BY <1>3, <2>1 DEF FoundInv
<1>12. QED
  BY <1>4, <1>5, <1>6, <1>7, <1>8, <1>9, <1>10, <1>11 DEF Next, Step, Ended

\* A prefetcher that always fetches the next strides is found at each of their
\* lines that the experiment does not access itself, whatever the mapping, the
\* experiment and the number of repetitions, if the noise is below one hit per
\* round and the threshold at most half of the difference between hits and
\* misses (the source has 1/64, testcase_stride_strideexperiment.cc:681).  In
\* the histogram over bytes, "2D", the misses share lines with the hits and their
\* average is not known.
THEOREM StridePrefetcherFound ==
  ASSUME Noise < 1000, Divisor >= 2
  PROVE  Spec => [](variant # "2D" => PrefetcherFound)
<1>1. FoundInv => (variant # "2D" => PrefetcherFound)
  BY DEF FoundInv, Found, PrefetcherFound
<1>2. IInv /\ FoundInv /\ [Next]_vars => IInv' /\ FoundInv'
  BY NextInv, FoundNext
<1>3. QED
  BY <1>1, <1>2, InitFresh, FreshInv, FreshFound, PTL DEF Spec

------------------------------------------------------------------------------
\* Experiments one after the other: the tests

\* A fresh experiment stays one under a prime.
LEMMA FreshNext == Fresh' => IInv' /\ FoundInv'
BY FreshInv, FreshFound, PTL

\* A list that is given by its elements.
LEMMA ListOf ==
  ASSUME NEW N \in Nat, NEW f, DOMAIN f = 1..N, f = [n \in 1..N |-> f[n]]
  PROVE  Len(f) = N
<1> DEFINE S == {f[n] : n \in 1..N}
<1>1. f \in [1..N -> S]
  OBVIOUS
<1> HIDE DEF S
<1>2. QED
  BY <1>1, FunctionIsSequence

\* What the tests run, but for the prefetcher.
IsRun(x) == IsSetup([exp |-> x.exp, variant |-> x.variant, tail |-> x.tail, hw |-> "off"])

LEMMA LoopIsRun ==
  ASSUME NEW e, IsExperiment(e)
  PROVE  IsRun(Loop(e))
BY DEF IsRun, IsSetup, Loop, Patterns

LEMMA OtherPcIsRun ==
  ASSUME NEW e, IsExperiment(e), NEW b
  PROVE  IsRun([Loop(e) EXCEPT !.bits = b])
BY DEF IsRun, IsSetup, Loop, Patterns

LEMMA RandomIsRun ==
  ASSUME NEW e, IsExperiment(e), NEW r
  PROVE  IsRun([Loop(e) EXCEPT !.random = r])
BY DEF IsRun, IsSetup, Loop, Patterns

LEMMA LazyIsRun ==
  ASSUME NEW e, IsExperiment(e), Magnitude(e.stride) >= LineSize
  PROVE  IsRun([Loop(e) EXCEPT !.variant = "lazy"])
BY DEF IsRun, IsSetup, Loop, Patterns

LEMMA InTwoIsRun ==
  ASSUME NEW e, IsExperiment(e), e.stride > 0, NEW n \in 1..e.step, NEW b
  PROVE  IsRun(InTwo(e, n, b))
BY DEF IsRun, IsSetup, InTwo, Loop, Patterns, IsExperiment

LEMMA ExperimentType ==
  ASSUME NEW stride \in Int \ {0}, NEW step \in Nat \ {0}, NEW first \in Nat
  PROVE  /\ IsExperiment(Experiment(stride, step, first))
         /\ Experiment(stride, step, first).stride = stride
         /\ Experiment(stride, step, first).step = step
BY DEF Experiment, IsExperiment

LEMMA FirstOffset ==
  ASSUME NEW stride
  PROVE  FirstAccess(stride) \in Nat
<1>1. Lines \in Nat \ {0} /\ LineSize \in Nat \ {0}
  BY PositiveSize, LineSizeAssumption
<1>2. (Lines - 1) * LineSize \in Nat
  BY <1>1
<1>3. QED
  BY <1>2 DEF FirstAccess

LEMMA TestedStrideLines ==
  ASSUME NEW i \in 1..(2 * (Doublings + 1))
  PROVE  TestedStride(i) \in Int \ {0} /\ Magnitude(TestedStride(i)) >= LineSize
<1> DEFINE k == IF i <= Doublings + 1 THEN i - 1 ELSE i - Doublings - 2
           p == 2 ^ k
<1>1. Doublings \in Nat /\ LineSize \in Nat \ {0}
  BY TestsAssumption, LineSizeAssumption
<1>2. k \in Nat
  BY <1>1
<1>3. p \in Nat \ {0}
  BY <1>2, Powers
<1>4. TestedStride(i) = IF i <= Doublings + 1 THEN -(p * LineSize) ELSE p * LineSize
  BY DEF TestedStride
<1> HIDE DEF p
<1>5. p * LineSize \in Int /\ p * LineSize >= LineSize
  <2>1. LineSize * p >= LineSize
    BY <1>1, <1>3, TimesGrows
  <2>2. QED
    BY <1>1, <1>3, <2>1
<1>6. QED
  BY <1>1, <1>4, <1>5 DEF Magnitude

\* Each test has a list of experiments that the collections can run.
LEMMA ExperimentsAreRuns ==
  ASSUME test \in Tests
  PROVE  \E N \in Nat \ {0} : /\ DOMAIN Experiments = 1..N /\ Len(Experiments) = N
                              /\ \A n \in 1..N : IsRun(Experiments[n])
<1>1. /\ Stride \in Nat \ {0} /\ Steps \in Nat /\ Steps >= 2 /\ MaxSteps \in Nat /\ MaxSteps >= 2
      /\ RandomSteps \in Nat \ {0} /\ Doublings \in Nat /\ LineSize \in Nat /\ LineSize >= 4
      /\ CorrFrom \in Nat \ {0} /\ CorrTo \in Nat /\ CorrFrom <= CorrTo /\ CorrStride \in Nat \ {0}
      /\ DirectionStride \in Nat \ {0} /\ DirectionSteps \in Nat \ {0}
      /\ MinBits \in Nat /\ MaxBits \in Nat /\ MinBits <= MaxBits
  BY TestsAssumption, LineSizeAssumption, CodeAssumption
<1>2. test \in TestNames
  BY TestsAssumption
<1>3. ASSUME NEW N \in Nat \ {0}, DOMAIN Experiments = 1..N,
             Experiments = [n \in 1..N |-> Experiments[n]],
             \A n \in 1..N : IsRun(Experiments[n])
      PROVE  \E M \in Nat \ {0} : /\ DOMAIN Experiments = 1..M /\ Len(Experiments) = M
                                  /\ \A n \in 1..M : IsRun(Experiments[n])
  BY <1>3, ListOf
<1>4. CASE test \in {"same_pc_different_memory", "different_pc_different_memory"}
  <2>1. PICK bits : Experiments = TwoMappings(bits)
    BY <1>4 DEF Experiments
  <2>2. /\ (Steps - 1) * Stride \in Nat /\ (Steps - 2) * Stride \in Nat
        /\ 1 \in 1..Steps /\ 2 \in 1..Steps
    BY <1>1
  <2>3. /\ IsRun(InTwo(Base, 1, bits)) /\ IsRun(InTwo(Base, 2, bits))
        /\ IsRun(Loop(Experiment(Stride, 1, (Steps - 1) * Stride)))
        /\ IsRun(Loop(Experiment(Stride, 2, (Steps - 2) * Stride)))
    <3>1. /\ IsExperiment(Base) /\ Base.stride = Stride /\ Base.step = Steps
          /\ IsExperiment(Experiment(Stride, 1, (Steps - 1) * Stride))
          /\ IsExperiment(Experiment(Stride, 2, (Steps - 2) * Stride))
      BY <1>1, <2>2, ExperimentType DEF Base
    <3>2. QED
      BY <1>1, <2>2, <3>1, LoopIsRun, InTwoIsRun
  <2>4. QED
    BY <2>1, <2>3 DEF TwoMappings
<1>5. CASE test = "different_pc_same_memory"
  <2>1. Experiments = DifferentPc
    BY <1>5 DEF Experiments
  <2>2. IsRun([Loop(Base) EXCEPT !.bits = 0]) /\ IsRun(Loop(Base))
    <3>1. IsExperiment(Base)
      BY <1>1, ExperimentType DEF Base
    <3>2. QED
      BY <3>1, LoopIsRun, OtherPcIsRun
  <2>3. QED
    BY <2>1, <2>2 DEF DifferentPc
<1>6. CASE test = "no_prefetches"
  <2>1. Experiments = NoPrefetches
    BY <1>6 DEF Experiments
  <2>2. ASSUME NEW n \in 1..(MaxSteps - 1) PROVE IsRun(Experiments[n])
    <3>1. IsExperiment(Experiment(Stride, n + 1, 0))
      BY <1>1, ExperimentType
    <3>2. Experiments[n] = Loop(Experiment(Stride, n + 1, 0))
      BY <2>1 DEF NoPrefetches
    <3>3. QED
      BY <3>1, <3>2, LoopIsRun
  <2>3. QED
    BY <1>1, <1>3, <2>1, <2>2 DEF NoPrefetches
<1>7. CASE test = "min_max_stride"
  <2>1. Experiments = MinMaxStride
    BY <1>7 DEF Experiments
  <2>2. ASSUME NEW n \in 1..(2 * (Doublings + 1)) PROVE IsRun(Experiments[n])
    <3> DEFINE e == Experiment(TestedStride(n), Steps, FirstAccess(TestedStride(n)))
    <3>1. IsExperiment(e) /\ Magnitude(e.stride) >= LineSize
      BY <1>1, ExperimentType, FirstOffset, TestedStrideLines
    <3>2. Experiments[n] = [Loop(e) EXCEPT !.variant = "lazy"]
      BY <2>1 DEF MinMaxStride
    <3> HIDE DEF e
    <3>3. QED
      BY <3>1, <3>2, LazyIsRun
  <2>3. QED
    BY <1>1, <1>3, <2>1, <2>2 DEF MinMaxStride
<1>8. CASE test \in {"pc_collision_1acc", "pc_collision_2acc"}
  <2>1. PICK accesses \in 1..Steps : Experiments = PcCollision(accesses)
    BY <1>1, <1>8 DEF Experiments
  <2> DEFINE N == MaxBits - MinBits + 1
             bits(n) == CollidingBits(get_maccess_functions(MinBits + n - 1))
  <2>2. Experiments = [n \in 1..N |-> InTwo(Base, accesses, bits(n))]
    BY <2>1 DEF PcCollision
  <2>3. N \in Nat \ {0}
    BY <1>1
  <2>4. IsExperiment(Base) /\ Base.stride = Stride /\ Base.step = Steps
    BY <1>1, ExperimentType DEF Base
  <2> HIDE DEF N, bits
  <2>5. \A n \in 1..N : IsRun(Experiments[n])
    BY <1>1, <2>2, <2>4, InTwoIsRun
  <2>6. DOMAIN Experiments = 1..N /\ Experiments = [n \in 1..N |-> Experiments[n]]
    BY <2>2
  <2>7. QED
    BY <1>3, <2>3, <2>5, <2>6
<1>9. CASE test = "stride_less_than_cl_size"
  <2>1. Experiments = LessThanLine
    BY <1>9 DEF Experiments
  <2>2. LineSize \div 4 \in Nat \ {0}
    BY <1>1
  <2>3. IsRun(Loop(Experiment(LineSize \div 4, 4, 0))) /\ IsRun(Loop(Experiment(LineSize, 1, 0)))
    BY <1>1, <2>2, ExperimentType, LoopIsRun
  <2>4. QED
    BY <2>1, <2>3 DEF LessThanLine
<1>10. CASE test = "random_offset_within_cl"
  <2>1. Experiments = RandomOffset
    BY <1>10 DEF Experiments
  <2>2. ASSUME NEW n \in 1..8 PROVE RandomStride(n) \in Int \ {0}
    <3>1. (n + 1) \div 2 \in 1..4
      OBVIOUS
    <3>2. <<-1, -3, 1, 3>>[(n + 1) \div 2] \in {-1, -3, 1, 3}
      BY <3>1
    <3>3. QED
      BY <1>1, <3>2 DEF RandomStride
  <2> DEFINE e(n) == Experiment(RandomStride(n), RandomSteps, FirstAccess(RandomStride(n)))
  <2>3. Experiments = [n \in 1..8 |-> [Loop(e(n)) EXCEPT !.random = (n % 2 = 1)]]
    BY <2>1 DEF RandomOffset
  <2>4. \A n \in 1..8 : IsExperiment(e(n))
    BY <1>1, <2>2, ExperimentType, FirstOffset
  <2> HIDE DEF e
  <2>5. \A n \in 1..8 : IsRun(Experiments[n])
    BY <2>3, <2>4, RandomIsRun
  <2>6. DOMAIN Experiments = 1..8 /\ Experiments = [n \in 1..8 |-> Experiments[n]]
    BY <2>3
  <2>7. QED
    BY <1>3, <2>5, <2>6
<1>11. CASE test = "cross_page_boundary"
  <2>1. Experiments = CrossPage
    BY <1>11 DEF Experiments
  <2>2. PageLines * LineSize - Steps * Stride \in Nat
    BY TestsAssumption, LineSizeAssumption
  <2>3. IsRun(Loop(Experiment(Stride, Steps, PageLines * LineSize - Steps * Stride)))
    BY <1>1, <2>2, ExperimentType, LoopIsRun
  <2>4. QED
    BY <2>1, <2>3 DEF CrossPage
<1>12. CASE test = "overview"
  <2> DEFINE N == 2 * (Doublings + 1) * MaxSteps
  <2>1. Experiments = Overview
    BY <1>12 DEF Experiments
  <2>2. N \in Nat \ {0}
    BY <1>1
  <2>3. ASSUME NEW n \in 1..N PROVE IsRun(Experiments[n])
    <3> DEFINE i == ((n - 1) \div MaxSteps) + 1
               step == ((n - 1) % MaxSteps) + 1
    <3>1. step \in Nat \ {0}
      BY <1>1
    <3>2. i \in 1..(2 * (Doublings + 1))
      <4> DEFINE q == (n - 1) \div MaxSteps
                 r == (n - 1) % MaxSteps
                 D == 2 * (Doublings + 1)
      <4>1. q \in Nat /\ r \in Nat /\ n - 1 = MaxSteps * q + r /\ D \in Nat
        BY <1>1
      <4>2. n - 1 < D * MaxSteps
        BY <2>2
      <4> HIDE DEF q, r, D
      <4>3. CASE q >= D
        <5>1. MaxSteps * (q - D) >= 0 /\ MaxSteps * (q - D) = MaxSteps * q - D * MaxSteps
          BY <1>1, <4>1, <4>3
        <5>2. QED
          BY <1>1, <4>1, <4>2, <5>1
      <4>4. QED
        BY <4>1, <4>3 DEF q, D
    <3>3. Experiments[n] = Loop(Experiment(TestedStride(i), step, FirstAccess(TestedStride(i))))
      BY <2>1 DEF Overview
    <3> HIDE DEF i, step
    <3>4. IsExperiment(Experiment(TestedStride(i), step, FirstAccess(TestedStride(i))))
      BY <3>1, <3>2, ExperimentType, FirstOffset, TestedStrideLines
    <3>5. QED
      BY <3>3, <3>4, LoopIsRun
  <2>4. QED
    BY <1>3, <2>1, <2>2, <2>3 DEF Overview
<1>13. CASE test = "load_pref_corr"
  <2>1. Experiments = LoadPrefCorr
    BY <1>13 DEF Experiments
  <2> DEFINE N == CorrTo - CorrFrom + 1
             e(n) == Experiment(CorrStride, CorrFrom + n - 1, 0)
  <2>2. Experiments = [n \in 1..N |-> Loop(e(n))] /\ N \in Nat \ {0}
    BY <1>1, <2>1 DEF LoadPrefCorr
  <2>3. \A n \in 1..N : IsExperiment(e(n))
    BY <1>1, ExperimentType
  <2> HIDE DEF N, e
  <2>4. \A n \in 1..N : IsRun(Experiments[n])
    BY <2>2, <2>3, LoopIsRun
  <2>5. DOMAIN Experiments = 1..N /\ Experiments = [n \in 1..N |-> Experiments[n]]
    BY <2>2
  <2>6. QED
    BY <1>3, <2>2, <2>4, <2>5
<1>14. CASE test = "direction"
  <2>1. Experiments = Direction
    BY <1>14 DEF Experiments
  <2>2. {1, 2} = 1..2 /\ \A n \in {1, 2} : <<DirectionStride, -DirectionStride>>[n] \in Int \ {0}
    BY <1>1
  <2>3. \A n \in 1..2 : IsRun(Experiments[n])
    BY <1>1, <2>1, <2>2, ExperimentType, LoopIsRun, FirstOffset DEF Direction
  <2>4. QED
    BY <1>3, <2>1, <2>2, <2>3 DEF Direction
<1>15. CASE test = "2D_steps"
  <2>1. Experiments = <<[Loop(Pattern) EXCEPT !.variant = "2D"]>>
    BY <1>15 DEF Experiments, TwoDSteps
  <2>2. PatternStride \in Nat \ {0} /\ PatternGap \in Nat \ {0}
    BY TestsAssumption
  <2>3. PatternGap * PatternStride # 0 /\ 0 * (PatternStride + 1) = 0
    BY <2>2
  <2>4. IsPattern(Pattern) /\ Pattern.plus \in Nat
    BY <2>2, <2>3 DEF IsPattern, Pattern, IsExperiment, Period
  <2>5. IsRun([Loop(Pattern) EXCEPT !.variant = "2D"])
    BY <2>4 DEF IsRun, IsSetup, Loop, Patterns, IsPattern
  <2>6. QED
    BY <2>1, <2>5
<1>16. QED
  BY <1>2, <1>4, <1>5, <1>6, <1>7, <1>8, <1>9, <1>10, <1>11, <1>12, <1>13, <1>14, <1>15
  DEF TestNames

\* The setup of this prefetcher for an experiment.
LEMMA RunsOnMachine ==
  ASSUME NEW x, IsRun(x)
  PROVE  IsSetup(OnMachine(x))
BY DEF IsRun, IsSetup, OnMachine

\* The experiment that runs is the one behind those that have their vectors.
Current == OnMachine(Experiments[Len(vectors) + 1])

TestInv ==
  /\ test \in Tests \union {"single"}
  /\ vectors \in Seq(SUBSET Nat) /\ vector \subseteq Nat
  /\ test # "single" /\ pc \notin {"conclude", "concluded"} =>
       /\ Len(vectors) < Len(Experiments)
       /\ exp = Current.exp /\ variant = Current.variant
       /\ tail = Current.tail /\ hw = Current.hw

LEMMA SetupFromList ==
  ASSUME NEW n \in 1..Len(Experiments), test \in Tests
  PROVE  IsSetup(OnMachine(Experiments[n]))
BY ExperimentsAreRuns, RunsOnMachine

LEMMA TestFresh ==
  ASSUME TestInit
  PROVE  Fresh /\ TestInv
<1>1. vectors = <<>> /\ vectors \in Seq(SUBSET Nat) /\ Len(vectors) = 0
  BY DEF TestInit
<1>2. CASE test = "single"
  <2>1. "single" \notin Tests
    BY TestsAssumption DEF TestNames
  <2>2. Init
    BY <1>2, <2>1 DEF TestInit
  <2>3. Fresh /\ vector = {}
    BY <2>2, InitFresh DEF Init
  <2>4. QED
    BY <1>1, <1>2, <2>3 DEF TestInv
<1>3. CASE test # "single"
  <2> DEFINE s == OnMachine(Experiments[1])
  <2>1. /\ test \in Tests /\ exp = s.exp /\ variant = s.variant /\ tail = s.tail /\ hw = s.hw
        /\ pc = "assert" /\ rep = 0 /\ fetched = {} /\ hist = [i \in Entries |-> 0] /\ vector = {}
    BY <1>3 DEF TestInit
  <2>2. Len(Experiments) \in Nat \ {0}
    BY <2>1, ExperimentsAreRuns
  <2>3. IsSetup(s)
    BY <2>1, <2>2, SetupFromList
  <2> HIDE DEF s
  <2>4. SetupInv
    BY <2>1, <2>3 DEF SetupInv, IsSetup
  <2>5. Fresh
    BY <2>1, <2>4 DEF Fresh
  <2>6. TestInv
    BY <1>1, <2>1, <2>2 DEF TestInv, Current, s
  <2>7. QED
    BY <2>5, <2>6
<1>4. QED
  BY <1>2, <1>3

\* Nothing is run any more.
LEMMA EndKeeps ==
  ASSUME IInv, UNCHANGED <<setup, rep, cache, fetched, hist, vector>>,
         pc \notin {"assert", "aborted"}, pc' \in {"conclude", "concluded"}
  PROVE  IInv' /\ (FoundInv => FoundInv')
<1>1. /\ exp' = exp /\ variant' = variant /\ tail' = tail /\ hw' = hw /\ setup' = setup
      /\ rep' = rep /\ cache' = cache /\ fetched' = fetched /\ hist' = hist /\ vector' = vector
  BY DEF setup
<1>2. /\ ProbeOrder' = ProbeOrder /\ ProbedLines' = ProbedLines
      /\ WorkloadLines' = WorkloadLines /\ Entries' = Entries
      /\ (\A i : Probed(i)' = Probed(i)) /\ AheadLines' = AheadLines /\ Found' = Found
  BY <1>1, SetupStays, AheadStays
<1>3. SetupInv' /\ BoundsInv'
  BY <1>1 DEF IInv, SetupInv, BoundsInv, AssertsHold, Size
<1>4. HistInv'
  BY <1>1, <1>2 DEF IInv, HistInv, Explained
<1>5. IInv'
  BY <1>1, <1>3, <1>4 DEF IInv, CacheInv, OnlyPrefetches
<1>6. FoundInv => FoundInv'
  BY <1>1, <1>2 DEF FoundInv, Present, AllLines
<1>7. QED
  BY <1>5, <1>6

\* The experiments of a test do not change.
LEMMA SameExperiments ==
  ASSUME test' = test, kind' = kind
  PROVE  /\ Experiments' = Experiments
         /\ \A n : OnMachine(Experiments[n])' = OnMachine(Experiments[n])
BY DEF Experiments, OnMachine, Follows

\* The next experiment starts over.
LEMMA NextFresh ==
  ASSUME TestInv, NextExperiment
  PROVE  Fresh' /\ TestInv'
<1> DEFINE n == Len(vectors) + 2
           s == OnMachine(Experiments[n])
<1>1. /\ test \in Tests /\ test' = test /\ kind' = kind /\ vectors' = Append(vectors, vector)
      /\ Len(vectors) + 1 < Len(Experiments)
  BY DEF NextExperiment, TestInv
<1>2. Len(vectors) \in Nat /\ vectors' \in Seq(SUBSET Nat) /\ Len(vectors') = Len(vectors) + 1
  BY <1>1 DEF TestInv
<1>3. Len(Experiments) \in Nat
  BY <1>1, ExperimentsAreRuns
<1>4. n \in 1..Len(Experiments) /\ n = Len(vectors') + 1
  BY <1>1, <1>2, <1>3
<1>5. IsSetup(s)
  BY <1>1, <1>4, SetupFromList
<1>6. Len(Experiments)' = Len(Experiments) /\ Current' = s
  BY <1>1, <1>4, SameExperiments DEF Current
<1> HIDE DEF s, n
<1>7. /\ exp' = s.exp /\ variant' = s.variant /\ tail' = s.tail /\ hw' = s.hw
      /\ pc' = "assert" /\ rep' = 0 /\ fetched' = {} /\ vector' = {}
      /\ hist' = [i \in IF s.variant = "2D" THEN 0..(Size - 1) ELSE AllLines |-> 0]
  BY DEF NextExperiment, Begin, s, n
<1>8. SetupInv'
  BY <1>5, <1>7 DEF SetupInv, IsSetup, IsExperiment, IsPattern, Period
<1>9. Fresh'
  BY <1>7, <1>8 DEF Fresh, Entries, AllLines, Size
<1>10. TestInv'
  BY <1>1, <1>2, <1>4, <1>6, <1>7 DEF TestInv
<1>11. QED
  BY <1>9, <1>10

LEMMA TestNextInv == IInv /\ TestInv /\ [TestNext]_allVars => IInv' /\ TestInv'
<1> SUFFICES ASSUME IInv, TestInv, [TestNext]_allVars PROVE IInv' /\ TestInv'
  OBVIOUS
<1>1. CASE RunExperiment
  <2>1. Step /\ test' = test /\ kind' = kind /\ vectors' = vectors
    BY <1>1 DEF RunExperiment, testVars
  <2>2. IInv' /\ setup' = setup
    BY <2>1, NextInv, NextKeeps DEF Next
  <2>3. vector' \subseteq Nat
    <3>1. CASE Evaluate
      <4>1. vector' \subseteq Entries
        BY <3>1 DEF Evaluate, CandidateEntries
      <4>2. Entries \subseteq Nat
        BY PositiveSize DEF Entries, AllLines
      <4>3. QED
        BY <4>1, <4>2
    <3>2. CASE ~Evaluate
      <4>1. vector' = vector
        BY <2>1, <3>2 DEF Step, CheckBounds, Flush, Workload, Prefetch, Probe, Normalize
      <4>2. QED
        BY <4>1 DEF TestInv
    <3>3. QED
      BY <3>1, <3>2
  <2>4. pc' \notin {"conclude", "concluded"} /\ pc \notin {"conclude", "concluded"}
    BY <2>1 DEF Step, CheckBounds, Flush, Workload, Prefetch, Probe, Normalize, Evaluate
  <2>5. Len(Experiments)' = Len(Experiments) /\ Current' = Current
    BY <2>1, SameExperiments DEF Current
  <2>6. exp' = exp /\ variant' = variant /\ tail' = tail /\ hw' = hw
    BY <2>2 DEF setup
  <2>7. QED
    BY <2>1, <2>2, <2>3, <2>4, <2>5, <2>6 DEF TestInv
<1>2. CASE NextExperiment
  BY <1>2, NextFresh, FreshNext
<1>3. CASE LastExperiment
  <2>1. IInv'
    BY <1>3, EndKeeps DEF LastExperiment
  <2>2. vectors' \in Seq(SUBSET Nat) /\ pc' = "conclude" /\ test' = test /\ vector' = vector
    BY <1>3 DEF LastExperiment, TestInv
  <2>3. QED
    BY <2>1, <2>2 DEF TestInv
<1>4. CASE Conclude
  <2>1. IInv'
    BY <1>4, EndKeeps DEF Conclude
  <2>2. vectors' = vectors /\ pc' = "concluded" /\ test' = test /\ vector' = vector
    BY <1>4 DEF Conclude
  <2>3. QED
    BY <2>1, <2>2 DEF TestInv
<1>5. CASE UNCHANGED allVars
  <2>1. UNCHANGED vars /\ test' = test /\ kind' = kind /\ vectors' = vectors
    BY <1>5 DEF allVars, testVars
  <2>2. IInv'
    BY <2>1, NextInv
  <2>3. Len(Experiments)' = Len(Experiments) /\ Current' = Current
    BY <2>1, SameExperiments DEF Current
  <2>4. exp' = exp /\ variant' = variant /\ tail' = tail /\ hw' = hw /\ pc' = pc /\ vector' = vector
    BY <2>1 DEF vars, setup
  <2>5. QED
    BY <2>1, <2>2, <2>3, <2>4 DEF TestInv
<1>6. QED
  BY <1>1, <1>2, <1>3, <1>4, <1>5 DEF TestNext, TestEnded

LEMMA TestFound ==
  ASSUME Noise < 1000, Divisor >= 2
  PROVE  IInv /\ TestInv /\ FoundInv /\ [TestNext]_allVars => FoundInv'
<1> SUFFICES ASSUME IInv, TestInv, FoundInv, [TestNext]_allVars PROVE FoundInv'
  OBVIOUS
<1>1. CASE RunExperiment
  BY <1>1, FoundNext DEF RunExperiment, Next
<1>2. CASE NextExperiment
  BY <1>2, NextFresh, FreshNext
<1>3. CASE LastExperiment
  BY <1>3, EndKeeps DEF LastExperiment
<1>4. CASE Conclude
  BY <1>4, EndKeeps DEF Conclude
<1>5. CASE UNCHANGED allVars
  BY <1>5, FoundNext DEF allVars
<1>6. QED
  BY <1>1, <1>2, <1>3, <1>4, <1>5 DEF TestNext, TestEnded

\* What holds of an experiment holds of all the experiments of a test, which
\* follow each other on the same mapping: each one stays in the mapping, ...
THEOREM TestsStayInMapping == TestSpec => []NoStrayAccess
<1>1. TestInit => IInv /\ TestInv
  BY TestFresh, FreshInv
<1>2. IInv => NoStrayAccess
  BY PositiveSize, AssertsSuffice DEF IInv, BoundsInv, NoStrayAccess
<1>3. QED
  BY <1>1, <1>2, TestNextInv, PTL DEF TestSpec

\* ... and reports nothing that was not fetched.
THEOREM TestsReportOnlyPrefetches == TestSpec => []OnlyPrefetches
<1>1. TestInit => IInv /\ TestInv
  BY TestFresh, FreshInv
<1>2. IInv => OnlyPrefetches
  BY DEF IInv
<1>3. QED
  BY <1>1, <1>2, TestNextInv, PTL DEF TestSpec

\* Bytes that are a line or more apart are in different lines, in this order.
LEMMA FarApart ==
  ASSUME NEW a \in Int, NEW b \in Int, b - a >= LineSize
  PROVE  LineOf(a) < LineOf(b)
<1> DEFINE p == LineOf(a)
           q == LineOf(b)
           c == p * LineSize
           d == q * LineSize
<1>1. /\ p \in Int /\ c <= a /\ a < c + LineSize /\ LineSize \in Nat \ {0} /\ c \in Int
      /\ q \in Int /\ d <= b /\ b < d + LineSize /\ d \in Int
  BY LineOfByte, LineSizeAssumption
<1>2. ASSUME q <= p PROVE FALSE
  <2>1. LineSize * (p - q) >= 0 /\ LineSize * (p - q) = c - d
    BY <1>1, <1>2
  <2> HIDE DEF p, q, c, d
  <2>2. QED
    BY <1>1, <2>1
<1>3. QED
  BY <1>1, <1>2

\* Accesses of a stride of a line or more are in different lines.
LEMMA LinesDiffer ==
  ASSUME NEW f \in Int, NEW s \in Int, Magnitude(s) >= LineSize,
         NEW i \in Int, NEW j \in Int, i < j
  PROVE  LineOf(f + i * s) # LineOf(f + j * s)
<1> DEFINE a == f + i * s
           b == f + j * s
<1>1. a \in Int /\ b \in Int /\ LineSize \in Nat \ {0} /\ b - a = s * (j - i)
  BY LineSizeAssumption
<1>2. LineOf(a) \in Int /\ LineOf(b) \in Int
  BY <1>1, LineOfByte
<1>3. CASE s > 0
  <2>1. s * (j - i) >= s /\ s >= LineSize
    BY <1>3, TimesGrows DEF Magnitude
  <2>2. s * (j - i) >= LineSize
    BY <1>1, <2>1
  <2>3. b - a >= LineSize
    BY <1>1, <2>2
  <2>4. LineOf(a) < LineOf(b)
    BY <1>1, <2>3, FarApart
  <2>5. QED
    BY <1>2, <2>4
<1>4. CASE s < 0
  <2>1. (-s) * (j - i) >= -s /\ -s >= LineSize
    BY <1>4, TimesGrows DEF Magnitude
  <2>2. (-s) * (j - i) = a - b
    OBVIOUS
  <2>3. (-s) * (j - i) >= LineSize
    BY <1>1, <2>1
  <2>4. a - b >= LineSize
    BY <2>2, <2>3
  <2>5. LineOf(b) < LineOf(a)
    BY <1>1, <2>4, FarApart
  <2>6. QED
    BY <1>2, <2>5
<1>5. CASE s = 0
  BY <1>1, <1>5 DEF Magnitude
<1>6. QED
  BY <1>3, <1>4, <1>5

------------------------------------------------------------------------------
\* What an experiment reports

\* Where the i-th access is; accesses are counted from 0.
Offset(x, i) == x.exp.first + i * x.exp.stride

\* Lines of the accesses to the probed mapping, and lines that follow them.
Touched(x) ==
  {LineOf(Offset(x, i)) :
     i \in (IF x.variant = "two" THEN x.exp.step - x.tail ELSE 0)..(x.exp.step - 1)}
Following(x) ==
  {LineOf(Offset(x, x.exp.step - 1 + d)) :
     d \in {n \in 1..Degree : InMapping(Offset(x, x.exp.step - 1 + n))}}

\* The vector of an experiment that is no pattern.
Reported(k, x) == IF Follows(k, x) THEN Following(x) \ Touched(x) ELSE {}

\* The same of the experiment that runs.
LEMMA LinesOfRun ==
  ASSUME variant \notin Patterns, NEW x, exp = x.exp, variant = x.variant, tail = x.tail
  PROVE  WorkloadLines = Touched(x) /\ AheadLines = Following(x)
<1>1. WorkloadLines = Touched(x)
  <2>1. CASE variant = "two"
    BY <2>1 DEF WorkloadLines, WorkloadOffsets, Touched, Offset
  <2>2. CASE variant # "two"
    BY <2>2 DEF WorkloadLines, WorkloadOffsets, Accesses, Patterns, Touched, Offset
  <2>3. QED
    BY <2>1, <2>2
<1>2. \A d : exp.first + Ahead(d) = Offset(x, x.exp.step - 1 + d)
  BY DEF Ahead, Patterns, Offset
<1>3. AheadLines = Following(x)
  BY <1>2 DEF AheadLines, Following
<1>4. QED
  BY <1>1, <1>3

\* The prefetcher fetches what its kind says, the vectors before this experiment
\* are what it makes of their experiments, and the conclusion is drawn from all.
ToldInv ==
  /\ kind \in Kinds
  /\ fetched \subseteq AheadLines /\ (hw = "off" => fetched = {})
  /\ test # "single" =>
       /\ \A n \in 1..Len(vectors) :
            /\ AssertsHold(Experiments[n].exp, Size)
            /\ Experiments[n].variant \notin Patterns => vectors[n] = Reported(kind, Experiments[n])
       /\ pc \in {"conclude", "concluded"} => Len(vectors) = Len(Experiments)
       /\ pc = "concluded" => result = Result

\* What is prefetched and what is evaluated meet: the vector is exact.
LEMMA VectorReported ==
  ASSUME IInv, TestInv, FoundInv, ToldInv, test # "single", pc = "done",
         Experiments[Len(vectors) + 1].variant \notin Patterns
  PROVE  vector = Reported(kind, Experiments[Len(vectors) + 1])
<1> DEFINE x == Experiments[Len(vectors) + 1]
<1>1. exp = x.exp /\ variant = x.variant /\ tail = x.tail
      /\ hw = IF Follows(kind, x) THEN "stride" ELSE "off"
  BY DEF TestInv, Current, OnMachine
<1> HIDE DEF x
<1>2. variant \notin Patterns
  BY <1>1 DEF x
<1>3. WorkloadLines = Touched(x) /\ AheadLines = Following(x)
  BY <1>1, <1>2, LinesOfRun
<1>4. vector \subseteq fetched \ WorkloadLines
  <2>1. {Probed(i) : i \in vector} = vector
    BY <1>2 DEF Probed, Patterns
  <2>2. QED
    BY <1>2, <2>1 DEF IInv, OnlyPrefetches
<1>5. fetched \subseteq AheadLines /\ (hw = "off" => fetched = {})
  BY DEF ToldInv
<1>6. hw = "stride" => AheadLines \ WorkloadLines \subseteq vector
  BY <1>2 DEF FoundInv, Found
<1>7. vector = Reported(kind, x)
  BY <1>1, <1>3, <1>4, <1>5, <1>6 DEF Reported
<1>8. QED
  BY <1>7 DEF x

\* No vector and no conclusion before the first experiment.
LEMMA ToldFresh ==
  ASSUME TestInit
  PROVE  ToldInv
<1>1. fetched = {} /\ pc = "assert"
  BY TestFresh DEF Fresh
<1>2. vectors = <<>> /\ Len(vectors) = 0 /\ kind \in Kinds
  BY DEF TestInit
<1>3. QED
  BY <1>1, <1>2 DEF ToldInv

\* What is reported depends on the prefetcher and the experiment.
LEMMA SameReports ==
  ASSUME test' = test, kind' = kind
  PROVE  /\ Experiments' = Experiments
         /\ \A n : /\ AssertsHold(Experiments[n].exp, Size)' = AssertsHold(Experiments[n].exp, Size)
                   /\ Experiments[n].variant' = Experiments[n].variant
                   /\ Reported(kind, Experiments[n])' = Reported(kind, Experiments[n])
<1>1. Experiments' = Experiments
  BY SameExperiments
<1>2. QED
  BY <1>1 DEF AssertsHold, Size, Reported, Follows, Following, Touched, Offset, InMapping

\* One more vector in the list.
LEMMA AppendTold ==
  ASSUME IInv, TestInv, FoundInv, ToldInv, test # "single", pc = "done",
         vectors' = Append(vectors, vector), test' = test, kind' = kind
  PROVE  /\ Len(vectors') = Len(vectors) + 1
         /\ \A n \in 1..Len(vectors') :
              /\ AssertsHold(Experiments[n].exp, Size)'
              /\ Experiments[n].variant' \notin Patterns =>
                   vectors'[n] = Reported(kind, Experiments[n])'
<1> DEFINE m == Len(vectors) + 1
<1>1. vectors \in Seq(SUBSET Nat) /\ vector \in SUBSET Nat
  BY DEF TestInv
<1>2. /\ Len(vectors) \in Nat /\ Len(vectors') = m /\ vectors'[m] = vector
      /\ \A n \in 1..Len(vectors) : vectors'[n] = vectors[n]
  BY <1>1
<1>3. ASSUME NEW n \in 1..Len(vectors)
      PROVE  /\ AssertsHold(Experiments[n].exp, Size)
             /\ Experiments[n].variant \notin Patterns => vectors'[n] = Reported(kind, Experiments[n])
  BY <1>2, <1>3 DEF ToldInv
<1>4. /\ AssertsHold(Experiments[m].exp, Size)
      /\ Experiments[m].variant \notin Patterns => vectors'[m] = Reported(kind, Experiments[m])
  <2>1. exp = Experiments[m].exp
    BY DEF TestInv, Current, OnMachine
  <2>2. AssertsHold(exp, Size)
    BY DEF IInv, BoundsInv
  <2>3. QED
    BY <1>2, <2>1, <2>2, VectorReported
<1> HIDE DEF m
<1>5. \A n \in 1..m : n \in 1..Len(vectors) \/ n = m
  BY <1>2 DEF m
<1>6. QED
  BY <1>2, <1>3, <1>4, <1>5, SameReports DEF m

\* So does the conclusion, and on the vectors.
LEMMA SameResult ==
  ASSUME test' = test, kind' = kind, vectors' = vectors
  PROVE  Result' = Result
<1>1. Experiments' = Experiments
  BY SameExperiments
<1>2. (\A i : Count(i)' = Count(i)) /\ Counts' = Counts
  BY DEF Count, Counts
<1>3. \A previous, i : compute_diff_factors(previous, i)' = compute_diff_factors(previous, i)
  BY <1>1 DEF compute_diff_factors, LastAccess, Period
<1>4. OverviewResult' = OverviewResult /\ LoadPrefCorrResult' = LoadPrefCorrResult
  BY <1>1 DEF OverviewResult, LoadPrefCorrResult, compute_diff_factors, LastAccess, Period, Smallest, Largest
<1>5. /\ TwoMappingsResult' = TwoMappingsResult /\ NoPrefetchesResult' = NoPrefetchesResult
      /\ LessThanLineResult' = LessThanLineResult /\ RandomOffsetResult' = RandomOffsetResult
  BY <1>2 DEF TwoMappingsResult, NoPrefetchesResult, LessThanLineResult, RandomOffsetResult,
     Count, Counts, Smallest, Largest
<1>6. MinMaxStrideResult' = MinMaxStrideResult /\ PcCollisionResult' = PcCollisionResult
  BY DEF MinMaxStrideResult, PcCollisionResult, Count, Smallest, Largest, TestedStride
<1>7. Count(1)' = Count(1) /\ Count(2)' = Count(2)
  BY DEF Count
<1>8. QED
  BY <1>4, <1>5, <1>6, <1>7 DEF Result

\* Every step keeps what is known of the vectors.
LEMMA ToldNext ==
  ASSUME IInv, TestInv, FoundInv, ToldInv, [TestNext]_allVars
  PROVE  ToldInv'
<1>1. CASE RunExperiment
  <2>1. Step /\ test' = test /\ kind' = kind /\ vectors' = vectors /\ result' = result
    BY <1>1 DEF RunExperiment, testVars
  <2>2. setup' = setup /\ hw' = hw
    BY <2>1, NextKeeps DEF Next, setup
  <2>3. AheadLines' = AheadLines
    BY <2>2, AheadStays
  <2>4. fetched' \subseteq AheadLines' /\ (hw' = "off" => fetched' = {})
    <3>1. CASE Prefetch
      BY <2>2, <2>3, <3>1 DEF Prefetch, ToldInv
    <3>2. CASE ~Prefetch
      <4>1. fetched' = fetched
        BY <2>1, <3>2 DEF Step, CheckBounds, Flush, Workload, Probe, Normalize, Evaluate
      <4>2. QED
        BY <2>2, <2>3, <4>1 DEF ToldInv
    <3>3. QED
      BY <3>1, <3>2
  <2>5. pc' \notin {"conclude", "concluded"}
    BY <2>1 DEF Step, CheckBounds, Flush, Workload, Prefetch, Probe, Normalize, Evaluate
  <2>6. QED
    BY <2>1, <2>4, <2>5, SameReports DEF ToldInv
<1>2. CASE NextExperiment
  <2>1. /\ test # "single" /\ pc = "done" /\ vectors' = Append(vectors, vector)
        /\ test' = test /\ kind' = kind /\ pc' = "assert" /\ fetched' = {}
    BY <1>2 DEF NextExperiment, Begin
  <2>2. QED
    BY <2>1, AppendTold DEF ToldInv
<1>3. CASE LastExperiment
  <2>1. /\ test # "single" /\ pc = "done" /\ vectors' = Append(vectors, vector) /\ setup' = setup
        /\ test' = test /\ kind' = kind /\ pc' = "conclude" /\ fetched' = fetched
        /\ Len(vectors) + 1 = Len(Experiments)
    BY <1>3 DEF LastExperiment
  <2>2. AheadLines' = AheadLines /\ hw' = hw
    BY <2>1, AheadStays DEF setup
  <2>3. Len(vectors') = Len(Experiments)'
    BY <2>1, AppendTold, SameReports
  <2>4. QED
    BY <2>1, <2>2, <2>3, AppendTold DEF ToldInv
<1>4. CASE Conclude
  <2>1. /\ setup' = setup /\ fetched' = fetched /\ test' = test /\ kind' = kind
        /\ vectors' = vectors /\ pc = "conclude" /\ pc' = "concluded" /\ result' = Result
    BY <1>4 DEF Conclude
  <2>2. AheadLines' = AheadLines /\ hw' = hw
    BY <2>1, AheadStays DEF setup
  <2>3. Result' = Result
    BY <2>1, SameResult
  <2>4. QED
    BY <2>1, <2>2, <2>3, SameReports DEF ToldInv
<1>5. CASE UNCHANGED allVars
  <2>1. /\ setup' = setup /\ fetched' = fetched /\ test' = test /\ kind' = kind
        /\ vectors' = vectors /\ pc' = pc /\ result' = result
    BY <1>5 DEF allVars, testVars, vars
  <2>2. AheadLines' = AheadLines /\ hw' = hw
    BY <2>1, AheadStays DEF setup
  <2>3. Result' = Result
    BY <2>1, SameResult
  <2>4. QED
    BY <2>1, <2>2, <2>3, SameReports DEF ToldInv
<1>6. QED
  BY <1>1, <1>2, <1>3, <1>4, <1>5 DEF TestNext, TestEnded

\* The lines that follow are finitely many.
LEMMA FollowingFinite ==
  ASSUME NEW x
  PROVE  /\ IsFiniteSet(Following(x)) /\ Cardinality(Following(x)) \in Nat
         /\ \A T \in SUBSET Following(x) : IsFiniteSet(T) /\ Cardinality(T) \in Nat
<1> DEFINE D == {n \in 1..Degree : InMapping(Offset(x, x.exp.step - 1 + n))}
           f == [d \in D |-> LineOf(Offset(x, x.exp.step - 1 + d))]
<1>1. IsFiniteSet(1..Degree)
  BY ExperimentAssumption, FS_Interval
<1>2. IsFiniteSet(D)
  BY <1>1, FS_Subset
<1>3. f \in Surjection(D, Following(x))
  BY DEF Surjection, Following
<1> HIDE DEF D, f
<1>4. IsFiniteSet(Following(x))
  BY <1>2, <1>3, FS_Surjection
<1>5. QED
  BY <1>4, FS_Subset, FS_CardinalityType

\* Different accesses of an experiment are in different lines.
LEMMA AccessesDiffer ==
  ASSUME NEW x, IsRun(x), Magnitude(x.exp.stride) >= LineSize, NEW i \in Int, NEW j \in Int, i < j
  PROVE  LineOf(Offset(x, i)) # LineOf(Offset(x, j))
<1> DEFINE f == x.exp.first
           s == x.exp.stride
<1>1. f \in Int /\ s \in Int /\ Magnitude(s) >= LineSize
  BY DEF IsRun, IsSetup, IsExperiment
<1> HIDE DEF f, s
<1>2. LineOf(f + i * s) # LineOf(f + j * s)
  BY <1>1, LinesDiffer
<1>3. QED
  BY <1>2 DEF f, s, Offset

\* With strides of a line or more an experiment reports what follows, and
\* something if the next access is in the mapping.
LEMMA ReportedCount ==
  ASSUME NEW k, NEW x, IsRun(x), x.variant \notin Patterns, Degree # 0,
         Magnitude(x.exp.stride) >= LineSize, InMapping(Offset(x, x.exp.step))
  PROVE  /\ Reported(k, x) = IF Follows(k, x) THEN Following(x) ELSE {}
         /\ Cardinality(Reported(k, x)) \in Nat
         /\ Cardinality(Reported(k, x)) > 0 <=> Follows(k, x)
         /\ Cardinality(Reported(k, x)) = 0 <=> ~Follows(k, x)
<1>1. /\ x.exp.stride \in Int /\ x.exp.first \in Nat /\ x.exp.step \in Nat \ {0}
      /\ Degree \in Nat \ {0} /\ (x.variant = "two" => x.tail \in 1..x.exp.step)
  BY ExperimentAssumption DEF IsRun, IsSetup, IsExperiment
<1>2. Following(x) \intersect Touched(x) = {}
  <2> SUFFICES ASSUME NEW d \in 1..Degree,
                      NEW i \in (IF x.variant = "two" THEN x.exp.step - x.tail ELSE 0)..(x.exp.step - 1)
               PROVE  LineOf(Offset(x, x.exp.step - 1 + d)) # LineOf(Offset(x, i))
    BY DEF Following, Touched
  <2>1. i \in Int /\ x.exp.step - 1 + d \in Int /\ i < x.exp.step - 1 + d
    <3>1. CASE x.variant = "two"
      BY <1>1, <3>1
    <3>2. CASE x.variant # "two"
      BY <1>1, <3>2
    <3>3. QED
      BY <3>1, <3>2
  <2>2. QED
    BY <2>1, AccessesDiffer
<1>3. Reported(k, x) = IF Follows(k, x) THEN Following(x) ELSE {}
  BY <1>2 DEF Reported
<1>4. LineOf(Offset(x, x.exp.step)) \in Following(x)
  <2>1. x.exp.step - 1 + 1 = x.exp.step /\ 1 \in 1..Degree
    BY <1>1
  <2>2. QED
    BY <2>1 DEF Following
<1>5. Cardinality(Following(x)) \in Nat /\ Cardinality(Following(x)) # 0
  BY <1>4, FollowingFinite, FS_EmptySet
<1>6. Cardinality({}) = 0
  BY FS_EmptySet
<1>7. CASE Follows(k, x)
  BY <1>3, <1>5, <1>7
<1>8. CASE ~Follows(k, x)
  BY <1>3, <1>6, <1>8
<1>9. QED
  BY <1>3, <1>7, <1>8

\* If all of them are in the mapping they are as many as the prefetcher fetches.
LEMMA FollowingCount ==
  ASSUME NEW x, IsRun(x), Magnitude(x.exp.stride) >= LineSize,
         \A d \in 1..Degree : InMapping(Offset(x, x.exp.step - 1 + d))
  PROVE  Cardinality(Following(x)) = Degree
<1>1. /\ x.exp.stride \in Int /\ x.exp.first \in Nat /\ x.exp.step \in Nat \ {0} /\ Degree \in Nat
  BY ExperimentAssumption DEF IsRun, IsSetup, IsExperiment
<1> DEFINE line(d) == LineOf(Offset(x, x.exp.step - 1 + d))
           f == [d \in 1..Degree |-> line(d)]
<1>2. Following(x) = {line(d) : d \in 1..Degree}
  BY DEF Following
<1>3. \A c, d \in 1..Degree : c < d => line(c) # line(d)
  <2> SUFFICES ASSUME NEW c \in 1..Degree, NEW d \in 1..Degree, c < d
               PROVE  LineOf(Offset(x, x.exp.step - 1 + c)) # LineOf(Offset(x, x.exp.step - 1 + d))
    OBVIOUS
  <2>1. x.exp.step - 1 + c \in Int /\ x.exp.step - 1 + d \in Int
        /\ x.exp.step - 1 + c < x.exp.step - 1 + d
    BY <1>1
  <2>2. QED
    BY <2>1, AccessesDiffer
<1> HIDE DEF line
<1>4. \A c, d \in 1..Degree : line(c) = line(d) => c = d
  BY <1>1, <1>3
<1>5. f \in Bijection(1..Degree, Following(x))
  BY <1>2, <1>4 DEF Bijection, Injection, Surjection, IsInjective
<1>6. ExistsBijection(1..Degree, Following(x))
  BY <1>5 DEF ExistsBijection
<1>7. IsFiniteSet(1..Degree) /\ Cardinality(1..Degree) = Degree
  <2>1. Degree \in Int /\ 1 \in Int
    BY <1>1
  <2>2. Cardinality(1..Degree) = IF 1 > Degree THEN 0 ELSE Degree - 1 + 1
    BY <2>1, FS_Interval
  <2>3. IsFiniteSet(1..Degree)
    BY <2>1, FS_Interval
  <2>4. Cardinality(1..Degree) = Degree
    <3>1. \A n \in Nat : (IF 1 > n THEN 0 ELSE n - 1 + 1) = n
      OBVIOUS
    <3>2. QED
      BY <1>1, <2>2, <3>1
  <2>5. QED
    BY <2>3, <2>4
<1>8. QED
  BY <1>6, <1>7, FS_Bijection

\* What is counted in the conclusion.
LEMMA CountsTold ==
  ASSUME ToldInv, TestInv, pc = "concluded", test # "single"
  PROVE  /\ test \in Tests /\ kind \in Kinds /\ result = Result
         /\ Len(vectors) = Len(Experiments) /\ DOMAIN vectors = DOMAIN Experiments
         /\ \A n \in DOMAIN Experiments :
              /\ IsRun(Experiments[n]) /\ AssertsHold(Experiments[n].exp, Size)
              /\ Experiments[n].variant \notin Patterns =>
                   /\ vectors[n] = Reported(kind, Experiments[n])
                   /\ Count(n) = Cardinality(Reported(kind, Experiments[n]))
<1>1. test \in Tests /\ kind \in Kinds /\ result = Result /\ Len(vectors) = Len(Experiments)
  BY DEF ToldInv, TestInv
<1>2. PICK N \in Nat \ {0} : /\ DOMAIN Experiments = 1..N /\ Len(Experiments) = N
                             /\ \A n \in 1..N : IsRun(Experiments[n])
  BY <1>1, ExperimentsAreRuns
<1>3. DOMAIN vectors = 1..N
  BY <1>1, <1>2 DEF TestInv
<1>4. QED
  BY <1>1, <1>2, <1>3 DEF ToldInv, Count

\* A kind of prefetcher.
LEMMA KindType ==
  ASSUME kind \in Kinds
  PROVE  /\ kind.bits \in Nat /\ kind.confirm \in Nat /\ kind.confirm >= 2 /\ kind.resume \in Nat
         /\ kind.resume >= 1 /\ kind.area \in BOOLEAN /\ kind.bytes \in BOOLEAN
         /\ kind.crosses \in BOOLEAN /\ kind.bits <= 64
BY TestsAssumption, RoomAssumption DEF Whole

\* The smallest number of a set, once it is known, is what Smallest() chooses.
LEMMA SmallestIs ==
  ASSUME NEW S \in SUBSET Int, NEW m \in S, \A y \in S : m <= y
  PROVE  Smallest(S) = m
<1> DEFINE c == CHOOSE x \in S : \A y \in S : x <= y
<1>1. c \in S /\ \A y \in S : c <= y
  OBVIOUS
<1> HIDE DEF c
<1>2. c = m
  BY <1>1
<1>3. QED
  BY <1>2 DEF Smallest, c

\* The largest one likewise.
LEMMA LargestIs ==
  ASSUME NEW S \in SUBSET Int, NEW m \in S, \A y \in S : m >= y
  PROVE  Largest(S) = m
<1> DEFINE c == CHOOSE x \in S : \A y \in S : x >= y
<1>1. c \in S /\ \A y \in S : c >= y
  OBVIOUS
<1> HIDE DEF c
<1>2. c = m
  BY <1>1
<1>3. QED
  BY <1>2 DEF Largest, c

\* The source's placement of the load functions is the one of the lemmas.
LEMMA PlacedPairs == ArePairs(Placed, MinBits, MaxBits, CodeSize)
<1> DEFINE Is(f) == f = [bits \in MinBits..MaxBits |->
                           PairAt(IF bits = MinBits THEN 0 ELSE f[bits - 1].second + CodeSize, 2 ^ bits)]
<1>1. Placed = CHOOSE f : Is(f)
  BY Zenon DEF Placed
<1>2. \A free, n : PairAt(free, n) = PairFrom(free, n, CodeSize)
  BY DEF PairAt, PairFrom, Aligned, MultipleFrom
<1>3. \A f : Is(f) <=> ArePairs(f, MinBits, MaxBits, CodeSize)
  BY <1>2 DEF ArePairs
<1>4. PICK f : Is(f)
  BY <1>3, PairsExist, CodeAssumption
<1>5. Is(Placed)
  BY <1>1, <1>4
<1>6. QED
  BY <1>3, <1>5

\* The functions of test_pc_collision collide in as many bits as it asks for and
\* in no more, wherever the program is loaded.
THEOREM FunctionsCollideIn ==
  ASSUME NEW b \in MinBits..MaxBits
  PROVE  CollidingBits(get_maccess_functions(b)) = b
<1>1. MinBits \in Nat /\ MaxBits \in Nat /\ CodeSize \in 1..(2 ^ MinBits) /\ LoadBase \in Nat
  BY CodeAssumption
<1> DEFINE p == get_maccess_functions(b).first
           q == get_maccess_functions(b).second
           f == Placed
<1>2. p = LoadBase + f[b].first /\ q = LoadBase + f[b].second
  BY DEF get_maccess_functions, Loaded
<1>3. ArePairs(f, MinBits, MaxBits, CodeSize)
  BY PlacedPairs
<1> HIDE DEF f
<1>4. \A k \in Nat : (k <= b => (LoadBase + f[b].first) % 2 ^ k = (LoadBase + f[b].second) % 2 ^ k)
                     /\ (k > b => (LoadBase + f[b].first) % 2 ^ k # (LoadBase + f[b].second) % 2 ^ k)
  BY <1>1, <1>3, PairRemainders
<1>5. \A k \in Nat : (k <= b => p % 2 ^ k = q % 2 ^ k) /\ (k > b => p % 2 ^ k # q % 2 ^ k)
  BY <1>2, <1>4
<1> HIDE DEF p, q
<1> DEFINE Is(n) == p % 2 ^ n = q % 2 ^ n /\ p % 2 ^ (n + 1) # q % 2 ^ (n + 1)
<1>6. \A n \in 0..MaxBits : Is(n) => n = b
  <2> SUFFICES ASSUME NEW n \in 0..MaxBits, Is(n) PROVE n = b
    OBVIOUS
  <2>1. n \in Nat /\ n + 1 \in Nat
    BY <1>1
  <2>2. ~(n > b)
    BY <1>5, <2>1
  <2>3. ~(n + 1 <= b)
    BY <1>5, <2>1
  <2>4. QED
    BY <1>1, <2>1, <2>2, <2>3
<1>7. b \in 0..MaxBits /\ Is(b)
  BY <1>1, <1>5
<1> HIDE DEF Is
<1>8. (CHOOSE n \in 0..MaxBits : Is(n)) = b
  BY <1>6, <1>7
<1>9. CollidingBits(get_maccess_functions(b)) = CHOOSE n \in 0..MaxBits : Is(n)
  BY DEF CollidingBits, Is, p, q
<1>10. QED
  BY <1>8, <1>9

------------------------------------------------------------------------------
\* Which prefetchers share strides between instructions and memory areas

\* An experiment whose stride ends like the one of the base experiment.
IsBase(x) ==
  /\ x.exp.stride = Stride /\ x.variant \notin Patterns /\ x.random = FALSE
  /\ LastAccess(x) = (Steps - 1) * Stride
  /\ Offset(x, x.exp.step) = Steps * Stride

\* The base experiment has room in a page and in the mapping.
LEMMA BaseSizes ==
  /\ Stride \in Nat \ {0} /\ Steps \in Nat /\ Steps >= 2 /\ Steps - 1 \in Nat \ {0}
  /\ Stride >= LineSize /\ Magnitude(Stride) = Stride /\ Degree # 0
  /\ Steps * Stride \in Nat /\ (Steps - 1) * Stride \in Nat /\ InMapping(Steps * Stride)
<1>1. Stride \in Nat \ {0} /\ Steps \in Nat /\ Steps >= 2
  BY TestsAssumption
<1>2. Steps * Stride \in Nat /\ (Steps - 1) * Stride \in Nat
  BY <1>1
<1>3. QED
  BY <1>1, <1>2, RoomAssumption, TestsAssumption DEF Magnitude, InMapping

\* On a prefetcher that follows the base experiment, the accesses that share an
\* entry decide.
LEMMA BaseFollowed ==
  ASSUME kind \in Kinds, FollowsBase
  PROVE  /\ Steps >= kind.confirm
         /\ \A x : IsBase(x) =>
              (Follows(kind, x) <=>
                 /\ Sharing(kind, x) >= kind.confirm
                 /\ x.variant = "two" /\ Sharing(kind, x) = x.exp.step => x.tail >= kind.resume)
<1>1. /\ Loop(Base).exp.stride = Stride /\ Loop(Base).variant = "full" /\ Loop(Base).bits = 64
      /\ Loop(Base).random = FALSE /\ Loop(Base).exp.step = Steps /\ Loop(Base).exp.first = 0
  BY DEF Loop, Base, Experiment, Whole
<1>2. LastAccess(Loop(Base)) = (Steps - 1) * Stride
  BY <1>1, BaseSizes DEF LastAccess
<1>3. Sharing(kind, Loop(Base)) = Steps
  BY <1>1, KindType DEF Sharing
<1>4. QED
  BY <1>1, <1>2, <1>3 DEF FollowsBase, Follows, IsBase, Patterns

\* What the experiments with two mappings have in common with the base.
LEMMA InTwoIsBase ==
  ASSUME NEW n \in {1, 2}, NEW bits
  PROVE  LET x == InTwo(Base, n, bits)
         IN  /\ IsBase(x) /\ x.exp.step = Steps /\ x.tail = n /\ x.bits = bits /\ x.variant = "two"
             /\ IsRun(x) /\ \A d \in 1..Degree : Offset(x, x.exp.step - 1 + d) = (Steps - 1 + d) * Stride
<1> DEFINE x == InTwo(Base, n, bits)
<1>1. /\ x.exp = Base /\ x.variant = "two" /\ x.random = FALSE /\ x.tail = n /\ x.bits = bits
      /\ Base.stride = Stride /\ Base.step = Steps /\ Base.first = 0
  BY DEF InTwo, Loop, Base, Experiment
<1>2. IsExperiment(Base) /\ n \in 1..Base.step
  BY <1>1, BaseSizes DEF IsExperiment
<1>3. IsRun(x)
  BY <1>1, <1>2, BaseSizes, InTwoIsRun
<1> HIDE DEF x
<1>4. IsBase(x)
  BY <1>1, BaseSizes DEF IsBase, Patterns, LastAccess, Offset
<1>5. \A d \in 1..Degree : Offset(x, x.exp.step - 1 + d) = (Steps - 1 + d) * Stride
  BY <1>1, BaseSizes, ExperimentAssumption DEF Offset
<1>6. QED
  BY <1>1, <1>3, <1>4, <1>5 DEF x

\* So have as many accesses alone, at the same place as the last ones.
LEMMA AloneIsBase ==
  ASSUME NEW n \in {1, 2}
  PROVE  LET x == Loop(Experiment(Stride, n, (Steps - n) * Stride))
         IN  /\ IsBase(x) /\ x.exp.step = n /\ x.bits = Whole /\ x.variant = "full"
             /\ IsRun(x) /\ \A d \in 1..Degree : Offset(x, x.exp.step - 1 + d) = (Steps - 1 + d) * Stride
<1> DEFINE e == Experiment(Stride, n, (Steps - n) * Stride)
           x == Loop(e)
<1>1. /\ x.exp = e /\ x.variant = "full" /\ x.random = FALSE /\ x.bits = Whole
      /\ e.stride = Stride /\ e.step = n /\ e.first = (Steps - n) * Stride
  BY DEF Loop, Experiment
<1>2. (Steps - n) * Stride \in Nat
  BY BaseSizes
<1>3. IsRun(x)
  <2>1. IsExperiment(e)
    BY <1>1, <1>2, BaseSizes DEF IsExperiment
  <2>2. QED
    BY <2>1, LoopIsRun
<1> HIDE DEF x, e
<1>4. (Steps - n) * Stride + (n - 1) * Stride = (Steps - 1) * Stride
      /\ (Steps - n) * Stride + n * Stride = Steps * Stride
  BY BaseSizes
<1>5. IsBase(x)
  BY <1>1, <1>4 DEF IsBase, Patterns, LastAccess, Offset
<1>6. ASSUME NEW d \in 1..Degree
      PROVE  Offset(x, x.exp.step - 1 + d) = (Steps - 1 + d) * Stride
  <2>1. d \in Int
    BY ExperimentAssumption
  <2>2. (Steps - n) * Stride + (n - 1 + d) * Stride = (Steps - 1 + d) * Stride
    BY <2>1, BaseSizes
  <2>3. QED
    BY <1>1, <2>2 DEF Offset
<1>7. QED
  BY <1>1, <1>3, <1>5, <1>6 DEF x, e

\* How many lines such an experiment reports.
LEMMA BaseCount ==
  ASSUME NEW x, IsBase(x), IsRun(x)
  PROVE  LET c == Cardinality(Reported(kind, x))
         IN  /\ c \in Nat /\ (c > 0 <=> Follows(kind, x)) /\ (c = 0 <=> ~Follows(kind, x))
             /\ Follows(kind, x) => c = Cardinality(Following(x))
<1>1. /\ x.variant \notin Patterns /\ Degree # 0
      /\ Magnitude(x.exp.stride) >= LineSize /\ InMapping(Offset(x, x.exp.step))
  BY BaseSizes DEF IsBase
<1>2. QED
  BY <1>1, ReportedCount

\* One and two accesses in the second mapping after the others in the first one.
LEMMA TwoMappingsTold ==
  ASSUME ToldInv, TestInv, pc = "concluded", test # "single", FollowsBase,
         NEW bits \in {0, Whole}, Experiments = TwoMappings(bits)
  PROVE  /\ TwoMappingsResult.after_1_access =
              (~kind.area /\ kind.bits <= bits /\ kind.resume <= 1)
         /\ TwoMappingsResult.after_2_accesses =
              (~kind.area /\ kind.bits <= bits /\ kind.resume <= 2 /\ kind.confirm > 2)
<1> DEFINE x1 == InTwo(Base, 1, bits)
           x2 == InTwo(Base, 2, bits)
           x3 == Loop(Experiment(Stride, 1, (Steps - 1) * Stride))
           x4 == Loop(Experiment(Stride, 2, (Steps - 2) * Stride))
           F(x) == Follows(kind, x)
<1>1. DOMAIN Experiments = {1, 2, 3, 4} /\ Experiments[1] = x1 /\ Experiments[2] = x2
      /\ Experiments[3] = x3 /\ Experiments[4] = x4
  BY DEF TwoMappings
<1>2. /\ kind \in Kinds /\ bits \in Nat
      /\ \A n \in {1, 2, 3, 4} : Experiments[n].variant \notin Patterns =>
                                   Count(n) = Cardinality(Reported(kind, Experiments[n]))
  BY <1>1, CountsTold DEF Whole
<1>3. /\ IsBase(x1) /\ x1.exp.step = Steps /\ x1.tail = 1 /\ x1.bits = bits /\ x1.variant = "two"
      /\ IsBase(x2) /\ x2.exp.step = Steps /\ x2.tail = 2 /\ x2.bits = bits /\ x2.variant = "two"
      /\ IsRun(x1) /\ IsRun(x2)
      /\ \A d \in 1..Degree : Offset(x2, x2.exp.step - 1 + d) = (Steps - 1 + d) * Stride
  BY InTwoIsBase
<1>4. /\ IsBase(x3) /\ x3.exp.step = 1 /\ x3.bits = Whole /\ x3.variant = "full"
      /\ IsBase(x4) /\ x4.exp.step = 2 /\ x4.bits = Whole /\ x4.variant = "full"
      /\ IsRun(x3) /\ IsRun(x4)
      /\ \A d \in 1..Degree : Offset(x4, x4.exp.step - 1 + d) = (Steps - 1 + d) * Stride
  BY AloneIsBase
<1> HIDE DEF x1, x2, x3, x4
<1>5. Following(x2) = Following(x4)
  BY <1>3, <1>4 DEF Following
<1>6. Count(1) = Cardinality(Reported(kind, x1)) /\ Count(2) = Cardinality(Reported(kind, x2))
      /\ Count(3) = Cardinality(Reported(kind, x3)) /\ Count(4) = Cardinality(Reported(kind, x4))
  BY <1>1, <1>2, <1>3, <1>4 DEF IsBase
<1>7. /\ Sharing(kind, x1) = IF kind.area \/ bits < kind.bits THEN 1 ELSE Steps
      /\ Sharing(kind, x2) = IF kind.area \/ bits < kind.bits THEN 2 ELSE Steps
      /\ Sharing(kind, x3) = 1 /\ Sharing(kind, x4) = 2
  BY <1>2, <1>3, <1>4, KindType DEF Sharing, Whole
<1>8. /\ Steps >= kind.confirm
      /\ \A x \in {x1, x2, x3, x4} :
           F(x) <=> /\ Sharing(kind, x) >= kind.confirm
                    /\ x.variant = "two" /\ Sharing(kind, x) = x.exp.step => x.tail >= kind.resume
  BY <1>2, <1>3, <1>4, BaseFollowed
<1>9. /\ F(x1) <=> ~kind.area /\ kind.bits <= bits /\ 1 >= kind.resume
      /\ kind.confirm > 2 => (F(x2) <=> ~kind.area /\ kind.bits <= bits /\ 2 >= kind.resume)
      /\ ~F(x3) /\ (F(x4) <=> kind.confirm <= 2)
  BY <1>2, <1>3, <1>4, <1>7, <1>8, KindType, BaseSizes
<1> HIDE DEF F
<1>10. /\ Count(1) \in Nat /\ (Count(1) > 0 <=> F(x1)) /\ Count(2) \in Nat
       /\ (Count(2) > 0 <=> F(x2)) /\ (Count(2) = 0 <=> ~F(x2)) /\ (Count(3) = 0 <=> ~F(x3))
       /\ Count(4) \in Nat /\ (Count(4) = 0 <=> ~F(x4))
       /\ (F(x2) /\ F(x4) => Count(2) = Count(4))
  BY <1>3, <1>4, <1>5, <1>6, BaseCount DEF F
<1>11. (Count(1) > Count(3)) <=> (~kind.area /\ kind.bits <= bits /\ kind.resume <= 1)
  BY <1>2, <1>9, <1>10, KindType
<1>12. (Count(2) > Count(4)) <=>
         (~kind.area /\ kind.bits <= bits /\ kind.resume <= 2 /\ kind.confirm > 2)
  <2>1. CASE kind.confirm > 2
    BY <1>2, <1>9, <1>10, <2>1, KindType
  <2>2. CASE ~(kind.confirm > 2)
    BY <1>2, <1>9, <1>10, <2>2, KindType
  <2>3. QED
    BY <2>1, <2>2
<1>13. QED
  BY <1>11, <1>12 DEF TwoMappingsResult

\* Whether another instruction continues the stride is whether bits are compared.
LEMMA DifferentPcTold ==
  ASSUME ToldInv, TestInv, pc = "concluded", test = "different_pc_same_memory", FollowsBase
  PROVE  result.triggers_prefetch = (kind.bits = 0)
<1> DEFINE x == [Loop(Base) EXCEPT !.bits = 0]
<1>1. Experiments = <<x, Loop(Base)>>
  BY DEF Experiments, DifferentPc
<1>2. /\ x.exp = Base /\ x.variant = "full" /\ x.random = FALSE /\ x.bits = 0
      /\ Base.stride = Stride /\ Base.step = Steps /\ Base.first = 0
  BY DEF Loop, Base, Experiment
<1>3. IsBase(x)
  BY <1>2, BaseSizes DEF IsBase, Patterns, LastAccess, Offset
<1> HIDE DEF x
<1>4. /\ kind \in Kinds /\ IsRun(x) /\ Count(1) = Cardinality(Reported(kind, x))
      /\ result = Result
  BY <1>1, <1>3, CountsTold DEF IsBase
<1>5. Sharing(kind, x) = IF 0 < kind.bits THEN 1 ELSE Steps
  BY <1>2 DEF Sharing
<1>6. Follows(kind, x) <=> kind.bits = 0
  BY <1>2, <1>3, <1>4, <1>5, BaseFollowed, KindType
<1>7. (Count(1) # 0) <=> kind.bits = 0
  BY <1>3, <1>4, <1>6, BaseCount
<1>8. QED
  BY <1>4, <1>7 DEF Result

\* One function of each pair in the first mapping and the other one in the second.
LEMMA PcCollisionTold ==
  ASSUME ToldInv, TestInv, pc = "concluded", NEW accesses \in {1, 2},
         test = <<"pc_collision_1acc", "pc_collision_2acc">>[accesses],
         FollowsBase, kind.confirm > accesses
  PROVE  result.min_colliding_bits =
           IF kind.area \/ kind.resume > accesses \/ kind.bits > MaxBits THEN -1
           ELSE Largest({kind.bits, MinBits})
<1>1. test \in {"pc_collision_1acc", "pc_collision_2acc"} /\ test # "single"
      /\ Experiments = PcCollision(accesses)
  BY DEF Experiments
<1> DEFINE N == MaxBits - MinBits + 1
           x(b) == InTwo(Base, accesses, b)
           found == {MinBits + i - 1 : i \in {n \in DOMAIN vectors : Count(n) > 0}}
<1>2. /\ MinBits \in Nat /\ MaxBits \in Nat /\ MinBits <= MaxBits
  BY CodeAssumption
<1>3. DOMAIN Experiments = 1..N /\ \A i \in 1..N : Experiments[i] = x(MinBits + i - 1)
  <2>1. ASSUME NEW i \in 1..N
        PROVE  CollidingBits(get_maccess_functions(MinBits + i - 1)) = MinBits + i - 1
    <3>1. MinBits + i - 1 \in MinBits..MaxBits
      BY <1>2
    <3>2. QED
      BY <3>1, FunctionsCollideIn
  <2>2. QED
    BY <1>1, <2>1 DEF PcCollision
<1>4. /\ kind \in Kinds /\ result = Result /\ DOMAIN vectors = 1..N
      /\ \A i \in 1..N : x(MinBits + i - 1).variant \notin Patterns =>
                           Count(i) = Cardinality(Reported(kind, x(MinBits + i - 1)))
  BY <1>1, <1>3, CountsTold
<1>5. \A b : /\ IsBase(x(b)) /\ x(b).exp.step = Steps /\ x(b).tail = accesses /\ x(b).bits = b
             /\ x(b).variant = "two" /\ IsRun(x(b))
  BY InTwoIsBase
<1> HIDE DEF x, N
<1>6. ASSUME NEW b \in MinBits..MaxBits
      PROVE  Follows(kind, x(b)) <=> ~kind.area /\ kind.bits <= b /\ kind.resume <= accesses
  <2>1. Sharing(kind, x(b)) = IF kind.area \/ b < kind.bits THEN accesses ELSE Steps
    BY <1>5 DEF Sharing
  <2>2. b \in Nat
    BY <1>2
  <2>3. QED
    BY <1>4, <1>5, <2>1, <2>2, BaseFollowed, KindType, BaseSizes
<1>7. ASSUME NEW i \in 1..N
      PROVE  Count(i) > 0 <=> ~kind.area /\ kind.bits <= MinBits + i - 1 /\ kind.resume <= accesses
  <2>1. MinBits + i - 1 \in MinBits..MaxBits
    BY <1>2 DEF N
  <2>2. Count(i) = Cardinality(Reported(kind, x(MinBits + i - 1)))
    BY <1>4, <1>5 DEF IsBase
  <2>3. Count(i) > 0 <=> Follows(kind, x(MinBits + i - 1))
    BY <1>5, <2>2, BaseCount
  <2>4. QED
    BY <1>6, <2>1, <2>3
<1>8. found = {b \in MinBits..MaxBits : ~kind.area /\ kind.bits <= b /\ kind.resume <= accesses}
  <2>1. ASSUME NEW b \in found
        PROVE  b \in MinBits..MaxBits /\ ~kind.area /\ kind.bits <= b /\ kind.resume <= accesses
    <3>1. PICK i \in 1..N : b = MinBits + i - 1 /\ Count(i) > 0
      BY <1>4
    <3>2. QED
      BY <1>2, <1>7, <3>1 DEF N
  <2>2. ASSUME NEW b \in MinBits..MaxBits, ~kind.area, kind.bits <= b, kind.resume <= accesses
        PROVE  b \in found
    <3>1. b - MinBits + 1 \in 1..N /\ b = MinBits + (b - MinBits + 1) - 1
      BY <1>2 DEF N
    <3>2. Count(b - MinBits + 1) > 0
      BY <1>7, <2>2, <3>1
    <3>3. QED
      BY <1>4, <3>1, <3>2
  <2>3. QED
    BY <2>1, <2>2
<1>9. result.min_colliding_bits = IF found = {} THEN -1 ELSE Smallest(found)
  BY <1>1, <1>4 DEF Result, PcCollisionResult
<1> HIDE DEF found
<1>10. /\ kind.bits \in Nat /\ kind.resume \in Nat
  BY <1>4, KindType
<1>11. CASE kind.area \/ kind.resume > accesses \/ kind.bits > MaxBits
  <2>1. found = {}
    BY <1>2, <1>8, <1>10, <1>11
  <2>2. QED
    BY <1>9, <1>11, <2>1
<1>12. CASE ~(kind.area \/ kind.resume > accesses \/ kind.bits > MaxBits)
  <2> DEFINE m == IF kind.bits >= MinBits THEN kind.bits ELSE MinBits
  <2>1. m \in found /\ \A b \in found : m <= b
    BY <1>2, <1>8, <1>10, <1>12
  <2>2. found \subseteq Int
    BY <1>2, <1>8
  <2>3. {kind.bits, MinBits} \subseteq Int /\ m \in {kind.bits, MinBits}
        /\ \A y \in {kind.bits, MinBits} : m >= y
    BY <1>2, <1>10
  <2> HIDE DEF m
  <2>4. Smallest(found) = m
    BY <2>1, <2>2, SmallestIs
  <2>5. Largest({kind.bits, MinBits}) = m
    BY <2>3, LargestIs
  <2>6. QED
    BY <1>9, <1>12, <2>1, <2>4, <2>5
<1>13. QED
  BY <1>11, <1>12

\* The conclusions of these tests from the invariants.
LEMMA SharingConcluded ==
  ASSUME ToldInv, TestInv
  PROVE  SharingTold
<1> SUFFICES ASSUME pc = "concluded", FollowsBase PROVE SharingTold
  BY DEF SharingTold
<1>1. ASSUME test = "same_pc_different_memory"
      PROVE  /\ result.after_1_access = (~kind.area /\ kind.resume <= 1)
             /\ result.after_2_accesses = (~kind.area /\ kind.resume <= 2 /\ kind.confirm > 2)
  <2>1. test # "single" /\ Experiments = TwoMappings(Whole)
    BY <1>1 DEF Experiments
  <2>2. result = TwoMappingsResult /\ kind.bits <= Whole
    BY <1>1, <2>1, CountsTold, KindType DEF Result, Whole
  <2>3. QED
    BY <2>1, <2>2, TwoMappingsTold
<1>2. ASSUME test = "different_pc_different_memory"
      PROVE  /\ result.after_1_access = (~kind.area /\ kind.bits = 0 /\ kind.resume <= 1)
             /\ result.after_2_accesses =
                  (~kind.area /\ kind.bits = 0 /\ kind.resume <= 2 /\ kind.confirm > 2)
  <2>1. test # "single" /\ Experiments = TwoMappings(0)
    BY <1>2 DEF Experiments
  <2>2. result = TwoMappingsResult /\ (kind.bits <= 0 <=> kind.bits = 0)
    BY <1>2, <2>1, CountsTold, KindType DEF Result
  <2>3. QED
    BY <2>1, <2>2, TwoMappingsTold
<1>3. QED
  BY <1>1, <1>2, DifferentPcTold, PcCollisionTold DEF SharingTold

\* The inductive invariant of the tests, but for the histogram over bytes.
LEMMA TestInvariant ==
  ASSUME Noise < 1000, Divisor >= 2
  PROVE  /\ TestInit => IInv /\ TestInv /\ FoundInv /\ ToldInv
         /\ IInv /\ TestInv /\ FoundInv /\ ToldInv /\ [TestNext]_allVars =>
              IInv' /\ TestInv' /\ FoundInv' /\ ToldInv'
BY TestFresh, FreshInv, FreshFound, ToldFresh, TestNextInv, TestFound, ToldNext

\* Whatever the prefetcher, what the tests with two mappings, with two instructions
\* and with colliding ones conclude about its table is right, if it follows their
\* stride at all.
THEOREM StrideSharingTold ==
  ASSUME Noise < 1000, Divisor >= 2
  PROVE  TestSpec => []SharingTold
BY TestInvariant, SharingConcluded, PTL DEF TestSpec

\* The line at a multiple of the line size, the page of a line.
LEMMA LineOfMultiple ==
  ASSUME NEW l \in Nat
  PROVE  LineOf(l * LineSize) = l
<1>1. LineSize \in Nat \ {0} /\ l * LineSize = LineSize * l
  BY LineSizeAssumption
<1>2. (LineSize * l) \div LineSize = l
  BY <1>1, MultipleDiv
<1>3. QED
  BY <1>1, <1>2 DEF LineOf

\* A byte behind the beginning of a line, in the line.
LEMMA LineWithin ==
  ASSUME NEW l \in Nat, NEW r \in Nat, r < LineSize
  PROVE  LineOf(l * LineSize + r) = l
<1>1. LineSize \in Nat \ {0} /\ l * LineSize = LineSize * l
  BY LineSizeAssumption
<1>2. (LineSize * l + r) \div LineSize = l
  BY <1>1, DivUnique
<1>3. QED
  BY <1>1, <1>2 DEF LineOf

LEMMA PageOfLine ==
  ASSUME NEW o \in Int, NEW p \in Nat, LineOf(o) \in (PageLines * p)..(PageLines * p + PageLines - 1)
  PROVE  Page(o) = p
<1> DEFINE r == LineOf(o) - PageLines * p
           l == LineOf(o)
<1>1. PageLines \in Nat \ {0} /\ PageLines * p \in Nat
  BY TestsAssumption
<1>2. r \in Nat /\ r < PageLines /\ l = PageLines * p + r
  BY <1>1
<1> HIDE DEF l, r
<1>3. (PageLines * p + r) \div PageLines = p
  BY <1>1, <1>2, DivUnique
<1>4. l \div PageLines = p
  BY <1>2, <1>3
<1>5. QED
  BY <1>4 DEF Page, l

\* The bytes of the first page.
LEMMA FirstPage ==
  ASSUME NEW o \in Nat
  PROVE  /\ o < PageLines * LineSize => Page(o) = 0
         /\ o = PageLines * LineSize => Page(o) = 1
         /\ o >= PageLines * LineSize => Page(o) # 0
<1>1. PageLines \in Nat \ {0} /\ LineSize \in Nat \ {0}
  BY TestsAssumption, LineSizeAssumption
<1> DEFINE l == LineOf(o)
           c == l * LineSize
           e == PageLines * LineSize
<1>2. l \in Int /\ c \in Int /\ e \in Nat /\ c <= o /\ o < c + LineSize
  BY <1>1, LineOfByte
<1>3. l >= 0
  <2>1. ASSUME l < 0 PROVE c + LineSize <= 0
    <3>1. LineSize * (-l) >= LineSize /\ LineSize * (-l) = -c
      BY <1>1, <1>2, <2>1, TimesGrows
    <3> HIDE DEF l, c
    <3>2. QED
      BY <1>1, <1>2, <3>1
  <2> HIDE DEF l, c
  <2>2. QED
    BY <1>1, <1>2, <2>1
<1>4. l >= PageLines => c >= e
  <2>1. ASSUME l >= PageLines PROVE c >= e
    <3>1. LineSize * (l - PageLines) >= 0 /\ LineSize * (l - PageLines) = c - e
      BY <1>1, <1>2, <2>1
    <3> HIDE DEF l, c, e
    <3>2. QED
      BY <1>2, <3>1
  <2>2. QED
    BY <2>1
<1>5. l < PageLines => c + LineSize <= e
  <2>1. ASSUME l < PageLines PROVE c + LineSize <= e
    <3>1. LineSize * (PageLines - l) >= LineSize /\ LineSize * (PageLines - l) = e - c
      BY <1>1, <1>2, <2>1, TimesGrows
    <3> HIDE DEF l, c, e
    <3>2. QED
      BY <1>1, <1>2, <3>1
  <2>2. QED
    BY <2>1
<1>6. ASSUME o < e PROVE Page(o) = 0
  <2>1. l < PageLines
    <3> HIDE DEF l, c, e
    <3>1. QED
      BY <1>1, <1>2, <1>4, <1>6
  <2>2. PageLines * 0 = 0 /\ l \in 0..(PageLines - 1)
    BY <1>1, <1>2, <1>3, <2>1
  <2>3. QED
    BY <1>1, <2>2, PageOfLine
<1>7. ASSUME o >= e PROVE Page(o) # 0
  <2>1. l >= PageLines
    <3> HIDE DEF l, c, e
    <3>1. QED
      BY <1>1, <1>2, <1>5, <1>7
  <2> HIDE DEF l, c, e
  <2> DEFINE q == l \div PageLines
             r == l % PageLines
  <2>2. q \in Int /\ r \in Int /\ l = PageLines * q + r /\ 0 <= r /\ r < PageLines
    <3>1. l \in Int /\ PageLines \in Nat \ {0}
      BY <1>1, <1>2
    <3>2. QED
      BY <3>1
  <2> HIDE DEF q, r
  <2>3. PageLines * 0 = 0
    BY <1>1
  <2>4. q # 0
    BY <1>1, <1>2, <2>1, <2>2, <2>3
  <2>5. QED
    BY <2>4 DEF Page, q, l
<1>8. ASSUME o = e PROVE Page(o) = 1
  <2>1. l = PageLines
    BY <1>1, <1>8, LineOfMultiple
  <2>2. PageLines * 1 = PageLines /\ l \in PageLines..(PageLines + PageLines - 1)
    BY <1>1, <2>1
  <2>3. QED
    BY <1>1, <2>2, PageOfLine
<1>9. QED
  BY <1>6, <1>7, <1>8

------------------------------------------------------------------------------
\* Directions, small strides, random offsets and the ends of pages

\* What a loop with one stride is to the prefetcher.
LEMMA LoopFollowed ==
  ASSUME NEW k \in Kinds, NEW x, NEW e, IsExperiment(e), x.exp = e, x.variant \in {"full", "lazy"}, x.bits = Whole
  PROVE  Follows(k, x) <=>
           /\ e.step >= k.confirm
           /\ IF k.bytes THEN ~x.random ELSE Magnitude(e.stride) >= LineSize
           /\ Magnitude(e.stride) >= LineSize => Magnitude(e.stride) \div LineSize \in k.strides
           /\ \/ Page(e.first + e.step * e.stride) = Page(e.first + (e.step - 1) * e.stride)
              \/ k.crosses
<1>1. k.bits \in Nat /\ k.bits <= Whole
  BY TestsAssumption, RoomAssumption
<1>2. Sharing(k, x) = e.step
  BY <1>1 DEF Sharing, Whole
<1>3. LastAccess(x) = e.first + (e.step - 1) * e.stride
  BY DEF LastAccess
<1>4. (e.first + (e.step - 1) * e.stride) + e.stride = e.first + e.step * e.stride
  BY DEF IsExperiment
<1>5. QED
  BY <1>2, <1>3, <1>4 DEF Follows

\* test_direction finds a prefetcher upwards and downwards when it follows.
LEMMA DirectionTold ==
  ASSUME ToldInv, TestInv, pc = "concluded", test = "direction"
  PROVE  /\ result.positive_direction = Follows(kind, Direction[1])
         /\ result.negative_direction = Follows(kind, Direction[2])
<1>1. Experiments = Direction /\ test # "single" /\ DOMAIN Direction = {1, 2}
  BY DEF Experiments, Direction
<1>2. /\ test \in Tests /\ result = Result
      /\ \A n \in {1, 2} : /\ IsRun(Direction[n])
                           /\ Direction[n].variant \notin Patterns =>
                                Count(n) = Cardinality(Reported(kind, Direction[n]))
  BY <1>1, CountsTold
<1> DEFINE s == DirectionStride
           z == (Lines - 1) * LineSize
           m == DirectionSteps * s
<1>3. /\ s \in Nat \ {0} /\ DirectionSteps \in Nat \ {0} /\ s >= LineSize /\ m < Size - LineSize
      /\ Degree # 0
  BY <1>2, TestsAssumption, RoomAssumption
<1>4. z \in Nat /\ m \in Nat /\ z = Size - LineSize /\ LineSize \in Nat \ {0}
  BY <1>3, PositiveSize, LineSizeAssumption DEF Size
<1>5. /\ Direction[1] = Loop(Experiment(s, DirectionSteps, 0))
      /\ Direction[2] = Loop(Experiment(-s, DirectionSteps, z))
  BY <1>3 DEF Direction, FirstAccess
<1>6. /\ InMapping(Offset(Direction[1], DirectionSteps))
      /\ InMapping(Offset(Direction[2], DirectionSteps))
  <2>1. Offset(Direction[1], DirectionSteps) = 0 + m
    BY <1>5 DEF Offset, Loop, Experiment
  <2>2. Offset(Direction[2], DirectionSteps) = z + DirectionSteps * (-s)
    BY <1>5 DEF Offset, Loop, Experiment
  <2>3. DirectionSteps * (-s) = -m
    BY <1>3
  <2> HIDE DEF m, z, s
  <2>4. QED
    BY <1>3, <1>4, <2>1, <2>2, <2>3, PositiveSize DEF InMapping
<1>7. \A n \in {1, 2} : /\ Direction[n].variant \notin Patterns
                        /\ Magnitude(Direction[n].exp.stride) >= LineSize
                        /\ Direction[n].exp.step = DirectionSteps
  BY <1>3, <1>5 DEF Loop, Experiment, Patterns, Magnitude
<1>8. \A n \in {1, 2} : Count(n) > 0 <=> Follows(kind, Direction[n])
  <2> SUFFICES ASSUME NEW n \in {1, 2} PROVE Count(n) > 0 <=> Follows(kind, Direction[n])
    OBVIOUS
  <2> DEFINE x == Direction[n]
  <2>1. /\ IsRun(x) /\ x.variant \notin Patterns /\ Magnitude(x.exp.stride) >= LineSize
        /\ InMapping(Offset(x, x.exp.step)) /\ Count(n) = Cardinality(Reported(kind, x))
    BY <1>2, <1>6, <1>7
  <2> HIDE DEF x
  <2>2. Count(n) > 0 <=> Follows(kind, x)
    BY <1>3, <2>1, ReportedCount
  <2>3. QED
    BY <2>2 DEF x
<1>9. /\ result.positive_direction = (Count(1) > 0)
      /\ result.negative_direction = (Count(2) > 0)
  BY <1>2 DEF Result
<1>10. Follows(kind, Direction[1]) \in BOOLEAN /\ Follows(kind, Direction[2]) \in BOOLEAN
  BY DEF Follows
<1>11. QED
  BY <1>8, <1>9, <1>10

\* Strides of a quarter of a line stay in the first line until the fifth access.
LEMMA LessThanLineTold ==
  ASSUME ToldInv, TestInv, pc = "concluded", test = "stride_less_than_cl_size"
  PROVE  result.stride_less_than_cl_size =
           IF kind.bytes /\ kind.confirm <= 4 THEN "triggers prefetch" ELSE "no effect"
<1> DEFINE q == LineSize \div 4
           x == Loop(Experiment(q, 4, 0))
           y == Loop(Experiment(LineSize, 1, 0))
<1>1. Experiments = <<x, y>> /\ test # "single"
  BY DEF Experiments, LessThanLine
<1>2. /\ test \in Tests /\ kind \in Kinds /\ result = Result /\ IsRun(x) /\ IsRun(y)
      /\ x.variant \notin Patterns => Count(1) = Cardinality(Reported(kind, x))
      /\ y.variant \notin Patterns => Count(2) = Cardinality(Reported(kind, y))
  BY <1>1, CountsTold
<1>3. /\ LineSize \in Nat \ {0} /\ LineSize >= 4 /\ LineSize % 4 = 0 /\ 1 < PageLines /\ 1 < Lines
      /\ Lines \in Nat /\ PageLines \in Nat /\ Degree # 0
  BY <1>2, TestsAssumption, RoomAssumption, LineSizeAssumption, PositiveSize
<1>4. q \in Nat \ {0} /\ LineSize = 4 * q /\ 3 * q < LineSize
  BY <1>3
<1>5. /\ x.exp = Experiment(q, 4, 0) /\ x.variant = "full" /\ x.bits = Whole /\ x.random = FALSE
      /\ y.exp = Experiment(LineSize, 1, 0) /\ y.variant = "full" /\ y.bits = Whole
  BY DEF Loop
<1>6. /\ x.exp.stride = q /\ x.exp.step = 4 /\ x.exp.first = 0
      /\ y.exp.stride = LineSize /\ y.exp.step = 1 /\ y.exp.first = 0
  BY <1>5 DEF Experiment
<1>7. IsExperiment(x.exp) /\ IsExperiment(y.exp)
  BY <1>3, <1>4, <1>6 DEF IsExperiment
<1> HIDE DEF x, y, q
<1>8. InMapping(LineSize) /\ LineSize < PageLines * LineSize
  <2>1. LineSize * (Lines - 1) >= LineSize * 1 /\ LineSize * (Lines - 1) = Size - LineSize
    BY <1>3, TimesGrows DEF Size
  <2>2. LineSize * (PageLines - 1) >= LineSize /\ LineSize * (PageLines - 1) = PageLines * LineSize - LineSize
    BY <1>3, TimesGrows
  <2>3. PageLines * LineSize \in Nat
    BY <1>3
  <2>4. QED
    BY <1>3, <2>1, <2>2, <2>3, PositiveSize DEF InMapping
<1>9. Count(2) = 0
  <2>1. Offset(y, y.exp.step) = LineSize
    BY <1>3, <1>6 DEF Offset
  <2>2. Magnitude(y.exp.stride) >= LineSize
    BY <1>3, <1>6 DEF Magnitude
  <2>3. ~Follows(kind, y)
    BY <1>2, <1>5, <1>6, <1>7, LoopFollowed, KindType
  <2>4. QED
    BY <1>2, <1>3, <1>5, <1>8, <2>1, <2>2, <2>3, ReportedCount DEF Patterns
<1>10. Follows(kind, x) <=> kind.bytes /\ kind.confirm <= 4
  <2>1. ~(Magnitude(x.exp.stride) >= LineSize)
    BY <1>3, <1>4, <1>6 DEF Magnitude
  <2>2. Page(LineSize) = 0 /\ Page(3 * q) = 0
    BY <1>3, <1>4, <1>8, FirstPage
  <2>3. /\ x.exp.first + x.exp.step * x.exp.stride = LineSize
        /\ x.exp.first + (x.exp.step - 1) * x.exp.stride = 3 * q
    BY <1>4, <1>6
  <2>4. Page(x.exp.first + x.exp.step * x.exp.stride) = Page(x.exp.first + (x.exp.step - 1) * x.exp.stride)
    BY <2>2, <2>3
  <2>5. QED
    BY <1>2, <1>5, <1>6, <1>7, <2>1, <2>4, LoopFollowed, KindType
<1>11. 1 \in Following(x) \ Touched(x)
  <2>1. \A i \in 0..3 : LineOf(Offset(x, i)) = 0
    <3>1. ASSUME NEW i \in 0..3 PROVE LineOf(Offset(x, i)) = 0
      <4>1. Offset(x, i) = i * q /\ i * q \in Nat /\ i * q < LineSize
        BY <1>4, <1>6 DEF Offset
      <4>2. 0 * LineSize + i * q = i * q
        BY <1>3, <4>1
      <4>3. QED
        BY <4>1, <4>2, LineWithin
    <3>2. QED
      BY <3>1
  <2>2. LineOf(Offset(x, 4)) = 1 /\ Offset(x, 4) = LineSize
    <3>1. Offset(x, 4) = LineSize /\ 1 * LineSize = LineSize
      BY <1>3, <1>4, <1>6 DEF Offset
    <3>2. QED
      BY <3>1, LineOfMultiple
  <2>3. 1 \in 1..Degree /\ x.exp.step - 1 + 1 = 4
    BY <1>3, <1>6, ExperimentAssumption
  <2>4. 1 \in Following(x)
    BY <1>8, <2>2, <2>3 DEF Following
  <2>5. \A l \in Touched(x) : l = 0
    BY <1>5, <1>6, <2>1 DEF Touched
  <2>6. QED
    BY <2>4, <2>5
<1>12. Count(1) \in Nat /\ (Count(1) > 0 <=> Follows(kind, x))
  <2>1. Count(1) = Cardinality(Reported(kind, x))
    BY <1>2, <1>5 DEF Patterns
  <2>2. Reported(kind, x) \in SUBSET Following(x)
    BY DEF Reported
  <2>3. IsFiniteSet(Reported(kind, x)) /\ Count(1) \in Nat
    BY <2>1, <2>2, FollowingFinite
  <2>4. Count(1) = 0 <=> Reported(kind, x) = {}
    BY <2>1, <2>3, FS_EmptySet
  <2>5. Reported(kind, x) = {} <=> ~Follows(kind, x)
    BY <1>11 DEF Reported
  <2>6. QED
    BY <2>3, <2>4, <2>5
<1>13. result.stride_less_than_cl_size =
         IF Follows(kind, x) THEN "triggers prefetch" ELSE "no effect"
  <2>1. result.stride_less_than_cl_size =
          CASE Count(1) = 0 /\ Count(2) = 0 -> "no effect"
            [] Count(1) > 0 /\ Count(2) = 0 -> "triggers prefetch"
            [] OTHER -> "inconclusive result"
    BY <1>2 DEF Result, LessThanLineResult
  <2>2. CASE Follows(kind, x)
    <3>1. Count(1) # 0 /\ Count(1) > 0 /\ Count(2) = 0
      BY <1>9, <1>12, <2>2
    <3>2. QED
      BY <2>1, <2>2, <3>1
  <2>3. CASE ~Follows(kind, x)
    <3>1. Count(1) = 0 /\ ~(Count(1) > 0) /\ Count(2) = 0
      BY <1>9, <1>12, <2>3
    <3>2. QED
      BY <2>1, <2>3, <3>1
  <2>4. QED
    BY <2>2, <2>3
<1>14. QED
  BY <1>10, <1>13

\* The last access of the experiment is the last one in its page.
LEMMA CrossPageTold ==
  ASSUME ToldInv, TestInv, pc = "concluded", test = "cross_page_boundary"
  PROVE  result.cross_page_boundary =
           (Follows([kind EXCEPT !.crosses = TRUE], Loop(Base)) /\ kind.crosses)
<1> DEFINE P == PageLines * LineSize
           e == Experiment(Stride, Steps, P - Steps * Stride)
           x == Loop(e)
           k == [kind EXCEPT !.crosses = TRUE]
<1>1. Experiments = <<x>> /\ test # "single"
  BY DEF Experiments, CrossPage
<1>2. /\ test \in Tests /\ kind \in Kinds /\ result = Result /\ IsRun(x)
      /\ x.variant \notin Patterns => Count(1) = Cardinality(Reported(kind, x))
  BY <1>1, CountsTold
<1>3. /\ PageLines \in Nat \ {0} /\ LineSize \in Nat \ {0} /\ P \in Nat /\ Steps * Stride <= P
      /\ PageLines < Lines /\ Lines \in Nat /\ Stride \in Nat \ {0} /\ Steps \in Nat /\ Steps >= 2
      /\ Steps * Stride \in Nat /\ Stride >= LineSize /\ Magnitude(Stride) = Stride /\ Degree # 0
  BY <1>2, TestsAssumption, RoomAssumption, LineSizeAssumption, PositiveSize, BaseSizes
<1>4. /\ x.exp = e /\ x.variant = "full" /\ x.bits = Whole /\ x.random = FALSE
      /\ e.stride = Stride /\ e.step = Steps /\ e.first = P - Steps * Stride
  BY DEF Loop, Experiment
<1>5. IsExperiment(e)
  BY <1>3, <1>4 DEF IsExperiment
<1> HIDE DEF x, e
<1>6. e.first + e.step * e.stride = P /\ e.first + (e.step - 1) * e.stride = P - Stride
  <2>1. (Steps - 1) * Stride = Steps * Stride - Stride
    BY <1>3
  <2> HIDE DEF P
  <2>2. QED
    BY <1>3, <1>4, <2>1
<1>7. P - Stride \in Nat /\ P - Stride < P
  <2>1. Stride * Steps >= Stride
    BY <1>3, TimesGrows
  <2> HIDE DEF P
  <2>2. QED
    BY <1>3, <2>1
<1>8. Page(P) = 1 /\ Page(P - Stride) = 0
  BY <1>3, <1>7, FirstPage
<1> DEFINE Suits == /\ Steps >= kind.confirm
                    /\ Stride \div LineSize \in kind.strides
<1>9. Follows(kind, x) <=> Suits /\ kind.crosses
  <2>1. Follows(kind, x) <=>
           /\ e.step >= kind.confirm
           /\ IF kind.bytes THEN ~x.random ELSE Magnitude(e.stride) >= LineSize
           /\ Magnitude(e.stride) >= LineSize => Magnitude(e.stride) \div LineSize \in kind.strides
           /\ \/ Page(e.first + e.step * e.stride) = Page(e.first + (e.step - 1) * e.stride)
              \/ kind.crosses
    BY <1>2, <1>4, <1>5, LoopFollowed
  <2>2. Page(e.first + e.step * e.stride) # Page(e.first + (e.step - 1) * e.stride)
    BY <1>6, <1>8
  <2>3. QED
    BY <1>3, <1>4, <2>1, <2>2
<1>10. Follows(k, Loop(Base)) <=> Suits
  <2>1. /\ k.bits = kind.bits /\ k.confirm = kind.confirm /\ k.bytes = kind.bytes
        /\ k.strides = kind.strides /\ k.crosses = TRUE /\ kind.bits <= 64 /\ kind.bits \in Nat
    BY <1>2, TestsAssumption, KindType
  <2> HIDE DEF k
  <2>2. /\ Loop(Base).exp = Base /\ Loop(Base).variant = "full" /\ Loop(Base).bits = 64
        /\ Loop(Base).random = FALSE /\ Base.step = Steps /\ Base.stride = Stride
    BY DEF Loop, Base, Experiment, Whole
  <2>3. Sharing(k, Loop(Base)) = Steps
    BY <2>1, <2>2 DEF Sharing
  <2>4. QED
    BY <1>3, <2>1, <2>2, <2>3 DEF Follows
<1> HIDE DEF Suits, k
<1>11. InMapping(Offset(x, x.exp.step))
  <2>1. LineSize * (Lines - PageLines) >= LineSize /\ LineSize * (Lines - PageLines) = Size - P
    BY <1>3, TimesGrows DEF Size
  <2>2. Offset(x, x.exp.step) = P
    BY <1>4, <1>6 DEF Offset
  <2> HIDE DEF P
  <2>3. QED
    BY <1>3, <2>1, <2>2, PositiveSize DEF InMapping
<1>12. Count(1) > 0 <=> Follows(kind, x)
  BY <1>2, <1>3, <1>4, <1>11, ReportedCount DEF Patterns
<1>13. result.cross_page_boundary = (Count(1) > 0)
  BY <1>2 DEF Result
<1>14. Follows(k, Loop(Base)) \in BOOLEAN /\ kind.crosses \in BOOLEAN
  BY <1>2, KindType DEF Follows
<1>15. QED
  BY <1>9, <1>10, <1>12, <1>13, <1>14 DEF k

\* The experiment with stride m lines (n: towards lower addresses) keeps to the
\* first or the last page of the mapping.
LEMMA RandomPages ==
  ASSUME "random_offset_within_cl" \in Tests, NEW m \in {1, 3}, NEW j \in {RandomSteps - 1, RandomSteps}
  PROVE  /\ InMapping(j * (m * LineSize)) /\ Page(j * (m * LineSize)) = 0
         /\ LET o == (Lines - 1) * LineSize + j * (-(m * LineSize))
            IN  InMapping(o) /\ Page(o) = (Lines \div PageLines) - 1
<1>1. /\ RandomSteps \in Nat \ {0} /\ 3 * RandomSteps < PageLines /\ Lines % PageLines = 0
      /\ PageLines \in Nat \ {0} /\ LineSize \in Nat \ {0} /\ Lines \in Nat \ {0}
  BY TestsAssumption, RoomAssumption, LineSizeAssumption, PositiveSize
<1> DEFINE a == j * m
           p == Lines \div PageLines
           b == Lines - 1 - a
<1>2. a \in Nat /\ a < PageLines
  BY <1>1
<1>3. p \in Nat \ {0} /\ Lines = PageLines * p
  <2> DEFINE r == Lines % PageLines
  <2>1. p \in Int /\ r \in Int /\ Lines = PageLines * p + r /\ 0 <= r /\ r < PageLines
    BY <1>1
  <2>2. Lines = PageLines * p
    BY <1>1, <2>1
  <2>3. p >= 1
    <3>1. ASSUME p <= 0 PROVE FALSE
      <4>1. PageLines * (-p) >= 0
        BY <1>1, <2>1, <3>1
      <4>2. PageLines * (-p) = -(PageLines * p)
        BY <1>1, <2>1
      <4> HIDE DEF p
      <4>3. QED
        BY <1>1, <2>2, <4>1, <4>2
    <3>2. QED
      BY <2>1, <3>1
  <2>4. QED
    BY <2>1, <2>2, <2>3
<1>4. j * (m * LineSize) = a * LineSize
  BY <1>1
<1>5. (Lines - 1) * LineSize + j * (-(m * LineSize)) = b * LineSize
  <2>1. (Lines - 1) * LineSize - a * LineSize = b * LineSize
    BY <1>1, <1>2
  <2>2. j * (-(m * LineSize)) = -(j * (m * LineSize))
    BY <1>1
  <2>3. (Lines - 1) * LineSize \in Int /\ a * LineSize \in Int
    BY <1>1, <1>2
  <2> HIDE DEF a, b
  <2>4. QED
    BY <1>4, <2>1, <2>2, <2>3
<1> HIDE DEF a, p
<1>6. PageLines * (p - 1) = PageLines * p - PageLines /\ p - 1 \in Nat
  BY <1>1, <1>3
<1>7. b \in Nat /\ b \in (PageLines * (p - 1))..(PageLines * (p - 1) + PageLines - 1) /\ b < Lines
      /\ a < Lines
  <2>1. PageLines * (p - 1) >= 0
    BY <1>1, <1>6
  <2>2. PageLines * p \in Int
    BY <1>1, <1>3
  <2>3. QED
    BY <1>1, <1>2, <1>3, <1>6, <2>1, <2>2
<1> HIDE DEF b
<1>8. ASSUME NEW l \in Nat, l < Lines PROVE InMapping(l * LineSize) /\ l * LineSize \in Int
  <2>1. LineSize * (Lines - l) >= LineSize /\ LineSize * (Lines - l) = Size - l * LineSize
    BY <1>1, <1>8, TimesGrows DEF Size
  <2>2. l * LineSize \in Nat
    BY <1>1
  <2>3. QED
    BY <1>1, <2>1, <2>2, PositiveSize DEF InMapping
<1>9. Page(a * LineSize) = 0
  <2>1. LineOf(a * LineSize) = a
    BY <1>2, LineOfMultiple
  <2>2. PageLines * 0 = 0 /\ a \in 0..(0 + PageLines - 1)
    BY <1>1, <1>2
  <2>3. a * LineSize \in Int
    BY <1>1, <1>2
  <2>4. QED
    BY <2>1, <2>2, <2>3, PageOfLine
<1>10. Page(b * LineSize) = p - 1
  <2>1. LineOf(b * LineSize) = b /\ b * LineSize \in Int
    BY <1>7, <1>8, LineOfMultiple
  <2>2. QED
    BY <1>6, <1>7, <2>1, PageOfLine
<1>11. QED
  BY <1>2, <1>4, <1>5, <1>7, <1>8, <1>9, <1>10 DEF p

\* test_random_offset_within_cl finds it if it looks at whole lines.
LEMMA RandomOffsetTold ==
  ASSUME ToldInv, TestInv, pc = "concluded", test = "random_offset_within_cl", NEW i \in {1, 3, 5, 7}
  PROVE  result.offset_within_cl_irrelevant[i] =
           /\ ~kind.bytes /\ kind.confirm <= RandomSteps
           /\ Magnitude(RandomStride(i)) \div LineSize \in kind.strides
<1> DEFINE s == RandomStride(i)
           e == Experiment(s, RandomSteps, FirstAccess(s))
           x == [Loop(e) EXCEPT !.random = (i % 2 = 1)]
           m == IF i \in {3, 7} THEN 3 ELSE 1
           d == m * LineSize
<1>1. Experiments = RandomOffset /\ test # "single" /\ DOMAIN RandomOffset = 1..8 /\ i \in 1..8
      /\ RandomOffset[i] = x
  BY DEF Experiments, RandomOffset
<1> HIDE DEF x
<1>2. /\ test \in Tests /\ kind \in Kinds /\ result = Result /\ IsRun(x)
      /\ x.variant \notin Patterns => Count(i) = Cardinality(Reported(kind, x))
  BY <1>1, CountsTold
<1>3. /\ RandomSteps \in Nat \ {0} /\ LineSize \in Nat \ {0} /\ Degree # 0 /\ Lines \in Nat \ {0}
      /\ (Lines - 1) * LineSize \in Nat
  BY <1>2, TestsAssumption, RoomAssumption, LineSizeAssumption, PositiveSize
<1>4. /\ m \in {1, 3} /\ d \in Nat /\ d >= LineSize
  BY <1>3
<1>5. s = IF i <= 3 THEN -d ELSE d
  <2> DEFINE h == (i + 1) \div 2
  <2>1. (i = 1 => h = 1) /\ (i = 3 => h = 2) /\ (i = 5 => h = 3) /\ (i = 7 => h = 4)
    OBVIOUS
  <2>2. s = <<-1, -3, 1, 3>>[h] * LineSize
    BY DEF RandomStride
  <2> HIDE DEF h, s
  <2>3. s = IF i = 1 THEN -1 * LineSize ELSE IF i = 3 THEN -3 * LineSize
            ELSE IF i = 5 THEN 1 * LineSize ELSE 3 * LineSize
    <3> DEFINE t == <<-1, -3, 1, 3>>
    <3>1. t[1] = -1 /\ t[2] = -3 /\ t[3] = 1 /\ t[4] = 3
      OBVIOUS
    <3>2. s = t[h] * LineSize
      BY <2>2
    <3> HIDE DEF t
    <3>3. QED
      BY <1>3, <2>1, <3>1, <3>2
  <2>4. QED
    BY <1>3, <2>3
<1>6. i % 2 = 1
  BY SMT
<1> HIDE DEF s, d, m
<1>7. /\ x.exp = e /\ x.variant = "full" /\ x.random = TRUE /\ x.bits = Whole
      /\ e.stride = s /\ e.step = RandomSteps
      /\ e.first = IF i <= 3 THEN (Lines - 1) * LineSize ELSE 0
  <2>1. FirstAccess(s) = IF i <= 3 THEN (Lines - 1) * LineSize ELSE 0
    BY <1>3, <1>4, <1>5 DEF FirstAccess
  <2>2. x.exp = e /\ x.variant = "full" /\ x.random = TRUE /\ x.bits = Whole
    BY <1>6 DEF x, Loop
  <2>3. QED
    BY <2>1, <2>2 DEF Experiment
<1> HIDE DEF e
<1>8. IsExperiment(e) /\ Magnitude(s) = d /\ Magnitude(s) >= LineSize
  BY <1>3, <1>4, <1>5, <1>7 DEF IsExperiment, Magnitude
<1>9. /\ InMapping(e.first + RandomSteps * s)
      /\ Page(e.first + RandomSteps * s) = Page(e.first + (RandomSteps - 1) * s)
  <2>1. \A j \in {RandomSteps - 1, RandomSteps} :
          /\ InMapping(j * d) /\ Page(j * d) = 0
          /\ InMapping((Lines - 1) * LineSize + j * (-d))
          /\ Page((Lines - 1) * LineSize + j * (-d)) = (Lines \div PageLines) - 1
    BY <1>2, <1>4, RandomPages DEF d
  <2>2. CASE i <= 3
    BY <1>5, <1>7, <2>1, <2>2
  <2>3. CASE ~(i <= 3)
    <3>1. s = d /\ e.first = 0
      BY <1>5, <1>7, <2>3
    <3>2. 0 + RandomSteps * s = RandomSteps * d /\ 0 + (RandomSteps - 1) * s = (RandomSteps - 1) * d
      BY <1>3, <1>4, <3>1
    <3>3. QED
      BY <2>1, <3>1, <3>2
  <2>4. QED
    BY <2>2, <2>3
<1>10. Follows(kind, x) <=> /\ ~kind.bytes /\ kind.confirm <= RandomSteps
                            /\ Magnitude(s) \div LineSize \in kind.strides
  BY <1>2, <1>3, <1>7, <1>8, <1>9, LoopFollowed, KindType
<1>11. Count(i) > 0 <=> Follows(kind, x)
  <2>1. InMapping(Offset(x, x.exp.step))
    BY <1>7, <1>9 DEF Offset
  <2>2. QED
    BY <1>2, <1>3, <1>7, <1>8, <2>1, ReportedCount DEF Patterns
<1>12. result.offset_within_cl_irrelevant[i] = (Count(i) > 0)
  BY <1>2 DEF Result, RandomOffsetResult
<1>13. QED
  <2>1. /\ result.offset_within_cl_irrelevant[i] \in BOOLEAN
        /\ kind.bytes \in BOOLEAN
    BY <1>2, <1>12, KindType
  <2>2. result.offset_within_cl_irrelevant[i] <=>
          /\ ~kind.bytes /\ kind.confirm <= RandomSteps
          /\ Magnitude(s) \div LineSize \in kind.strides
    BY <1>10, <1>11, <1>12
  <2>3. QED
    BY <2>1, <2>2 DEF s

\* The conclusions of these tests from the invariants.
LEMMA LimitsConcluded ==
  ASSUME ToldInv, TestInv
  PROVE  LimitsTold
<1> SUFFICES ASSUME pc = "concluded" PROVE LimitsTold
  BY DEF LimitsTold
<1>1. QED
  BY DirectionTold, LessThanLineTold, RandomOffsetTold, CrossPageTold DEF LimitsTold

\* A product with a natural number keeps the order.
LEMMA ProductsOrdered ==
  ASSUME NEW s \in Nat, NEW a \in Int, NEW b \in Int, a <= b
  PROVE  a * s <= b * s /\ a * s \in Int /\ b * s \in Int
BY TimesMonotonic

\* In test_no_prefetches an experiment finds as many lines as are fetched, or none.
LEMMA NoPrefetchesCount ==
  ASSUME ToldInv, TestInv, pc = "concluded", test = "no_prefetches", FollowsBase,
         NEW i \in 1..(MaxSteps - 1)
  PROVE  /\ DOMAIN vectors = 1..(MaxSteps - 1) /\ result = NoPrefetchesResult
         /\ LET follows == /\ i + 1 >= kind.confirm
                           /\ Page((i + 1) * Stride) = Page(i * Stride) \/ kind.crosses
            IN  Count(i) = IF follows THEN Degree ELSE 0
<1> DEFINE e == Experiment(Stride, i + 1, 0)
           x == Loop(e)
<1>1. Experiments = NoPrefetches /\ test # "single" /\ DOMAIN NoPrefetches = 1..(MaxSteps - 1)
      /\ NoPrefetches[i] = x
  BY DEF Experiments, NoPrefetches
<1>2. /\ x.exp = e /\ x.variant = "full" /\ x.random = FALSE /\ x.bits = Whole
      /\ e.stride = Stride /\ e.step = i + 1 /\ e.first = 0
  BY DEF Loop, Experiment
<1> HIDE DEF x, e
<1>3. /\ test \in Tests /\ kind \in Kinds /\ result = Result /\ IsRun(x)
      /\ DOMAIN vectors = 1..(MaxSteps - 1)
      /\ x.variant \notin Patterns => Count(i) = Cardinality(Reported(kind, x))
  BY <1>1, CountsTold
<1>4. /\ MaxSteps \in Nat /\ MaxSteps >= 2 /\ (MaxSteps - 1 + Degree) * Stride < Size
      /\ Degree \in Nat \ {0} /\ i \in Nat \ {0} /\ i <= MaxSteps - 1
  BY <1>3, TestsAssumption, RoomAssumption, ExperimentAssumption
<1>5. IsExperiment(e)
  BY <1>2, <1>4, BaseSizes DEF IsExperiment
<1>6. \A d \in 1..Degree : InMapping(Offset(x, x.exp.step - 1 + d))
  <2> SUFFICES ASSUME NEW d \in 1..Degree PROVE InMapping(Offset(x, x.exp.step - 1 + d))
    OBVIOUS
  <2>1. 0 <= i + d /\ i + d <= MaxSteps - 1 + Degree /\ i + d \in Int
    BY <1>4
  <2>2. (i + d) * Stride <= (MaxSteps - 1 + Degree) * Stride /\ 0 * Stride <= (i + d) * Stride
        /\ (i + d) * Stride \in Int
    BY <1>4, <2>1, BaseSizes, ProductsOrdered
  <2>3. x.exp.step - 1 + d = i + d
    BY <1>2, <1>4
  <2>4. Offset(x, x.exp.step - 1 + d) = (i + d) * Stride
    BY <1>2, <2>2, <2>3 DEF Offset
  <2>5. 0 * Stride = 0 /\ (MaxSteps - 1 + Degree) * Stride \in Int /\ Size \in Int
    BY <1>4, BaseSizes, PositiveSize
  <2>6. QED
    BY <1>4, <2>2, <2>4, <2>5 DEF InMapping
<1>7. InMapping(Offset(x, x.exp.step))
  <2>1. x.exp.step - 1 + 1 = x.exp.step /\ 1 \in 1..Degree
    BY <1>2, <1>4
  <2>2. QED
    BY <1>6, <2>1
<1>8. Magnitude(x.exp.stride) >= LineSize /\ x.variant \notin Patterns
  BY <1>2, BaseSizes DEF Patterns
<1>9. Cardinality(Following(x)) = Degree
  BY <1>3, <1>6, <1>8, FollowingCount
<1>10. Count(i) = IF Follows(kind, x) THEN Degree ELSE 0
  BY <1>3, <1>4, <1>7, <1>8, <1>9, ReportedCount
<1>11. Follows(kind, x) <=> /\ i + 1 >= kind.confirm
                            /\ Page((i + 1) * Stride) = Page(i * Stride) \/ kind.crosses
  <2>1. /\ Loop(Base).exp = Base /\ Loop(Base).variant = "full" /\ Loop(Base).bits = Whole
        /\ Loop(Base).random = FALSE /\ Base.step = Steps /\ Base.stride = Stride
    BY DEF Loop, Base, Experiment
  <2>2. IsExperiment(Base)
    BY BaseSizes DEF Base, Experiment, IsExperiment
  <2>3. /\ Magnitude(Stride) >= LineSize => Magnitude(Stride) \div LineSize \in kind.strides
    BY <1>3, <2>1, <2>2, LoopFollowed DEF FollowsBase
  <2>4. e.first + e.step * e.stride = (i + 1) * Stride /\ e.first + (e.step - 1) * e.stride = i * Stride
    BY <1>2, <1>4, BaseSizes
  <2>5. QED
    BY <1>2, <1>3, <1>5, <2>3, <2>4, LoopFollowed, BaseSizes
<1>12. QED
  BY <1>3, <1>10, <1>11 DEF Result

\* All of them follow unless the prefetcher stops at the end of a page or needs
\* more than two accesses.
LEMMA NoPrefetchesTold ==
  ASSUME ToldInv, TestInv, pc = "concluded", test = "no_prefetches", FollowsBase,
         kind.confirm <= MaxSteps
  PROVE  /\ result.max = Degree /\ result.min_nonzero = Degree
         /\ result.min =
              IF kind.confirm = 2 /\ (kind.crosses \/ MaxSteps * Stride < PageLines * LineSize)
              THEN Degree ELSE 0
<1> DEFINE N == MaxSteps - 1
           P == PageLines * LineSize
           F(i) == /\ i + 1 >= kind.confirm
                   /\ Page((i + 1) * Stride) = Page(i * Stride) \/ kind.crosses
<1>1. test # "single" /\ kind \in Kinds /\ test \in Tests
  BY CountsTold
<1>2. /\ MaxSteps \in Nat /\ MaxSteps >= 2 /\ Degree \in Nat \ {0} /\ N \in Nat \ {0}
      /\ P \in Nat /\ Steps * Stride <= P /\ Stride \in Nat \ {0}
  BY TestsAssumption, RoomAssumption, ExperimentAssumption, LineSizeAssumption
<1>3. /\ kind.confirm \in Nat /\ kind.confirm >= 2 /\ kind.crosses \in BOOLEAN
      /\ kind.confirm <= Steps
  BY <1>1, KindType, BaseFollowed
<1>4. \A i \in 1..N : Count(i) = IF F(i) THEN Degree ELSE 0
  BY NoPrefetchesCount
<1>5. DOMAIN vectors = 1..N /\ result = NoPrefetchesResult
  BY <1>2, NoPrefetchesCount
<1> HIDE DEF N, P
<1>6. ~kind.crosses => Page(Steps * Stride) = Page((Steps - 1) * Stride)
  <2>1. LastAccess(Loop(Base)) = (Steps - 1) * Stride /\ Loop(Base).exp.stride = Stride
    BY BaseSizes DEF LastAccess, Loop, Base, Experiment
  <2>2. (Steps - 1) * Stride + Stride = Steps * Stride
    BY BaseSizes
  <2>3. QED
    BY <2>1, <2>2 DEF FollowsBase, Follows
\* before the end of the first page all accesses and the next one are in it
<1>7. ASSUME NEW i \in Nat, (i + 1) * Stride < P
      PROVE  Page((i + 1) * Stride) = 0 /\ Page(i * Stride) = 0
  <2>1. i * Stride \in Nat /\ (i + 1) * Stride = i * Stride + Stride
    BY <1>2
  <2>2. i * Stride < P /\ (i + 1) * Stride \in Nat
    BY <1>2, <1>7, <2>1
  <2>3. QED
    BY <1>7, <2>1, <2>2, FirstPage DEF P
<1>8. F(kind.confirm - 1) /\ kind.confirm - 1 \in 1..N
  <2>1. kind.confirm - 1 \in 1..N /\ kind.confirm - 1 \in Nat /\ kind.confirm - 1 + 1 = kind.confirm
    BY <1>2, <1>3 DEF N
  <2>2. ASSUME ~kind.crosses PROVE kind.confirm * Stride < P
    <3>1. (Steps - 1) * Stride \in Nat /\ (Steps - 1) * Stride < P /\ Steps * Stride \in Nat
      <4>1. (Steps - 1) * Stride = Steps * Stride - Stride
        BY BaseSizes
      <4>2. QED
        BY <1>2, <4>1, BaseSizes
    <3>2. Page((Steps - 1) * Stride) = 0
      BY <3>1, FirstPage DEF P
    <3>3. Page(Steps * Stride) = 0
      BY <1>6, <2>2, <3>2
    <3>4. Steps * Stride < P
      BY <1>2, <3>1, <3>3, FirstPage DEF P
    <3>5. kind.confirm * Stride <= Steps * Stride /\ kind.confirm * Stride \in Int
      BY <1>2, <1>3, BaseSizes, ProductsOrdered
    <3>6. QED
      BY <1>2, <3>1, <3>4, <3>5
  <2>3. ~kind.crosses => Page(kind.confirm * Stride) = Page((kind.confirm - 1) * Stride)
    BY <1>3, <1>7, <2>1, <2>2
  <2>4. QED
    BY <1>3, <2>1, <2>3
<1> DEFINE all == \A i \in 1..N : F(i)
<1>9. all <=> kind.confirm = 2 /\ (kind.crosses \/ MaxSteps * Stride < P)
  <2>1. ASSUME kind.confirm = 2, kind.crosses PROVE all
    BY <2>1
  <2>2. ASSUME kind.confirm = 2, MaxSteps * Stride < P PROVE all
    <3> SUFFICES ASSUME NEW i \in 1..N PROVE F(i)
      OBVIOUS
    <3>1. i \in Nat /\ i + 1 <= MaxSteps /\ i + 1 >= 2
      BY <1>2 DEF N
    <3>2. (i + 1) * Stride <= MaxSteps * Stride /\ (i + 1) * Stride \in Int /\ MaxSteps * Stride \in Int
      BY <1>2, <3>1, ProductsOrdered
    <3>3. (i + 1) * Stride < P
      BY <1>2, <2>2, <3>2
    <3>4. QED
      BY <1>7, <2>2, <3>1, <3>3
  <2>3. ASSUME all PROVE kind.confirm = 2
    <3>1. 1 \in 1..N /\ F(1)
      BY <1>2, <2>3
    <3>2. QED
      BY <1>3, <3>1
  <2>4. ASSUME all, ~kind.crosses, ~(MaxSteps * Stride < P) PROVE FALSE
    <3> DEFINE q == (P - 1) \div Stride
               r == (P - 1) % Stride
    <3>1. P - 1 \in Nat /\ P \in Nat /\ P > Stride
      <4>1. Steps * Stride >= 2 * Stride
        BY <1>2, BaseSizes, ProductsOrdered
      <4>2. QED
        BY <1>2, <4>1, BaseSizes
    <3>2. q \in Int /\ r \in Int /\ P - 1 = Stride * q + r /\ 0 <= r /\ r < Stride
      BY <1>2, <3>1
    <3> HIDE DEF q, r
    <3>3. q >= 1
      <4>1. ASSUME q <= 0 PROVE FALSE
        <5>1. Stride * (-q) >= 0 /\ Stride * (-q) = -(Stride * q) /\ Stride * q \in Int
          BY <1>2, <3>2, <4>1
        <5>2. QED
          BY <1>2, <3>1, <3>2, <5>1
      <4>2. QED
        BY <3>2, <4>1
    <3>4. q * Stride \in Nat /\ q * Stride < P /\ (q + 1) * Stride \in Nat /\ (q + 1) * Stride >= P
      <4>1. q * Stride = Stride * q /\ (q + 1) * Stride = Stride * q + Stride /\ Stride * q \in Nat
        BY <1>2, <3>2, <3>3
      <4>2. QED
        BY <1>2, <3>1, <3>2, <4>1
    <3>5. q <= N
      <4>1. ASSUME q >= MaxSteps PROVE FALSE
        <5>1. MaxSteps * Stride <= q * Stride /\ MaxSteps * Stride \in Int
          BY <1>2, <3>2, <4>1, ProductsOrdered
        <5>2. QED
          BY <1>2, <2>4, <3>4, <5>1
      <4>2. QED
        BY <1>2, <3>2, <4>1 DEF N
    <3>6. Page(q * Stride) = 0 /\ Page((q + 1) * Stride) # 0
      BY <3>4, FirstPage DEF P
    <3>7. q \in 1..N
      BY <1>2, <3>2, <3>3, <3>5
    <3>8. QED
      BY <2>4, <3>6, <3>7
  <2>5. QED
    BY <1>3, <2>1, <2>2, <2>3, <2>4
<1> HIDE DEF F
<1>10. Counts = {Count(i) : i \in 1..N}
  BY <1>5 DEF Counts
<1>11. Degree \in Counts /\ Counts \subseteq {0, Degree}
  BY <1>4, <1>8, <1>10
<1>12. 0 \in Counts <=> ~all
  BY <1>2, <1>4, <1>10
<1> HIDE DEF all
<1>13. Largest(Counts) = Degree
  <2>1. Counts \subseteq Int /\ \A y \in Counts : Degree >= y
    BY <1>2, <1>11
  <2>2. QED
    BY <1>11, <2>1, LargestIs
<1>14. Smallest(Counts \ {0}) = Degree
  <2>1. Counts \ {0} \subseteq Int /\ Degree \in Counts \ {0} /\ \A y \in Counts \ {0} : Degree <= y
    BY <1>2, <1>11
  <2>2. QED
    BY <2>1, SmallestIs
<1>15. Smallest(Counts) = IF all THEN Degree ELSE 0
  <2> DEFINE m == IF all THEN Degree ELSE 0
  <2>1. Counts \subseteq Int /\ m \in Counts /\ \A y \in Counts : m <= y
    BY <1>2, <1>11, <1>12
  <2>2. Smallest(Counts) = m
    BY <2>1, SmallestIs
  <2>3. QED
    BY <2>2
<1>16. QED
  BY <1>5, <1>9, <1>13, <1>14, <1>15 DEF NoPrefetchesResult, P

\* A set of natural numbers has a smallest one, and a largest one below a bound.
LEMMA SmallestExists ==
  ASSUME NEW S \in SUBSET Nat, S # {}
  PROVE  \E m \in S : \A y \in S : m <= y
<1> SUFFICES ASSUME \A m \in S : \E y \in S : y < m PROVE FALSE
  BY SMT
<1> DEFINE P == {n \in Nat : \A y \in S : n <= y}
<1>1. 0 \in P
  OBVIOUS
<1>2. ASSUME NEW n \in P PROVE n + 1 \in P
  <2>1. n \in Nat /\ n \notin S
    BY <1>2
  <2>2. QED
    BY <2>1
<1>3. P \in SUBSET Nat
  OBVIOUS
<1>4. P = Nat
  <2> HIDE DEF P
  <2>1. QED
    BY <1>1, <1>2, <1>3, SetInduction
<1>5. PICK y \in S : TRUE
  OBVIOUS
<1>6. y + 1 \in P
  BY <1>4
<1>7. QED
  BY <1>5, <1>6

\* A set of natural numbers below a bound has a largest one.
LEMMA LargestExists ==
  ASSUME NEW S \in SUBSET Nat, S # {}, NEW b \in Nat, \A y \in S : y <= b
  PROVE  \E m \in S : \A y \in S : m >= y
<1> DEFINE T == {b - y : y \in S}
<1>1. T \in SUBSET Nat /\ T # {}
  <2>1. \A y \in S : b - y \in Nat /\ b - y \in T
    OBVIOUS
  <2>2. QED
    BY <2>1
<1>2. PICK t \in T : \A u \in T : t <= u
  <2> HIDE DEF T
  <2>1. QED
    BY <1>1, SmallestExists
<1>3. PICK m \in S : t = b - m
  OBVIOUS
<1>4. ASSUME NEW y \in S PROVE m >= y
  <2>1. b - y \in T
    OBVIOUS
  <2>2. t <= b - y /\ y \in Nat /\ m \in Nat
    BY <1>2, <2>1
  <2>3. QED
    BY <1>3, <2>2
<1>5. QED
  BY <1>4

\* Scaling keeps the order, and with a negative factor turns it round.
LEMMA ExtremesScaled ==
  ASSUME NEW S \in SUBSET Nat, NEW b \in Nat, \A y \in S : y <= b, NEW c \in Nat
  PROVE  /\ Smallest({y * c : y \in S}) = Smallest(S) * c
         /\ Largest({y * c : y \in S}) = Largest(S) * c
         /\ Largest({-(y * c) : y \in S}) = -(Smallest(S) * c)
         /\ Smallest({-(y * c) : y \in S}) = -(Largest(S) * c)
<1> DEFINE up == {y * c : y \in S}
           down == {-(y * c) : y \in S}
<1>1. CASE S = {}
  <2>1. up = {} /\ down = {} /\ 0 * c = 0
    BY <1>1
  <2>2. QED
    BY <1>1, <2>1 DEF Smallest, Largest
<1>2. CASE S # {}
  <2>1. PICK m \in S : \A y \in S : m <= y
    BY <1>2, SmallestExists
  <2>2. PICK M \in S : \A y \in S : M >= y
    BY <1>2, LargestExists
  <2>3. Smallest(S) = m /\ Largest(S) = M
    BY <2>1, <2>2, SmallestIs, LargestIs
  <2>4. \A y \in S : m * c <= y * c /\ y * c <= M * c /\ y * c \in Int
    BY <2>1, <2>2, TimesMonotonic
  <2>5. /\ up \subseteq Int /\ m * c \in up /\ M * c \in up
        /\ \A z \in up : m * c <= z /\ M * c >= z
    BY <2>4
  <2>6. /\ down \subseteq Int /\ -(m * c) \in down /\ -(M * c) \in down
        /\ \A z \in down : -(m * c) >= z /\ -(M * c) <= z
    BY <2>4
  <2> HIDE DEF up, down
  <2>7. /\ Smallest(up) = m * c /\ Largest(up) = M * c
        /\ Largest(down) = -(m * c) /\ Smallest(down) = -(M * c)
    BY <2>5, <2>6, SmallestIs, LargestIs
  <2>8. QED
    BY <2>3, <2>7 DEF up, down
<1>3. QED
  BY <1>1, <1>2

\* The strides of test_min_max_stride and test_overview.
LEMMA TestedStrideIs ==
  ASSUME NEW n \in 1..(2 * (Doublings + 1))
  PROVE  \E k \in 0..Doublings :
           /\ n = IF n <= Doublings + 1 THEN k + 1 ELSE k + Doublings + 2
           /\ TestedStride(n) = IF n <= Doublings + 1 THEN -(2 ^ k * LineSize) ELSE 2 ^ k * LineSize
           /\ 2 ^ k \in Nat \ {0} /\ 2 ^ k <= 2 ^ Doublings
<1> DEFINE k == IF n <= Doublings + 1 THEN n - 1 ELSE n - Doublings - 2
<1>1. Doublings \in Nat
  BY TestsAssumption
<1>2. k \in 0..Doublings /\ k \in Nat /\ n = IF n <= Doublings + 1 THEN k + 1 ELSE k + Doublings + 2
  BY <1>1
<1>3. TestedStride(n) = IF n <= Doublings + 1 THEN -(2 ^ k * LineSize) ELSE 2 ^ k * LineSize
  BY DEF TestedStride
<1> HIDE DEF k
<1>4. 2 ^ k \in Nat \ {0} /\ 2 ^ k <= 2 ^ Doublings
  BY <1>1, <1>2, Powers, PowerDivides
<1>5. QED
  BY <1>2, <1>3, <1>4

\* They go from line to line, as long as the mapping has room.
LEMMA TestedLines ==
  ASSUME NEW n \in 1..(2 * (Doublings + 1)), NEW j \in Nat, j * 2 ^ Doublings < Lines
  PROVE  LET s == TestedStride(n)
             o == FirstAccess(s) + j * s
         IN  s \in Int \ {0} /\ o \in Nat /\ InMapping(o) /\ LineOf(o) * LineSize = o
<1> DEFINE s == TestedStride(n)
           o == FirstAccess(s) + j * s
<1>1. PICK k \in 0..Doublings :
        /\ s = IF n <= Doublings + 1 THEN -(2 ^ k * LineSize) ELSE 2 ^ k * LineSize
        /\ 2 ^ k \in Nat \ {0} /\ 2 ^ k <= 2 ^ Doublings
  BY TestedStrideIs
<1> DEFINE p == 2 ^ k
           q == 2 ^ Doublings
<1>2. p \in Nat \ {0} /\ q \in Nat /\ p <= q
  BY <1>1, Powers, TestsAssumption
<1>3. s = IF n <= Doublings + 1 THEN -(p * LineSize) ELSE p * LineSize
  BY <1>1
<1>4. j * q < Lines
  OBVIOUS
<1> HIDE DEF p, q, s
<1>5. LineSize \in Nat \ {0} /\ Lines \in Nat \ {0} /\ Size = Lines * LineSize
  BY LineSizeAssumption, PositiveSize DEF Size
<1> DEFINE a == j * p
<1>6. a \in Nat /\ a < Lines
  <2>1. p * j <= q * j
    BY <1>2, TimesMonotonic
  <2>2. p * j = j * p /\ q * j = j * q /\ j * p \in Nat /\ j * q \in Nat
    BY <1>2
  <2>3. QED
    BY <1>4, <1>5, <2>1, <2>2
<1>7. p * LineSize \in Nat \ {0}
  <2>1. LineSize * p >= LineSize /\ LineSize * p = p * LineSize
    BY <1>2, <1>5, TimesGrows
  <2>2. QED
    BY <1>2, <1>5, <2>1
<1>8. s \in Int \ {0}
  BY <1>3, <1>7
<1>9. \E l \in Nat : l < Lines /\ o = l * LineSize
  <2>1. CASE n <= Doublings + 1
    <3>1. s = -(p * LineSize) /\ FirstAccess(s) = (Lines - 1) * LineSize
      BY <1>3, <1>7, <2>1 DEF FirstAccess
    <3>2. j * (-(p * LineSize)) = -(a * LineSize)
      BY <1>2, <1>5
    <3>3. o = (Lines - 1) * LineSize - a * LineSize
      BY <1>2, <1>5, <1>6, <3>1, <3>2
    <3>4. (Lines - 1) * LineSize - a * LineSize = (Lines - 1 - a) * LineSize
      BY <1>5, <1>6
    <3>5. Lines - 1 - a \in Nat /\ Lines - 1 - a < Lines
      BY <1>5, <1>6
    <3> HIDE DEF o, a
    <3>6. QED
      BY <3>3, <3>4, <3>5
  <2>2. CASE ~(n <= Doublings + 1)
    <3>1. s = p * LineSize /\ FirstAccess(s) = 0
      BY <1>3, <1>7, <2>2 DEF FirstAccess
    <3>2. 0 + j * (p * LineSize) = a * LineSize
      BY <1>2, <1>5
    <3> HIDE DEF a
    <3>3. QED
      BY <1>6, <3>1, <3>2
  <2>3. QED
    BY <2>1, <2>2
<1>10. PICK l \in Nat : l < Lines /\ o = l * LineSize
  BY <1>9
<1> HIDE DEF o
<1>11. LineOf(o) = l /\ o \in Nat
  BY <1>5, <1>10, LineOfMultiple
<1>12. InMapping(o)
  <2>1. LineSize * (Lines - l) >= LineSize /\ LineSize * (Lines - l) = Size - o
    BY <1>5, <1>10, TimesGrows
  <2>2. QED
    BY <1>5, <1>11, <2>1, PositiveSize DEF InMapping
<1>13. QED
  BY <1>8, <1>10, <1>11, <1>12 DEF o, s

\* test_min_max_stride finds the prefetcher's strides among the ones it tries.
LEMMA MinMaxCount ==
  ASSUME ToldInv, TestInv, pc = "concluded", test = "min_max_stride", kind.crosses,
         kind.confirm <= Steps, NEW n \in 1..(2 * (Doublings + 1))
  PROVE  /\ DOMAIN vectors = 1..(2 * (Doublings + 1)) /\ result = MinMaxStrideResult
         /\ Count(n) > 0 <=> Magnitude(TestedStride(n)) \div LineSize \in kind.strides
<1> DEFINE s == TestedStride(n)
           e == Experiment(s, Steps, FirstAccess(s))
           x == [Loop(e) EXCEPT !.variant = "lazy"]
<1>1. /\ Experiments = MinMaxStride /\ test # "single" /\ MinMaxStride[n] = x
      /\ DOMAIN MinMaxStride = 1..(2 * (Doublings + 1))
  BY DEF Experiments, MinMaxStride
<1>2. /\ x.exp = e /\ x.variant = "lazy" /\ x.random = FALSE /\ x.bits = Whole
      /\ e.stride = s /\ e.step = Steps /\ e.first = FirstAccess(s)
  BY DEF Loop, Experiment
<1> HIDE DEF x, e
<1>3. /\ test \in Tests /\ kind \in Kinds /\ result = Result /\ IsRun(x)
      /\ DOMAIN vectors = 1..(2 * (Doublings + 1))
      /\ x.variant \notin Patterns => Count(n) = Cardinality(Reported(kind, x))
  BY <1>1, CountsTold
<1>4. Steps * 2 ^ Doublings < Lines /\ Steps \in Nat \ {0} /\ Degree # 0
  BY <1>3, TestsAssumption, RoomAssumption
<1>5. s \in Int \ {0} /\ InMapping(Offset(x, x.exp.step)) /\ Magnitude(s) >= LineSize
  BY <1>2, <1>4, TestedLines, TestedStrideLines DEF Offset
<1>6. IsExperiment(e)
  BY <1>2, <1>4, <1>5, FirstOffset DEF IsExperiment
<1>7. Follows(kind, x) <=> Magnitude(s) \div LineSize \in kind.strides
  <2>1. Follows(kind, x) <=>
           /\ e.step >= kind.confirm
           /\ IF kind.bytes THEN ~x.random ELSE Magnitude(e.stride) >= LineSize
           /\ Magnitude(e.stride) >= LineSize => Magnitude(e.stride) \div LineSize \in kind.strides
           /\ \/ Page(e.first + e.step * e.stride) = Page(e.first + (e.step - 1) * e.stride)
              \/ kind.crosses
    BY <1>2, <1>3, <1>6, LoopFollowed
  <2> HIDE DEF s
  <2>2. QED
    BY <1>2, <1>3, <1>4, <1>5, <2>1, KindType
<1> HIDE DEF s
<1>8. Count(n) > 0 <=> Follows(kind, x)
  BY <1>2, <1>3, <1>4, <1>5, ReportedCount DEF Patterns
<1>9. QED
  BY <1>3, <1>7, <1>8 DEF Result, s

\* It reports the smallest and the largest of them, with either sign.
LEMMA MinMaxStrideTold ==
  ASSUME ToldInv, TestInv, pc = "concluded", test = "min_max_stride", kind.crosses,
         kind.confirm <= Steps
  PROVE  LET followed == {2 ^ i : i \in 0..Doublings} \intersect kind.strides
         IN  /\ result.min_positive = Smallest(followed) * LineSize
             /\ result.max_positive = Largest(followed) * LineSize
             /\ result.min_negative = -result.min_positive
             /\ result.max_negative = -result.max_positive
<1> DEFINE followed == {2 ^ i : i \in 0..Doublings} \intersect kind.strides
           N == 2 * (Doublings + 1)
           strides == {TestedStride(i) : i \in {n \in DOMAIN vectors : Count(n) > 0}}
           positive == {s \in strides : s > 0}
           negative == {s \in strides : s < 0}
           M(n) == Magnitude(TestedStride(n)) \div LineSize
<1>1. Doublings \in Nat /\ LineSize \in Nat \ {0} /\ 1 \in 1..N
  BY TestsAssumption, LineSizeAssumption
<1>2. DOMAIN vectors = 1..N /\ result = MinMaxStrideResult
  BY <1>1, MinMaxCount
<1>3. \A n \in 1..N : Count(n) > 0 <=> M(n) \in kind.strides
  BY MinMaxCount
<1>4. /\ followed \in SUBSET Nat /\ 2 ^ Doublings \in Nat
      /\ \A y \in followed : y # 0 /\ y <= 2 ^ Doublings
  <2>1. ASSUME NEW i \in 0..Doublings PROVE 2 ^ i \in Nat \ {0} /\ 2 ^ i <= 2 ^ Doublings
    BY <1>1, Powers, PowerDivides
  <2>2. QED
    BY <1>1, <2>1, Powers
\* the numbers of the two directions
<1>5. ASSUME NEW i \in 0..Doublings
      PROVE  /\ i + 1 \in 1..N /\ TestedStride(i + 1) = -(2 ^ i * LineSize)
             /\ i + Doublings + 2 \in 1..N /\ TestedStride(i + Doublings + 2) = 2 ^ i * LineSize
             /\ 2 ^ i * LineSize \in Nat \ {0}
             /\ M(i + 1) = 2 ^ i /\ M(i + Doublings + 2) = 2 ^ i
  <2> DEFINE p == 2 ^ i
  <2>1. i \in Nat /\ i + 1 \in 1..N /\ i + Doublings + 2 \in 1..N /\ i + 1 <= Doublings + 1
        /\ ~(i + Doublings + 2 <= Doublings + 1)
    BY <1>1
  <2>2. TestedStride(i + 1) = -(p * LineSize) /\ TestedStride(i + Doublings + 2) = p * LineSize
    <3>1. PICK k \in 0..Doublings : i + 1 = k + 1 /\ TestedStride(i + 1) = -(2 ^ k * LineSize)
      BY <2>1, TestedStrideIs
    <3>2. PICK l \in 0..Doublings : /\ i + Doublings + 2 = l + Doublings + 2
                                    /\ TestedStride(i + Doublings + 2) = 2 ^ l * LineSize
      BY <2>1, TestedStrideIs
    <3>3. k = i /\ l = i
      BY <1>1, <3>1, <3>2
    <3>4. QED
      BY <3>1, <3>2, <3>3
  <2>3. p \in Nat \ {0}
    BY <2>1, Powers
  <2> HIDE DEF p
  <2>4. p * LineSize \in Nat \ {0}
    <3>1. LineSize * p >= LineSize /\ LineSize * p = p * LineSize
      BY <1>1, <2>3, TimesGrows
    <3>2. QED
      BY <1>1, <2>3, <3>1
  <2>5. (p * LineSize) \div LineSize = p
    <3>1. p * LineSize = LineSize * p
      BY <1>1, <2>3
    <3>2. QED
      BY <1>1, <2>3, <3>1, MultipleDiv
  <2>6. M(i + 1) = p /\ M(i + Doublings + 2) = p
    BY <2>2, <2>4, <2>5 DEF Magnitude
  <2>7. QED
    BY <2>1, <2>2, <2>4, <2>6 DEF p
<1>6. ASSUME NEW n \in 1..N
      PROVE  \E i \in 0..Doublings : n = i + 1 \/ n = i + Doublings + 2
  BY TestedStrideIs
<1> HIDE DEF N, M, followed
<1>7. positive = {y * LineSize : y \in followed}
  <2>1. ASSUME NEW s \in positive PROVE s \in {y * LineSize : y \in followed}
    <3>1. PICK n \in 1..N : s = TestedStride(n) /\ Count(n) > 0 /\ s > 0
      BY <1>2
    <3>2. PICK i \in 0..Doublings : n = i + 1 \/ n = i + Doublings + 2
      BY <1>6
    <3>3. n = i + Doublings + 2
      BY <1>5, <3>1, <3>2
    <3>4. s = 2 ^ i * LineSize /\ 2 ^ i \in followed
      BY <1>3, <1>5, <3>1, <3>3 DEF followed
    <3>5. QED
      BY <3>4
  <2>2. ASSUME NEW y \in followed PROVE y * LineSize \in positive
    <3>1. PICK i \in 0..Doublings : y = 2 ^ i /\ y \in kind.strides
      BY DEF followed
    <3>2. Count(i + Doublings + 2) > 0
      BY <1>3, <1>5, <3>1
    <3>3. QED
      BY <1>2, <1>5, <3>1, <3>2
  <2>3. QED
    BY <2>1, <2>2
<1>8. negative = {-(y * LineSize) : y \in followed}
  <2>1. ASSUME NEW s \in negative PROVE s \in {-(y * LineSize) : y \in followed}
    <3>1. PICK n \in 1..N : s = TestedStride(n) /\ Count(n) > 0 /\ s < 0
      BY <1>2
    <3>2. PICK i \in 0..Doublings : n = i + 1 \/ n = i + Doublings + 2
      BY <1>6
    <3>3. n = i + 1
      BY <1>5, <3>1, <3>2
    <3>4. s = -(2 ^ i * LineSize) /\ 2 ^ i \in followed
      BY <1>3, <1>5, <3>1, <3>3 DEF followed
    <3>5. QED
      BY <3>4
  <2>2. ASSUME NEW y \in followed PROVE -(y * LineSize) \in negative
    <3>1. PICK i \in 0..Doublings : y = 2 ^ i /\ y \in kind.strides
      BY DEF followed
    <3>2. Count(i + 1) > 0
      BY <1>3, <1>5, <3>1
    <3>3. QED
      BY <1>2, <1>5, <3>1, <3>2
  <2>3. QED
    BY <2>1, <2>2
<1>9. /\ result.min_positive = Smallest(positive) /\ result.max_positive = Largest(positive)
      /\ result.min_negative = Largest(negative) /\ result.max_negative = Smallest(negative)
  BY <1>2 DEF MinMaxStrideResult
<1> HIDE DEF positive, negative
<1>10. /\ Smallest(positive) = Smallest(followed) * LineSize
       /\ Largest(positive) = Largest(followed) * LineSize
       /\ Largest(negative) = -(Smallest(followed) * LineSize)
       /\ Smallest(negative) = -(Largest(followed) * LineSize)
  BY <1>1, <1>4, <1>7, <1>8, ExtremesScaled
<1>11. QED
  BY <1>9, <1>10 DEF followed

\* Where the j-th access of an experiment with the n-th stride is, and the lines
\* that follow s of them.
At(n, j) == FirstAccess(TestedStride(n)) + j * TestedStride(n)
Behind(n, s) == {LineOf(At(n, s - 1 + d)) : d \in 1..Degree}

\* What test_overview makes of lines that are reported: the distances from the
\* last access, in strides.
Distances(lines, n, s) ==
  {CQuotient(l * LineSize - At(n, s - 1), TestedStride(n)) : l \in lines}

\* The lines that follow are 1 to Degree strides away; compared with the experiment
\* that is one access shorter only the farthest one is new.
LEMMA DistancesTold ==
  ASSUME "overview" \in Tests, NEW n \in 1..(2 * (Doublings + 1)), NEW s \in 1..MaxSteps
  PROVE  /\ Distances(Behind(n, s), n, s) = 1..Degree
         /\ s > 1 => Distances(Behind(n, s) \ Behind(n, s - 1), n, s) = {Degree}
<1> DEFINE g(d) == LineOf(At(n, s - 1 + d))
           t == TestedStride(n)
           c(l) == CQuotient(l * LineSize - At(n, s - 1), t)
<1>1. /\ MaxSteps \in Nat /\ Degree \in Nat \ {0} /\ s \in Nat \ {0} /\ s <= MaxSteps
      /\ LineSize \in Nat \ {0} /\ Lines \in Nat
      /\ (MaxSteps - 1 + Degree) * 2 ^ Doublings < Lines /\ 2 ^ Doublings \in Nat
  BY TestsAssumption, RoomAssumption, ExperimentAssumption, LineSizeAssumption, Powers, PositiveSize
<1>2. ASSUME NEW j \in 0..(MaxSteps - 1 + Degree) PROVE j * 2 ^ Doublings < Lines
  <2> DEFINE w == 2 ^ Doublings
  <2>1. w \in Nat /\ (MaxSteps - 1 + Degree) * w < Lines
    BY <1>1
  <2> HIDE DEF w
  <2>2. j * w <= (MaxSteps - 1 + Degree) * w /\ j * w \in Int /\ (MaxSteps - 1 + Degree) * w \in Int
    BY <1>1, <2>1, ProductsOrdered
  <2>3. j * w < Lines
    BY <1>1, <2>1, <2>2
  <2>4. QED
    BY <2>3 DEF w
<1>3. \A j \in 0..(MaxSteps - 1 + Degree) :
        At(n, j) \in Nat /\ LineOf(At(n, j)) * LineSize = At(n, j)
  BY <1>2, TestedLines DEF At
<1>4. t \in Int \ {0} /\ Magnitude(t) >= LineSize /\ FirstAccess(t) \in Nat
  BY TestedStrideLines, FirstOffset
<1>5. ASSUME NEW d \in 0..Degree PROVE c(g(d)) = d
  <2>1. s - 1 \in 0..(MaxSteps - 1 + Degree) /\ s - 1 + d \in 0..(MaxSteps - 1 + Degree)
    BY <1>1
  <2>2. g(d) * LineSize = At(n, s - 1 + d)
    BY <1>3, <2>1
  <2>3. At(n, s - 1 + d) - At(n, s - 1) = d * t
    <3> DEFINE f == FirstAccess(t)
    <3>1. At(n, s - 1 + d) = f + (s - 1 + d) * t /\ At(n, s - 1) = f + (s - 1) * t
      BY DEF At
    <3>2. f \in Nat /\ t \in Int /\ d \in Nat /\ s - 1 \in Nat
      BY <1>1, <1>4
    <3> HIDE DEF f, t
    <3>3. (s - 1 + d) * t = (s - 1) * t + d * t
      BY <1>1, <3>2
    <3>4. (s - 1) * t \in Int /\ d * t \in Int
      BY <3>2
    <3>5. QED
      BY <3>1, <3>2, <3>3, <3>4
  <2>4. CQuotient(d * t, t) = d
    <3>1. d \in Int /\ t \in Int \ {0}
      BY <1>1, <1>4
    <3> HIDE DEF t
    <3>2. QED
      BY <3>1, QuotientOfMultiple
  <2>5. QED
    BY <2>2, <2>3, <2>4
<1>6. Behind(n, s) = {g(d) : d \in 1..Degree}
  BY DEF Behind
<1>7. s > 1 => Behind(n, s - 1) = {g(d) : d \in 0..(Degree - 1)}
  <2> SUFFICES ASSUME s > 1 PROVE Behind(n, s - 1) = {g(d) : d \in 0..(Degree - 1)}
    OBVIOUS
  <2>1. Behind(n, s - 1) = {LineOf(At(n, s - 1 - 1 + d)) : d \in 1..Degree}
    BY DEF Behind
  <2>2. ASSUME NEW d \in 1..Degree
        PROVE  d - 1 \in 0..(Degree - 1) /\ g(d - 1) = LineOf(At(n, s - 1 - 1 + d))
    <3>1. s - 1 - 1 + d = s - 1 + (d - 1)
      BY <1>1
    <3>2. QED
      BY <1>1, <3>1
  <2>3. ASSUME NEW d \in 0..(Degree - 1)
        PROVE  d + 1 \in 1..Degree /\ g(d) = LineOf(At(n, s - 1 - 1 + (d + 1)))
    <3>1. s - 1 - 1 + (d + 1) = s - 1 + d
      BY <1>1
    <3>2. QED
      BY <1>1, <3>1
  <2> HIDE DEF g
  <2>4. QED
    BY <2>1, <2>2, <2>3
<1>8. \A lines : Distances(lines, n, s) = {c(l) : l \in lines}
  BY DEF Distances
<1> HIDE DEF g, c
<1>9. Distances(Behind(n, s), n, s) = 1..Degree
  <2>1. {c(l) : l \in Behind(n, s)} = {c(g(d)) : d \in 1..Degree}
    BY <1>6
  <2>2. \A d \in 1..Degree : c(g(d)) = d
    BY <1>1, <1>5
  <2>3. {c(g(d)) : d \in 1..Degree} = 1..Degree
    BY <2>2
  <2>4. QED
    BY <1>8, <2>1, <2>3
<1>10. ASSUME s > 1 PROVE Distances(Behind(n, s) \ Behind(n, s - 1), n, s) = {Degree}
  <2>1. Behind(n, s) \ Behind(n, s - 1) = {g(Degree)}
    <3>1. \A a, b \in 0..Degree : g(a) = g(b) => a = b
      BY <1>5
    <3>2. \A d \in 1..Degree : g(d) \in {g(b) : b \in 0..(Degree - 1)} <=> d # Degree
      <4> SUFFICES ASSUME NEW d \in 1..Degree
                   PROVE  g(d) \in {g(b) : b \in 0..(Degree - 1)} <=> d # Degree
        OBVIOUS
      <4>1. ASSUME d # Degree PROVE g(d) \in {g(b) : b \in 0..(Degree - 1)}
        <5>1. d \in 0..(Degree - 1)
          BY <1>1, <4>1
        <5>2. QED
          BY <5>1
      <4>2. ASSUME NEW b \in 0..(Degree - 1), g(d) = g(b) PROVE d # Degree
        <5>1. d \in 0..Degree /\ b \in 0..Degree /\ b # Degree
          BY <1>1
        <5>2. QED
          BY <3>1, <4>2, <5>1
      <4>3. QED
        BY <4>1, <4>2
    <3>3. Degree \in 1..Degree
      BY <1>1
    <3>4. QED
      BY <1>6, <1>7, <1>10, <3>2, <3>3
  <2>2. c(g(Degree)) = Degree
    BY <1>1, <1>5
  <2>3. QED
    BY <1>8, <2>1, <2>2
<1>11. QED
  BY <1>9, <1>10

\* The stride and the number of accesses of the i-th experiment of test_overview.
StrideNumber(i) == ((i - 1) \div MaxSteps) + 1
StepNumber(i) == ((i - 1) % MaxSteps) + 1

\* They are in range, and one less is the same stride with an access less.
LEMMA OverviewNumbers ==
  ASSUME NEW i \in 1..(2 * (Doublings + 1) * MaxSteps)
  PROVE  /\ StrideNumber(i) \in 1..(2 * (Doublings + 1)) /\ StepNumber(i) \in 1..MaxSteps
         /\ StepNumber(i) > 1 =>
              /\ i - 1 \in 1..(2 * (Doublings + 1) * MaxSteps)
              /\ StrideNumber(i - 1) = StrideNumber(i) /\ StepNumber(i - 1) = StepNumber(i) - 1
<1> DEFINE q == (i - 1) \div MaxSteps
           r == (i - 1) % MaxSteps
           H == 2 * (Doublings + 1)
<1>1. MaxSteps \in Nat \ {0} /\ Doublings \in Nat
  BY TestsAssumption
<1>2. H \in Nat \ {0} /\ H * MaxSteps \in Nat /\ i \in 1..(H * MaxSteps)
  BY <1>1
<1>3. i - 1 \in Nat /\ i - 1 < H * MaxSteps
  BY <1>2
<1>4. q \in Int /\ r \in Int /\ i - 1 = MaxSteps * q + r /\ 0 <= r /\ r < MaxSteps
  BY <1>1, <1>3
<1>5. StrideNumber(i) = q + 1 /\ StepNumber(i) = r + 1
  BY DEF StrideNumber, StepNumber
<1> HIDE DEF q, r, H
<1>6. q >= 0
  <2>1. ASSUME q <= -1 PROVE FALSE
    <3>1. MaxSteps * (-q) >= MaxSteps /\ MaxSteps * (-q) = -(MaxSteps * q) /\ MaxSteps * q \in Int
      BY <1>1, <1>4, <2>1, TimesGrows
    <3>2. QED
      BY <1>1, <1>3, <1>4, <3>1
  <2>2. QED
    BY <1>4, <2>1
<1>7. q < H
  <2>1. ASSUME q >= H PROVE FALSE
    <3>1. MaxSteps * (q - H) >= 0 /\ MaxSteps * (q - H) = MaxSteps * q - H * MaxSteps
          /\ MaxSteps * q \in Int
      BY <1>1, <1>2, <1>4, <2>1
    <3>2. QED
      BY <1>2, <1>3, <1>4, <3>1
  <2>2. QED
    BY <1>2, <1>4, <2>1
<1>8. ASSUME r > 0
      PROVE  /\ i - 1 \in 1..(H * MaxSteps)
             /\ StrideNumber(i - 1) = q + 1 /\ StepNumber(i - 1) = r
  <2>1. MaxSteps * q \in Nat
    BY <1>1, <1>4, <1>6
  <2>2. i - 1 - 1 = MaxSteps * q + (r - 1) /\ r - 1 \in Nat /\ r - 1 < MaxSteps /\ q \in Nat
    BY <1>1, <1>2, <1>4, <1>6, <1>8, <2>1
  <2>3. (MaxSteps * q + (r - 1)) \div MaxSteps = q /\ (MaxSteps * q + (r - 1)) % MaxSteps = r - 1
    BY <1>1, <2>2, DivUnique
  <2>4. StrideNumber(i - 1) = q + 1 /\ StepNumber(i - 1) = r - 1 + 1
    BY <2>2, <2>3 DEF StrideNumber, StepNumber
  <2>5. QED
    BY <1>2, <1>3, <1>4, <1>8, <2>1, <2>2, <2>4
<1>9. QED
  BY <1>1, <1>2, <1>4, <1>5, <1>6, <1>7, <1>8 DEF H

\* What test_overview has run, and the vectors it has got.
LEMMA OverviewRun ==
  ASSUME ToldInv, TestInv, pc = "concluded", test = "overview",
         NEW i \in 1..(2 * (Doublings + 1) * MaxSteps)
  PROVE  /\ DOMAIN vectors = 1..(2 * (Doublings + 1) * MaxSteps) /\ "overview" \in Tests
         /\ result = [diff_factors |-> OverviewResult]
         /\ Experiments[i].exp.step = StepNumber(i)
         /\ Experiments[i].exp.stride = TestedStride(StrideNumber(i))
         /\ LastAccess(Experiments[i]) = At(StrideNumber(i), StepNumber(i) - 1)
         /\ vectors[i] = IF Follows(kind, Experiments[i]) THEN Behind(StrideNumber(i), StepNumber(i))
                         ELSE {}
<1> DEFINE n == StrideNumber(i)
           s == StepNumber(i)
           e == Experiment(TestedStride(n), s, FirstAccess(TestedStride(n)))
           x == Loop(e)
<1>1. /\ Experiments = Overview /\ test # "single" /\ Overview[i] = x
      /\ DOMAIN Overview = 1..(2 * (Doublings + 1) * MaxSteps)
  BY DEF Experiments, Overview, StrideNumber, StepNumber
<1>2. /\ x.exp = e /\ x.variant = "full" /\ x.random = FALSE /\ x.bits = Whole
      /\ e.stride = TestedStride(n) /\ e.step = s /\ e.first = FirstAccess(TestedStride(n))
  BY DEF Loop, Experiment
<1> HIDE DEF x, e
<1>3. /\ test \in Tests /\ kind \in Kinds /\ result = Result /\ IsRun(x)
      /\ DOMAIN vectors = 1..(2 * (Doublings + 1) * MaxSteps)
      /\ x.variant \notin Patterns => vectors[i] = Reported(kind, x)
  BY <1>1, CountsTold
<1>4. /\ n \in 1..(2 * (Doublings + 1)) /\ s \in 1..MaxSteps
  BY OverviewNumbers
<1> HIDE DEF n, s
<1>5. /\ MaxSteps \in Nat /\ Degree \in Nat \ {0} /\ s \in Nat \ {0} /\ s <= MaxSteps
      /\ (MaxSteps - 1 + Degree) * 2 ^ Doublings < Lines /\ 2 ^ Doublings \in Nat /\ Lines \in Nat
  BY <1>3, <1>4, TestsAssumption, RoomAssumption, ExperimentAssumption, Powers, PositiveSize
<1>6. ASSUME NEW d \in 1..Degree
      PROVE  InMapping(Offset(x, s - 1 + d)) /\ Offset(x, s - 1 + d) = At(n, s - 1 + d)
  <2> DEFINE w == 2 ^ Doublings
             j == s - 1 + d
  <2>1. w \in Nat /\ (MaxSteps - 1 + Degree) * w < Lines
    BY <1>5
  <2>2. j \in Nat /\ j <= MaxSteps - 1 + Degree
    BY <1>5
  <2> HIDE DEF w, j
  <2>3. j * w <= (MaxSteps - 1 + Degree) * w /\ j * w \in Int /\ (MaxSteps - 1 + Degree) * w \in Int
    BY <1>5, <2>1, <2>2, ProductsOrdered
  <2>4. j * w < Lines
    BY <1>5, <2>1, <2>3
  <2>5. InMapping(At(n, j))
    BY <1>4, <2>2, <2>4, TestedLines DEF At, w
  <2>6. Offset(x, j) = At(n, j)
    BY <1>2 DEF Offset, At
  <2>7. QED
    BY <2>5, <2>6 DEF j
<1>7. Following(x) = Behind(n, s)
  BY <1>2, <1>6 DEF Following, Behind
<1>8. Magnitude(x.exp.stride) >= LineSize
  BY <1>2, <1>4, TestedStrideLines
<1>9. InMapping(Offset(x, x.exp.step))
  <2>1. s - 1 + 1 = s /\ 1 \in 1..Degree
    BY <1>5
  <2>2. QED
    BY <1>2, <1>6, <2>1
<1>10. vectors[i] = IF Follows(kind, x) THEN Behind(n, s) ELSE {}
  BY <1>2, <1>3, <1>5, <1>7, <1>8, <1>9, ReportedCount DEF Patterns
<1>11. LastAccess(x) = At(n, s - 1)
  BY <1>2 DEF LastAccess, At
<1>12. QED
  BY <1>1, <1>2, <1>3, <1>10, <1>11 DEF Result, n, s

\* New lines are the farthest one, or all if the experiment before found none.
LEMMA OverviewTold ==
  ASSUME ToldInv, TestInv, pc = "concluded", test = "overview", NEW i \in DOMAIN vectors
  PROVE  result.diff_factors[i] =
           IF ~Follows(kind, Experiments[i]) THEN {}
           ELSE IF Experiments[i].exp.step > 1 /\ Follows(kind, Experiments[i - 1]) THEN {Degree}
           ELSE 1..Degree
<1> DEFINE N == 2 * (Doublings + 1) * MaxSteps
           n == StrideNumber(i)
           s == StepNumber(i)
           F(m) == Follows(kind, Experiments[m])
           previous == IF Experiments[i].exp.step = 1 THEN {} ELSE vectors[i - 1]
<1>1. 1 \in 1..N
  <2>1. Doublings \in Nat /\ MaxSteps \in Nat /\ MaxSteps >= 2
    BY TestsAssumption
  <2>2. (Doublings + 1) * MaxSteps >= 1
    <3>1. MaxSteps * (Doublings + 1) >= MaxSteps
      BY <2>1, TimesGrows
    <3>2. QED
      BY <2>1, <3>1
  <2>3. QED
    BY <2>1, <2>2
<1>2. DOMAIN vectors = 1..N /\ "overview" \in Tests /\ i \in 1..N
  BY <1>1, OverviewRun
<1>3. /\ result = [diff_factors |-> OverviewResult]
      /\ Experiments[i].exp.step = s /\ Experiments[i].exp.stride = TestedStride(n)
      /\ LastAccess(Experiments[i]) = At(n, s - 1)
      /\ vectors[i] = IF F(i) THEN Behind(n, s) ELSE {}
  BY <1>2, OverviewRun
<1>4. /\ n \in 1..(2 * (Doublings + 1)) /\ s \in 1..MaxSteps
  BY <1>2, OverviewNumbers
<1>5. s > 1 => vectors[i - 1] = IF F(i - 1) THEN Behind(n, s - 1) ELSE {}
  <2> SUFFICES ASSUME s > 1 PROVE vectors[i - 1] = IF F(i - 1) THEN Behind(n, s - 1) ELSE {}
    OBVIOUS
  <2>1. i - 1 \in 1..N /\ StrideNumber(i - 1) = n /\ StepNumber(i - 1) = s - 1
    BY <1>2, OverviewNumbers
  <2>2. QED
    BY <2>1, OverviewRun
<1>6. result.diff_factors[i] = compute_diff_factors(previous, i)
  BY <1>2, <1>3 DEF OverviewResult
<1> HIDE DEF n, s, F
<1>7. compute_diff_factors(previous, i) = Distances(vectors[i] \ previous, n, s)
  BY <1>3 DEF compute_diff_factors, Distances
<1>8. /\ Distances(Behind(n, s), n, s) = 1..Degree
      /\ s > 1 => Distances(Behind(n, s) \ Behind(n, s - 1), n, s) = {Degree}
      /\ Distances({}, n, s) = {}
  BY <1>2, <1>4, DistancesTold DEF Distances
<1>9. s \in Nat /\ s >= 1
  BY <1>4, TestsAssumption
<1>10. CASE ~F(i)
  BY <1>3, <1>6, <1>7, <1>8, <1>10 DEF F
<1>11. CASE F(i) /\ s > 1 /\ F(i - 1)
  <2>1. vectors[i] \ previous = Behind(n, s) \ Behind(n, s - 1)
    BY <1>3, <1>5, <1>9, <1>11
  <2>2. QED
    BY <1>3, <1>6, <1>7, <1>8, <1>11, <2>1 DEF F
<1>12. CASE F(i) /\ ~(s > 1 /\ F(i - 1))
  <2>1. vectors[i] \ previous = Behind(n, s)
    BY <1>3, <1>5, <1>9, <1>12
  <2>2. QED
    BY <1>3, <1>6, <1>7, <1>8, <1>12, <2>1 DEF F
<1>13. QED
  BY <1>10, <1>11, <1>12

\* The conclusions of these tests from the invariants.
LEMMA RangeConcluded ==
  ASSUME ToldInv, TestInv
  PROVE  RangeTold
<1> SUFFICES ASSUME pc = "concluded" PROVE RangeTold
  BY DEF RangeTold
<1>1. QED
  BY NoPrefetchesTold, OverviewTold, MinMaxStrideTold DEF RangeTold

\* Whatever the prefetcher, the tests report how many lines it fetches, at which
\* distances, and the smallest and the largest stride that it follows.
THEOREM StrideRangeTold ==
  ASSUME Noise < 1000, Divisor >= 2
  PROVE  TestSpec => []RangeTold
BY TestInvariant, RangeConcluded, PTL DEF TestSpec

------------------------------------------------------------------------------
\* The histogram over bytes, and what identify() counts in it

\* A pattern whose next strides go to lines that it has accessed.  It looks the
\* same with and without a prefetcher.
Quiet == variant = "2D" /\ AheadLines \subseteq WorkloadLines

\* How often a byte's line was in the cache in n repetitions, and in parts per
\* thousand of the rounds.
Hits(i, n) == IF LineOf(i) \in WorkloadLines THEN Turns(i, n, Size) ELSE 0
HitsScaled(i) == PerThousand(Hits(i, IdentifyReps), Rounds(IdentifyReps, Size))

\* Each probe of a byte in an accessed line hits, and no other one does.
QuietInv ==
  Quiet =>
    /\ pc = "assert" => rep = 0
    /\ pc = "wait" => WorkloadLines \intersect ProbedLines \subseteq cache
    /\ pc = "probe" => cache \intersect ProbedLines = WorkloadLines \intersect ProbedLines
    /\ pc = "normalize" => rep < Size
    /\ pc \in {"evaluate", "done"} => Rounds(IdentifyReps, Size) # 0
    /\ \A i \in 0..(Size - 1) :
         /\ pc \in {"assert", "flush", "workload", "wait", "probe"} => hist[i] = Hits(i, rep)
         /\ pc = "normalize" => hist[i] = IF i < rep THEN HitsScaled(i) ELSE Hits(i, IdentifyReps)
         /\ pc \in {"evaluate", "done"} => hist[i] = HitsScaled(i)

\* The bytes of the mapping are probed in order.
LEMMA ByteList ==
  ASSUME variant = "2D"
  PROVE  /\ Entries = 0..(Size - 1) /\ no_repetitions = IdentifyReps
         /\ Len(ProbeOrder) = Size /\ \A k \in 1..Size : ProbeOrder[k] = k - 1
         /\ \A i \in 0..(Size - 1) : Probed(i) = LineOf(i) /\ LineOf(i) \in ProbedLines
         /\ \A n \in Nat : ProbeOrder[(n % Len(ProbeOrder)) + 1] = n % Size /\ n % Size \in 0..(Size - 1)
<1>1. Size \in Nat \ {0} /\ Entries = 0..(Size - 1) /\ no_repetitions = IdentifyReps
  BY PositiveSize DEF Entries, no_repetitions
<1>2. Cardinality(Entries) = Size
  BY <1>1, IntervalSize
<1>3. ProbeOrder = [k \in 1..Size |-> k - 1]
  BY <1>2 DEF ProbeOrder
<1>4. ProbeOrder \in Seq(Int) /\ Len(ProbeOrder) = Size
  BY <1>1, <1>3
<1>5. \A k \in 1..Size : ProbeOrder[k] = k - 1
  BY <1>3
<1>6. ASSUME NEW i \in 0..(Size - 1) PROVE Probed(i) = LineOf(i) /\ LineOf(i) \in ProbedLines
  <2>1. Probed(i) = LineOf(i)
    BY DEF Probed
  <2>2. i + 1 \in 1..Size /\ (i + 1) - 1 = i
    BY <1>1
  <2>3. i + 1 \in DOMAIN ProbeOrder /\ ProbeOrder[i + 1] = i
    BY <1>3, <2>2
  <2>4. i \in ToSet(ProbeOrder)
    BY <2>3 DEF ToSet
  <2>5. QED
    BY <2>1, <2>4 DEF ProbedLines
<1>7. ASSUME NEW n \in Nat
      PROVE  ProbeOrder[(n % Len(ProbeOrder)) + 1] = n % Size /\ n % Size \in 0..(Size - 1)
  <2> DEFINE r == n % Size
  <2>1. r \in 0..(Size - 1) /\ r + 1 \in 1..Size
    BY <1>1
  <2> HIDE DEF r
  <2>2. ProbeOrder[r + 1] = (r + 1) - 1 /\ (r + 1) - 1 = r
    BY <1>5, <2>1
  <2>3. QED
    BY <1>4, <2>1, <2>2 DEF r
<1>8. QED
  BY <1>1, <1>4, <1>5, <1>6, <1>7

\* One more repetition.
LEMMA HitsNext ==
  ASSUME NEW i \in 0..(Size - 1), NEW n \in Nat
  PROVE  /\ Hits(i, 0) = 0 /\ Hits(i, n) \in Nat
         /\ Hits(i, n + 1) =
              Hits(i, n) + IF i = n % Size /\ LineOf(i) \in WorkloadLines THEN 1 ELSE 0
<1>1. Size \in Nat \ {0}
  BY PositiveSize
<1>2. /\ Turns(i, 0, Size) = 0 /\ Turns(i, n, Size) \in Nat
      /\ Turns(i, n + 1, Size) = Turns(i, n, Size) + IF i = n % Size THEN 1 ELSE 0
  BY <1>1, NextTurn
<1>3. CASE LineOf(i) \in WorkloadLines
  BY <1>2, <1>3 DEF Hits
<1>4. CASE LineOf(i) \notin WorkloadLines
  BY <1>4 DEF Hits
<1>5. QED
  BY <1>3, <1>4

\* An experiment starts with counters at zero.
LEMMA QuietFresh == Fresh => QuietInv
<1> SUFFICES ASSUME Fresh, Quiet PROVE QuietInv
  BY DEF QuietInv
<1>1. pc = "assert" /\ rep = 0 /\ hist = [i \in Entries |-> 0] /\ Entries = 0..(Size - 1)
  BY ByteList DEF Fresh, Quiet
<1>2. \A i \in 0..(Size - 1) : hist[i] = 0 /\ Hits(i, 0) = 0
  BY <1>1, HitsNext
<1>3. QED
  BY <1>1, <1>2 DEF QuietInv

\* A probe of a byte.
LEMMA QuietProbe ==
  ASSUME IInv, QuietInv, Quiet, Probe
  PROVE  \A i \in 0..(Size - 1) : hist'[i] = Hits(i, rep + 1)
<1>1. /\ pc = "probe" /\ rep \in Nat /\ hist \in [0..(Size - 1) -> Nat] /\ Size \in Nat \ {0}
  BY ByteList, PositiveSize DEF Probe, IInv, HistInv, Quiet
<1> DEFINE m == rep % Size
           hit == IF LineOf(m) \in cache THEN 1 ELSE 0
<1>2. m \in 0..(Size - 1) /\ probe_index = m /\ Probed(m) = LineOf(m) /\ LineOf(m) \in ProbedLines
  BY <1>1, ByteList DEF probe_index, Quiet
<1>3. hit = IF LineOf(m) \in WorkloadLines THEN 1 ELSE 0
  BY <1>1, <1>2 DEF QuietInv
<1>4. hist' = [hist EXCEPT ![m] = hist[m] + hit]
  <2>1. hist' = [hist EXCEPT ![probe_index] = @ + IF Probed(probe_index) \in cache THEN 1 ELSE 0]
    BY DEF Probe
  <2>2. QED
    BY <1>2, <2>1
<1> HIDE DEF hit
<1>5. ASSUME NEW i \in 0..(Size - 1) PROVE hist'[i] = Hits(i, rep + 1)
  <2>1. hist'[i] = IF i = m THEN hist[i] + hit ELSE hist[i]
    BY <1>1, <1>4
  <2>2. hist[i] = Hits(i, rep) /\ Hits(i, rep) \in Nat
    BY <1>1, HitsNext DEF QuietInv
  <2>3. Hits(i, rep + 1) = Hits(i, rep) + IF i = m /\ LineOf(i) \in WorkloadLines THEN 1 ELSE 0
    BY <1>1, HitsNext
  <2> HIDE DEF m
  <2>4. QED
    BY <1>3, <2>1, <2>2, <2>3
<1>6. QED
  BY <1>5

\* One byte's counter becomes parts per thousand.
LEMMA QuietNormalize ==
  ASSUME IInv, QuietInv, Quiet, Normalize, pc' # "aborted"
  PROVE  /\ Rounds(IdentifyReps, Size) # 0
         /\ rep' = rep + 1 /\ pc' = IF rep + 1 = Size THEN "evaluate" ELSE "normalize"
         /\ rep \in Nat /\ rep < Size
         /\ \A i \in 0..(Size - 1) :
              hist'[i] = IF i < rep + 1 THEN HitsScaled(i) ELSE Hits(i, IdentifyReps)
<1> DEFINE rounds == Rounds(IdentifyReps, Size)
<1>1. /\ pc = "normalize" /\ rep \in Nat /\ rep < Size /\ hist \in [0..(Size - 1) -> Nat]
      /\ Size \in Nat \ {0}
  BY ByteList, PositiveSize DEF Normalize, IInv, HistInv, Quiet, QuietInv
<1>2. /\ Len(ProbeOrder) = Size /\ ProbeOrder[rep + 1] = rep /\ rep \in 0..(Size - 1)
      /\ no_repetitions \div Len(ProbeOrder) = rounds
  <2>1. rep + 1 \in 1..Size /\ (rep + 1) - 1 = rep
    BY <1>1
  <2>2. QED
    BY <1>1, <2>1, ByteList DEF Quiet, Rounds
<1>3. /\ rounds # 0 /\ rep' = rep + 1 /\ pc' = IF rep + 1 = Size THEN "evaluate" ELSE "normalize"
      /\ hist' = [hist EXCEPT ![rep] = (hist[rep] * 1000) \div rounds]
  BY <1>2 DEF Normalize
<1>4. ASSUME NEW i \in 0..(Size - 1)
      PROVE  hist'[i] = IF i < rep + 1 THEN HitsScaled(i) ELSE Hits(i, IdentifyReps)
  <2>1. hist[i] = IF i < rep THEN HitsScaled(i) ELSE Hits(i, IdentifyReps)
    BY <1>1 DEF QuietInv
  <2>2. CASE i = rep
    <3>1. hist'[i] = (hist[i] * 1000) \div rounds
      BY <1>1, <1>3, <2>2
    <3>2. hist[i] = Hits(i, IdentifyReps)
      BY <1>1, <2>1, <2>2
    <3>3. hist'[i] = HitsScaled(i)
      BY <3>1, <3>2 DEF HitsScaled, PerThousand
    <3>4. QED
      BY <1>1, <2>2, <3>3
  <2>3. CASE i # rep
    <3>1. hist'[i] = hist[i] /\ (i < rep <=> i < rep + 1)
      BY <1>1, <1>3, <2>3
    <3>2. QED
      BY <2>1, <3>1
  <2>4. QED
    BY <2>2, <2>3
<1>5. QED
  BY <1>1, <1>3, <1>4

\* The setup stays, and what it says of the bytes.
LEMMA QuietStays ==
  ASSUME setup' = setup
  PROVE  /\ Quiet' = Quiet /\ WorkloadLines' = WorkloadLines /\ ProbedLines' = ProbedLines
         /\ \A i, n : Hits(i, n)' = Hits(i, n) /\ HitsScaled(i)' = HitsScaled(i)
<1>1. AheadLines' = AheadLines /\ WorkloadLines' = WorkloadLines /\ ProbedLines' = ProbedLines
      /\ variant' = variant
  BY SetupStays, AheadStays DEF setup
<1>2. QED
  BY <1>1 DEF Quiet, Hits, HitsScaled, Size

\* Every step of an experiment keeps the counters exact.
LEMMA QuietNext == IInv /\ QuietInv /\ [Next]_vars => QuietInv'
<1> SUFFICES ASSUME IInv, QuietInv, [Next]_vars PROVE QuietInv'
  OBVIOUS
<1>1. /\ Quiet' = Quiet /\ WorkloadLines' = WorkloadLines /\ ProbedLines' = ProbedLines
      /\ \A i, n : Hits(i, n)' = Hits(i, n) /\ HitsScaled(i)' = HitsScaled(i)
  BY NextKeeps, QuietStays
<1> SUFFICES ASSUME Quiet PROVE QuietInv'
  BY <1>1 DEF QuietInv
<1>2. rep \in Nat /\ Size \in Nat \ {0} /\ IdentifyReps \in Nat /\ no_repetitions = IdentifyReps
  BY ByteList, PositiveSize, ExperimentAssumption DEF IInv, Quiet
\* What is left to show of the next state.
<1>3. ASSUME pc' = "assert" => rep' = 0,
             pc' = "wait" => WorkloadLines \intersect ProbedLines \subseteq cache',
             pc' = "probe" => cache' \intersect ProbedLines = WorkloadLines \intersect ProbedLines,
             pc' = "normalize" => rep' < Size,
             pc' \in {"evaluate", "done"} => Rounds(IdentifyReps, Size) # 0,
             \A i \in 0..(Size - 1) :
               /\ pc' \in {"assert", "flush", "workload", "wait", "probe"} => hist'[i] = Hits(i, rep')
               /\ pc' = "normalize" =>
                    hist'[i] = IF i < rep' THEN HitsScaled(i) ELSE Hits(i, IdentifyReps)
               /\ pc' \in {"evaluate", "done"} => hist'[i] = HitsScaled(i)
      PROVE  QuietInv'
  <2>1. Size' = Size
    BY DEF Size
  <2>2. \A i : /\ Hits(i, rep)' = Hits(i, rep') /\ Hits(i, IdentifyReps)' = Hits(i, IdentifyReps)
               /\ HitsScaled(i)' = HitsScaled(i)
    BY <1>1, <2>1 DEF Hits, HitsScaled
  <2>3. QED
    BY <1>1, <1>3, <2>1, <2>2 DEF QuietInv
<1>4. CASE CheckBounds
  <2>1. hist' = hist /\ rep' = rep /\ pc = "assert" /\ pc' \in {"flush", "aborted"}
    BY <1>4 DEF CheckBounds
  <2>2. QED
    BY <1>3, <2>1 DEF QuietInv
<1>5. CASE Flush
  <2>1. hist' = hist /\ rep' = rep /\ pc = "flush" /\ pc' = "workload"
    BY <1>5 DEF Flush
  <2>2. QED
    BY <1>3, <2>1 DEF QuietInv
<1>6. CASE Workload
  <2>1. /\ hist' = hist /\ rep' = rep /\ pc = "workload" /\ pc' = "wait"
        /\ cache' = cache \union WorkloadLines
    BY <1>6 DEF Workload
  <2>2. QED
    BY <1>3, <2>1 DEF QuietInv
<1>7. CASE Prefetch
  <2>1. /\ hist' = hist /\ rep' = rep /\ pc = "wait" /\ pc' = "probe"
    BY <1>7 DEF Prefetch
  <2>2. PICK lines \in SUBSET AheadLines : cache' = cache \union lines
    BY <1>7 DEF Prefetch
  <2>3. cache' \intersect ProbedLines = WorkloadLines \intersect ProbedLines
    BY <2>1, <2>2 DEF IInv, CacheInv, QuietInv, Quiet
  <2>4. QED
    BY <1>3, <2>1, <2>3 DEF QuietInv
<1>8. CASE Probe
  <2>1. /\ pc = "probe"
        /\ rep' = IF rep + 1 = IdentifyReps THEN 0 ELSE rep + 1
        /\ pc' = IF rep + 1 = IdentifyReps THEN "normalize" ELSE "flush"
    BY <1>2, <1>8 DEF Probe
  <2>2. \A i \in 0..(Size - 1) : hist'[i] = Hits(i, rep + 1) /\ ~(i < 0)
    BY <1>2, <1>8, QuietProbe
  <2>3. 0 < Size
    BY <1>2
  <2>4. QED
    BY <1>3, <2>1, <2>2, <2>3
<1>9. CASE Normalize
  <2>1. pc' \in {"aborted", "evaluate", "normalize"}
    BY <1>9 DEF Normalize
  <2>2. CASE pc' = "aborted"
    BY <1>3, <2>2
  <2>3. CASE pc' # "aborted"
    <3>1. /\ Rounds(IdentifyReps, Size) # 0
          /\ rep' = rep + 1 /\ pc' = IF rep + 1 = Size THEN "evaluate" ELSE "normalize"
          /\ rep < Size
          /\ \A i \in 0..(Size - 1) :
               hist'[i] = IF i < rep + 1 THEN HitsScaled(i) ELSE Hits(i, IdentifyReps)
      BY <1>9, <2>3, QuietNormalize
    <3>2. pc' = "normalize" => rep' < Size
      BY <1>2, <3>1
    <3>3. pc' = "evaluate" => \A i \in 0..(Size - 1) : i < rep + 1
      BY <1>2, <3>1
    <3>4. QED
      BY <1>3, <3>1, <3>2, <3>3
  <2>4. QED
    BY <2>2, <2>3
<1>10. CASE Evaluate
  <2>1. hist' = hist /\ rep' = rep /\ pc = "evaluate" /\ pc' = "done"
    BY <1>10 DEF Evaluate
  <2>2. QED
    BY <1>3, <2>1 DEF QuietInv
<1>11. CASE UNCHANGED vars
  <2>1. hist' = hist /\ rep' = rep /\ pc' = pc /\ cache' = cache
    BY <1>11 DEF vars
  <2>2. QED
    BY <1>3, <2>1 DEF QuietInv
<1>12. QED
  BY <1>4, <1>5, <1>6, <1>7, <1>8, <1>9, <1>10, <1>11 DEF Next, Step, Ended

\* So does the beginning of the next one.
LEMMA QuietFreshNext == Fresh' => QuietInv'
BY QuietFresh, PTL

\* And the tests around the experiments.
LEMMA TestQuiet ==
  ASSUME IInv, TestInv, QuietInv, [TestNext]_allVars
  PROVE  QuietInv'
<1>1. CASE RunExperiment
  BY <1>1, QuietNext DEF RunExperiment, Next
<1>2. CASE NextExperiment
  BY <1>2, NextFresh, QuietFreshNext
<1>3. CASE LastExperiment \/ Conclude
  <2>1. setup' = setup /\ hist' = hist /\ pc' \in {"conclude", "concluded"}
    BY <1>3 DEF LastExperiment, Conclude, setup
  <2>2. QED
    BY <2>1 DEF QuietInv
<1>4. CASE UNCHANGED allVars
  BY <1>4, QuietNext DEF allVars
<1>5. QED
  BY <1>1, <1>2, <1>3, <1>4 DEF TestNext, TestEnded

\* The last access of test_2D_steps, and the bytes that identify() counts.
PatternEnd == PatternGap * PatternStride
NextStrides == {i \in PatternEnd..(PatternEnd + LineSize - 1) : i % PatternStride = 0}

\* The next strides of the pattern are in the line of its last access.
OneLine == "2D_steps" \in Tests /\ Degree * PatternStride < LineSize

\* What is read there is what it was read in the evaluation.
PatternInv ==
  test = "2D_steps" /\ OneLine =>
    /\ pc = "done" => vector = NextStrides
    /\ \A n \in 1..Len(vectors) : vectors[n] = NextStrides

\* Without remainder there is a factor, and the other way round.
LEMMA Multiples ==
  ASSUME NEW a \in Nat, NEW n \in Nat \ {0}
  PROVE  /\ a % n = 0 => \E k \in Nat : a = k * n
         /\ \A k \in Nat : (k * n) % n = 0 /\ (k * n) \div n = k
<1>2. ASSUME a % n = 0 PROVE \E k \in Nat : a = k * n
  <2> DEFINE q == a \div n
             r == a % n
  <2>0. q \in Nat /\ r \in Nat /\ a = n * q + r /\ r < n
    OBVIOUS
  <2>1. q \in Nat /\ a = n * q
    BY <1>2, <2>0
  <2> HIDE DEF q
  <2>2. a = q * n
    BY <2>1
  <2>3. QED
    BY <2>1, <2>2
<1>3. ASSUME NEW k \in Nat PROVE (k * n) % n = 0 /\ (k * n) \div n = k
  <2>1. (n * k + 0) \div n = k /\ (n * k + 0) % n = 0
    BY DivUnique
  <2>2. n * k + 0 = k * n
    OBVIOUS
  <2>3. QED
    BY <2>1, <2>2
<1>4. QED
  BY <1>2, <1>3

\* The numbers of the pattern: lines in a period, strides in a line.
LEMMA PatternSizes ==
  ASSUME OneLine
  PROVE  /\ PatternStride \in Nat \ {0} /\ PatternGap \in Nat \ {0} /\ Degree \in Nat
         /\ LineSize \in Nat \ {0} /\ Size \in Nat \ {0} /\ PatternEnd \in Nat
         /\ PatternStride <= LineSize /\ LineSize <= PatternEnd /\ PatternEnd + LineSize <= Size
         /\ Degree < PatternGap
         /\ \E q \in Nat \ {0} : LineSize = q * PatternStride
         /\ \E r \in Nat \ {0} : PatternEnd = r * LineSize
<1>1. /\ PatternStride \in Nat \ {0} /\ PatternGap \in Nat \ {0} /\ Degree \in Nat
      /\ LineSize \in Nat \ {0} /\ Size \in Nat \ {0}
      /\ LineSize % PatternStride = 0 /\ PatternEnd % LineSize = 0
      /\ PatternEnd + LineSize <= Size /\ Degree * PatternStride < LineSize
  BY TestsAssumption, RoomAssumption, ExperimentAssumption, LineSizeAssumption, PositiveSize
  DEF OneLine, PatternEnd
<1>2. PatternEnd \in Nat \ {0}
  <2>1. PatternStride * PatternGap >= PatternStride
    BY <1>1, TimesGrows
  <2>2. QED
    BY <1>1, <2>1 DEF PatternEnd
<1>3. PICK q \in Nat : LineSize = q * PatternStride
  BY <1>1, Multiples
<1>4. PICK r \in Nat : PatternEnd = r * LineSize
  BY <1>1, <1>2, Multiples
<1>5. q # 0 /\ r # 0
  BY <1>1, <1>2, <1>3, <1>4
<1>6. PatternStride <= LineSize
  <2>1. PatternStride * q >= PatternStride /\ PatternStride * q = q * PatternStride
    BY <1>1, <1>5, TimesGrows
  <2>2. QED
    BY <1>3, <2>1
<1>7. LineSize <= PatternEnd
  <2>1. LineSize * r >= LineSize /\ LineSize * r = r * LineSize
    BY <1>1, <1>5, TimesGrows
  <2>2. QED
    BY <1>4, <2>1
<1>8. Degree < PatternGap
  <2>1. ASSUME PatternGap <= Degree PROVE FALSE
    <3>1. PatternGap * PatternStride <= Degree * PatternStride
      BY <1>1, <2>1, ProductsOrdered
    <3>2. Degree * PatternStride \in Int
      BY <1>1
    <3>3. QED
      BY <1>1, <1>2, <1>7, <3>1, <3>2 DEF PatternEnd
  <2>2. QED
    BY <1>1, <2>1
<1>9. QED
  BY <1>1, <1>2, <1>3, <1>4, <1>5, <1>6, <1>7, <1>8

\* The lines from the first one to the one that the pattern ends with.
LEMMA PatternLines ==
  ASSUME OneLine, exp = Pattern, variant = "2D"
  PROVE  /\ \A i \in 0..(Size - 1) : LineOf(i) \in WorkloadLines => i < PatternEnd + LineSize
         /\ \A i \in PatternEnd..(PatternEnd + LineSize - 1) : LineOf(i) \in WorkloadLines
         /\ \A k \in 0..PatternGap : LineOf(k * PatternStride) \in WorkloadLines
         /\ Quiet
<1>1. /\ PatternStride \in Nat \ {0} /\ PatternGap \in Nat \ {0} /\ Degree \in Nat
      /\ LineSize \in Nat \ {0} /\ Size \in Nat \ {0} /\ PatternEnd \in Nat
      /\ LineSize <= PatternEnd /\ PatternEnd + LineSize <= Size
      /\ Degree < PatternGap
  BY PatternSizes
<1>2. PICK r \in Nat \ {0} : PatternEnd = r * LineSize
  BY PatternSizes
<1>3. /\ exp.stride = PatternStride /\ exp.step = 1 /\ exp.first = 0 /\ exp.gap1 = PatternGap
      /\ exp.gap2 = 0 /\ exp.delta = 1
  BY DEF Pattern
<1>4. Period(exp) = PatternEnd
  BY <1>1, <1>3 DEF Period, PatternEnd
<1>5. \A k \in 0..PatternGap : InPeriod(exp, k) = k * PatternStride
  BY <1>1, <1>3 DEF InPeriod
<1>6. WorkloadLines = {LineOf(k * PatternStride) : k \in 0..PatternGap}
  <2>1. WorkloadOffsets = {0 + n * PatternEnd + InPeriod(exp, k) : n \in 0..(1 - 1), k \in 0..(PatternGap + 0)}
    BY <1>3, <1>4 DEF WorkloadOffsets, PatternAccesses
  <2>2. PatternGap + 0 = PatternGap /\ 0..(1 - 1) = {0}
    BY <1>1
  <2>3. WorkloadOffsets = {0 + n * PatternEnd + InPeriod(exp, k) : n \in {0}, k \in 0..PatternGap}
    BY <2>1, <2>2
  <2>4. \A k \in 0..PatternGap : 0 + 0 * PatternEnd + InPeriod(exp, k) = k * PatternStride
    <3> SUFFICES ASSUME NEW k \in 0..PatternGap
                 PROVE  0 + 0 * PatternEnd + k * PatternStride = k * PatternStride
      BY <1>5
    <3>1. k * PatternStride \in Int /\ 0 * PatternEnd = 0
      BY <1>1
    <3>2. QED
      BY <3>1
  <2>5. WorkloadOffsets = {k * PatternStride : k \in 0..PatternGap}
    BY <2>3, <2>4
  <2>6. QED
    BY <2>5 DEF WorkloadLines
<1>7. ASSUME NEW i \in PatternEnd..(PatternEnd + LineSize - 1) PROVE LineOf(i) = r
  <2>1. i - r * LineSize \in Nat /\ i - r * LineSize < LineSize /\ r * LineSize \in Nat
    BY <1>1, <1>2
  <2> DEFINE d == i - r * LineSize
  <2>2. i = r * LineSize + d
    BY <2>1
  <2> HIDE DEF d
  <2>3. LineOf(r * LineSize + d) = r
    BY <2>1, LineWithin DEF d
  <2>4. QED
    BY <2>2, <2>3
<1>8. \A k \in 0..PatternGap : LineOf(k * PatternStride) \in WorkloadLines
  BY <1>6
<1>9. r \in WorkloadLines
  <2>1. LineOf(PatternEnd) = r
    BY <1>1, <1>7
  <2>2. PatternGap \in 0..PatternGap
    BY <1>1
  <2>3. QED
    BY <1>8, <2>1, <2>2 DEF PatternEnd
<1>10. ASSUME NEW i \in 0..(Size - 1), LineOf(i) \in WorkloadLines PROVE i < PatternEnd + LineSize
  <2>1. PICK k \in 0..PatternGap : LineOf(i) = LineOf(k * PatternStride)
    BY <1>6, <1>10
  <2> DEFINE b == k * PatternStride
  <2>2. b \in Int /\ b <= PatternEnd
    BY <1>1, ProductsOrdered DEF PatternEnd
  <2>3. i - b < LineSize
    <3> HIDE DEF b
    <3>1. b \in Int /\ i \in Int /\ LineOf(b) = LineOf(i)
      BY <2>1, <2>2 DEF b
    <3>2. QED
      BY <3>1, SameLine
  <2> HIDE DEF b
  <2>4. QED
    BY <1>1, <2>2, <2>3
<1>11. AheadLines \subseteq WorkloadLines
  <2>1. ASSUME NEW d \in 1..Degree PROVE LineOf(exp.first + Ahead(d)) = r
    <3>1. d \in 0..PatternGap
      BY <1>1
    <3>2. Ahead(d) = 1 * PatternEnd + d * PatternStride
      BY <1>3, <1>4, <1>5, <3>1 DEF Ahead
    <3>3. d * PatternStride \in Nat /\ d * PatternStride < LineSize
      <4>1. d * PatternStride <= Degree * PatternStride /\ d * PatternStride \in Nat
            /\ Degree * PatternStride \in Nat
        BY <1>1, ProductsOrdered
      <4>2. QED
        BY <1>1, <4>1 DEF OneLine
    <3> DEFINE e == d * PatternStride
    <3> HIDE DEF e
    <3>4. exp.first + Ahead(d) = PatternEnd + e
      BY <1>1, <1>3, <3>2, <3>3 DEF e
    <3>5. PatternEnd + e \in PatternEnd..(PatternEnd + LineSize - 1)
      BY <1>1, <3>3 DEF e
    <3>6. QED
      BY <1>7, <3>4, <3>5
  <2>2. QED
    BY <1>9, <2>1 DEF AheadLines
<1>12. QED
  BY <1>7, <1>8, <1>9, <1>10, <1>11 DEF Quiet

\* What the evaluation takes the bytes for.
LEMMA PatternClasses ==
  ASSUME OneLine, exp = Pattern, variant = "2D", NEW i \in 0..(Size - 1)
  PROVE  /\ Accessed(i) => \E k \in 0..PatternGap : i = k * PatternStride
         /\ i = 0 => Accessed(i)
         /\ Candidate(i) => PatternEnd <= i /\ i % PatternStride = 0
         /\ i \in NextStrides => Candidate(i)
<1>1. /\ PatternStride \in Nat \ {0} /\ PatternGap \in Nat \ {0}
      /\ LineSize \in Nat \ {0} /\ Size \in Nat \ {0} /\ PatternEnd \in Nat \ {0}
      /\ LineSize <= PatternEnd /\ PatternEnd + LineSize <= Size /\ i \in Nat
  <2>1. /\ PatternStride \in Nat \ {0} /\ PatternGap \in Nat \ {0}
        /\ LineSize \in Nat \ {0} /\ Size \in Nat \ {0} /\ PatternEnd \in Nat
        /\ LineSize <= PatternEnd /\ PatternEnd + LineSize <= Size
    BY PatternSizes
  <2>2. PatternEnd # 0 /\ i \in Nat
    BY <2>1
  <2>3. QED
    BY <2>1, <2>2
<1>2. /\ exp.stride = PatternStride /\ exp.step = 1 /\ exp.first = 0 /\ exp.gap1 = PatternGap
      /\ exp.gap2 = 0 /\ exp.delta = 1 /\ i - exp.first = i
  BY <1>1 DEF Pattern
<1>3. Period(exp) = PatternEnd
  BY <1>1, <1>2 DEF Period, PatternEnd
<1>4. \A k \in 0..(PatternGap - 1) :
        InPeriod(exp, k) = k * PatternStride /\ Magnitude(InPeriod(exp, k)) = k * PatternStride
  <2> SUFFICES ASSUME NEW k \in 0..(PatternGap - 1)
               PROVE  InPeriod(exp, k) = k * PatternStride /\ Magnitude(k * PatternStride) = k * PatternStride
    OBVIOUS
  <2>1. k * PatternStride \in Nat
    BY <1>1
  <2>2. QED
    BY <1>1, <1>2, <2>1 DEF InPeriod, Magnitude
<1>5. is_multiple_of_stride(exp, i) <=> \E k \in 0..(PatternGap - 1) : i % PatternEnd = k * PatternStride
  <2>1. Magnitude(i) = i /\ Magnitude(PatternEnd) = PatternEnd
    BY <1>1 DEF Magnitude
  <2>2. exp.gap1 + exp.gap2 - 1 = PatternGap - 1
    BY <1>1, <1>2
  <2>3. QED
    BY <1>3, <1>4, <2>1, <2>2 DEF is_multiple_of_stride
<1>6. \A m \in Nat : CQuotient(m, PatternEnd) = m \div PatternEnd
  BY <1>1 DEF CQuotient, Magnitude
<1> DEFINE m == IF i > 1 THEN i - 1 ELSE i
<1>7. Accessed(i) <=> is_multiple_of_stride(exp, i) /\ m \div PatternEnd >= 0 /\ m \div PatternEnd < 1
  <2>1. Accessed(i) = offset_accessed_2D(exp, i)
    BY DEF Accessed, Patterns
  <2>2. m \in Nat
    BY <1>1
  <2>3. QED
    BY <1>2, <1>3, <1>6, <2>1, <2>2 DEF offset_accessed_2D
<1>8. Candidate(i) <=> is_multiple_of_stride(exp, i) /\ i \div PatternEnd >= 0 /\ i \div PatternEnd >= 1
  <2>1. Candidate(i) = offset_potential_prefetch_2D(exp, i)
    BY DEF Candidate, Patterns
  <2>2. QED
    BY <1>1, <1>2, <1>3, <1>6, <2>1 DEF offset_potential_prefetch_2D
<1> DEFINE q == i \div PatternEnd
           s == i % PatternEnd
<1>9. q \in Nat /\ s \in Nat /\ s < PatternEnd /\ i = PatternEnd * q + s
  BY <1>1
<1>10. (q >= 1 <=> PatternEnd <= i) /\ (i < PatternEnd => s = i) /\ (PatternEnd <= i /\ i < PatternEnd + PatternEnd => s = i - PatternEnd)
  <2> HIDE DEF q, s
  <2>1. q = 0 => i = s
    BY <1>1, <1>9
  <2>2. q = 1 => i = PatternEnd + s
    BY <1>1, <1>9
  <2>3. q >= 1 => PatternEnd * q >= PatternEnd
    BY <1>1, <1>9, TimesGrows
  <2>4. q >= 2 => PatternEnd * q >= PatternEnd + PatternEnd
    <3> SUFFICES ASSUME q >= 2 PROVE PatternEnd * q >= PatternEnd + PatternEnd
      OBVIOUS
    <3>1. PatternEnd * (q - 1) >= PatternEnd /\ PatternEnd * (q - 1) = PatternEnd * q - PatternEnd
      BY <1>1, <1>9, TimesGrows
    <3>2. PatternEnd * q \in Int
      BY <1>1, <1>9
    <3>3. QED
      BY <1>1, <3>1, <3>2
  <2>5. PatternEnd * q \in Int
    BY <1>1, <1>9
  <2>6. QED
    BY <1>1, <1>9, <2>1, <2>2, <2>3, <2>4, <2>5
<1>11. ASSUME Accessed(i) PROVE \E k \in 0..PatternGap : i = k * PatternStride
  <2>1. i <= PatternEnd
    <3>1. m \div PatternEnd < 1 /\ m \in Nat
      BY <1>1, <1>7, <1>11
    <3>2. m < PatternEnd
      <4> DEFINE u == m \div PatternEnd
                 v == m % PatternEnd
      <4> HIDE DEF m
      <4>1. u \in Nat /\ v \in Nat /\ v < PatternEnd /\ m = PatternEnd * u + v
        BY <1>1, <3>1
      <4>2. u = 0
        BY <3>1, <4>1
      <4> HIDE DEF u, v
      <4>3. QED
        BY <1>1, <4>1, <4>2
    <3>3. QED
      BY <1>1, <3>2
  <2>2. CASE i = PatternEnd
    BY <1>1, <2>2 DEF PatternEnd
  <2>3. CASE i < PatternEnd
    <3>1. s = i
      BY <1>10, <2>3
    <3>2. PICK k \in 0..(PatternGap - 1) : i = k * PatternStride
      BY <1>5, <1>7, <1>11, <3>1
    <3>3. k \in 0..PatternGap
      BY <1>1
    <3>4. QED
      BY <3>2, <3>3
  <2>4. QED
    BY <1>1, <2>1, <2>2, <2>3
<1>12. ASSUME i = 0 PROVE Accessed(i)
  <2>1. i % PatternEnd = 0 * PatternStride /\ 0 \in 0..(PatternGap - 1)
    BY <1>1, <1>12, <1>10
  <2>2. m = 0 /\ 0 \div PatternEnd = 0
    BY <1>1, <1>12, DivBetween
  <2>3. is_multiple_of_stride(exp, i)
    BY <1>5, <2>1
  <2>4. m \div PatternEnd >= 0 /\ m \div PatternEnd < 1
    BY <2>2
  <2>5. QED
    BY <1>7, <2>3, <2>4
<1>13. ASSUME Candidate(i) PROVE PatternEnd <= i /\ i % PatternStride = 0
  <2>1. PatternEnd <= i
    BY <1>8, <1>10, <1>13
  <2>2. PICK k \in 0..(PatternGap - 1) : s = k * PatternStride
    BY <1>5, <1>8, <1>13
  <2>3. i = (PatternGap * q + k) * PatternStride
    <3> HIDE DEF q, s
    <3>1. k \in Nat
      OBVIOUS
    <3>2. PatternEnd * q = (PatternGap * q) * PatternStride
      BY <1>1, <1>9 DEF PatternEnd
    <3>3. (PatternGap * q + k) * PatternStride = (PatternGap * q) * PatternStride + k * PatternStride
      BY <1>1, <1>9, <3>1
    <3>4. QED
      BY <1>9, <2>2, <3>2, <3>3
  <2>4. PatternGap * q + k \in Nat
    <3> HIDE DEF q
    <3>1. QED
      BY <1>1, <1>9
  <2>5. ((PatternGap * q + k) * PatternStride) % PatternStride = 0
    <3> DEFINE z == PatternGap * q + k
    <3>1. z \in Nat
      BY <2>4
    <3> HIDE DEF z
    <3>2. (z * PatternStride) % PatternStride = 0
      BY <1>1, <3>1, Multiples
    <3>3. QED
      BY <3>2 DEF z
  <2>6. QED
    BY <2>1, <2>3, <2>5
<1>14. ASSUME i \in NextStrides PROVE Candidate(i)
  <2>1. PatternEnd <= i /\ i < PatternEnd + LineSize /\ i % PatternStride = 0
    BY <1>1, <1>14 DEF NextStrides
  <2>2. s = i - PatternEnd /\ q >= 1
    BY <1>1, <1>10, <2>1
  <2>3. PICK n \in Nat : i = n * PatternStride
    BY <1>1, <2>1, Multiples
  <2>4. s = (n - PatternGap) * PatternStride
    <3>1. n * PatternStride - PatternGap * PatternStride = (n - PatternGap) * PatternStride
      BY <1>1
    <3>2. QED
      BY <2>2, <2>3, <3>1 DEF PatternEnd
  <2> DEFINE k == n - PatternGap
  <2>5. k \in Int /\ s = k * PatternStride
    BY <1>1, <2>4
  <2>6. k >= 0 /\ k <= PatternGap - 1
    <3> HIDE DEF k, s
    <3>1. ASSUME k <= -1 PROVE FALSE
      <4>1. k * PatternStride <= (-1) * PatternStride
        BY <1>1, <2>5, <3>1, ProductsOrdered
      <4>2. QED
        BY <1>1, <1>9, <2>5, <4>1
    <3>2. ASSUME k >= PatternGap PROVE FALSE
      <4>1. PatternGap * PatternStride <= k * PatternStride
        BY <1>1, <2>5, <3>2, ProductsOrdered
      <4>2. QED
        BY <1>1, <1>9, <2>5, <4>1 DEF PatternEnd
    <3>3. QED
      BY <1>1, <2>5, <3>1, <3>2
  <2>7. is_multiple_of_stride(exp, i)
    BY <1>1, <1>5, <2>5, <2>6
  <2>8. QED
    BY <1>8, <1>9, <2>2, <2>7
<1>15. QED
  BY <1>11, <1>12, <1>13, <1>14

\* What a byte counts whose line is in the cache at every probe: the same for all
\* those that the pattern is about.
Whole2D == PerThousand(Turns(0, IdentifyReps, Size), Rounds(IdentifyReps, Size))

\* What each byte counts in the evaluation.
LEMMA PatternCounts ==
  ASSUME IInv, QuietInv, OneLine, exp = Pattern, variant = "2D", pc = "evaluate"
  PROVE  /\ Whole2D \in Nat /\ 1000 <= Whole2D
         /\ \A i \in 0..(Size - 1) :
              hist[i] = IF LineOf(i) \in WorkloadLines THEN Whole2D ELSE 0
<1>1. /\ Size \in Nat \ {0} /\ IdentifyReps \in Nat /\ PatternEnd \in Nat /\ LineSize \in Nat
      /\ IdentifyReps % Size = 0 \/ PatternEnd + LineSize <= IdentifyReps % Size
      /\ Rounds(IdentifyReps, Size) # 0 /\ Quiet
  BY PatternSizes, PatternLines, ExperimentAssumption, RoomAssumption
  DEF OneLine, PatternEnd, QuietInv
<1>2. Whole2D \in Nat /\ 1000 <= Whole2D
  <2>1. 0 \in 0..(Size - 1)
    BY <1>1
  <2>2. QED
    BY <1>1, <2>1, TurnsScaled DEF Whole2D
<1>3. ASSUME NEW i \in 0..(Size - 1), LineOf(i) \in WorkloadLines PROVE hist[i] = Whole2D
  <2>1. i < PatternEnd + LineSize
    BY <1>3, PatternLines
  <2>2. Turns(i, IdentifyReps, Size) = Turns(0, IdentifyReps, Size)
    <3> DEFINE m == IdentifyReps % Size
    <3>1. m \in Nat /\ i \in Nat /\ (m = 0 \/ PatternEnd + LineSize <= m)
      BY <1>1
    <3> HIDE DEF m
    <3>2. i < m <=> 0 < m
      BY <1>1, <2>1, <3>1
    <3>3. QED
      BY <3>2 DEF Turns, m
  <2>3. hist[i] = HitsScaled(i)
    BY <1>1 DEF QuietInv
  <2>4. QED
    BY <1>3, <2>2, <2>3 DEF HitsScaled, Hits, Whole2D
<1>4. ASSUME NEW i \in 0..(Size - 1), LineOf(i) \notin WorkloadLines PROVE hist[i] = 0
  <2>1. hist[i] = PerThousand(0, Rounds(IdentifyReps, Size))
    BY <1>1, <1>4 DEF QuietInv, HitsScaled, Hits
  <2>2. Rounds(IdentifyReps, Size) \in Nat \ {0}
    BY <1>1, QuotientNat DEF Rounds
  <2> DEFINE n == Rounds(IdentifyReps, Size)
  <2> HIDE DEF n
  <2>3. (0 * 1000) \div n = 0
    BY <2>2, ScaledType DEF n
  <2>4. QED
    BY <2>1, <2>3 DEF PerThousand, n
<1>5. QED
  BY <1>2, <1>3, <1>4

\* All accesses hit, and no miss counts more than they do.
LEMMA PatternThreshold ==
  ASSUME Divisor >= 2, IInv, QuietInv, OneLine, exp = Pattern, variant = "2D", pc = "evaluate"
  PROVE  prefetch_thresh \in Nat /\ 1 <= prefetch_thresh /\ prefetch_thresh <= Whole2D
<1> DEFINE hit == Average(HitEntries)
           miss == Average(MissEntries)
           V == Whole2D
<1>1. /\ V \in Nat /\ 1000 <= V
      /\ \A i \in 0..(Size - 1) : hist[i] = IF LineOf(i) \in WorkloadLines THEN V ELSE 0
      /\ Entries = 0..(Size - 1) /\ Size \in Nat \ {0} /\ Divisor \in Nat \ {0}
  BY PatternCounts, ByteList, PositiveSize, ExperimentAssumption
<1> HIDE DEF V
<1>2. IsFiniteSet(HitEntries) /\ IsFiniteSet(MissEntries)
      /\ HitEntries \subseteq 0..(Size - 1) /\ MissEntries \subseteq 0..(Size - 1)
  <2>1. IsFiniteSet(0..(Size - 1))
    BY <1>1, FS_Interval
  <2>2. HitEntries \subseteq 0..(Size - 1) /\ MissEntries \subseteq 0..(Size - 1)
    BY <1>1 DEF HitEntries, MissEntries
  <2>3. QED
    BY <2>1, <2>2, FS_Subset
<1>3. hit = V
  <2>1. HitEntries # {}
    <3>1. 0 \in 0..(Size - 1)
      BY <1>1
    <3>2. QED
      BY <1>1, <3>1, PatternClasses DEF HitEntries
  <2>2. ASSUME NEW i \in HitEntries PROVE hist[i] \in V..V
    <3>1. i \in 0..(Size - 1) /\ Accessed(i)
      BY <1>2 DEF HitEntries
    <3>2. PICK k \in 0..PatternGap : i = k * PatternStride
      BY <3>1, PatternClasses
    <3>3. LineOf(i) \in WorkloadLines
      BY <3>2, PatternLines
    <3>4. QED
      BY <1>1, <3>1, <3>3
  <2>3. SumOver(hist, HitEntries) \div Cardinality(HitEntries) \in V..V
    BY <1>1, <1>2, <2>1, <2>2, AverageBetween
  <2>4. hit \in V..V
    BY <2>1, <2>3, AverageSum
  <2> HIDE DEF hit
  <2>5. QED
    BY <1>1, <2>4
<1>4. miss \in 0..V
  <2>1. CASE MissEntries = {}
    <3>1. miss = 0
      BY <2>1, AverageSum
    <3> HIDE DEF miss
    <3>2. QED
      BY <1>1, <3>1
  <2>2. CASE MissEntries # {}
    <3>1. \A i \in MissEntries : hist[i] \in 0..V
      BY <1>1, <1>2
    <3>2. SumOver(hist, MissEntries) \div Cardinality(MissEntries) \in 0..V
      BY <1>1, <1>2, <2>2, <3>1, AverageBetween
    <3>3. QED
      BY <2>2, <3>2, AverageSum
  <2>3. QED
    BY <2>1, <2>2
<1>5. prefetch_thresh = LET thresh == IF hit >= miss THEN miss + ((hit - miss) \div Divisor) ELSE Huge
                        IN  IF thresh = 0 THEN 1 ELSE thresh
  BY DEF prefetch_thresh
<1> HIDE DEF hit, miss
<1> DEFINE part == (V - miss) \div Divisor
<1>6. part \in 0..(V - miss)
  <2> DEFINE d == V - miss
  <2>1. d \in Nat
    BY <1>1, <1>4
  <2> HIDE DEF d
  <2>2. Divisor * 0 <= d /\ d <= Divisor * d
    <3>1. d * (Divisor - 1) >= 0 /\ d * (Divisor - 1) = Divisor * d - d /\ Divisor * d \in Int
      BY <1>1, <2>1
    <3>2. QED
      BY <1>1, <2>1, <3>1
  <2>3. d \div Divisor \in 0..d
    BY <1>1, <2>1, <2>2, DivBetween
  <2>4. QED
    BY <2>3 DEF d
<1>7. hit >= miss /\ miss + ((hit - miss) \div Divisor) = miss + part
  BY <1>1, <1>3, <1>4
<1> HIDE DEF part
<1>8. prefetch_thresh = IF miss + part = 0 THEN 1 ELSE miss + part
  BY <1>5, <1>7
<1>9. miss + part \in Nat /\ miss + part <= V
  BY <1>1, <1>4, <1>6
<1>10. QED
  BY <1>1, <1>8, <1>9 DEF V

\* What is left over the threshold are the bytes that would be next in the last
\* line, whether or not the hardware has fetched anything.
LEMMA PatternEvaluated ==
  ASSUME Noise < 1000, Divisor >= 2, IInv, QuietInv, OneLine, exp = Pattern, variant = "2D", Evaluate
  PROVE  vector' = NextStrides
<1>1. /\ pc = "evaluate" /\ Entries = 0..(Size - 1) /\ Noise \in Nat
      /\ vector' = {i \in CandidateEntries : hist[i] > Noise /\ hist[i] >= prefetch_thresh}
  BY ByteList, ExperimentAssumption DEF Evaluate
<1>2. /\ Whole2D \in Nat /\ 1000 <= Whole2D
      /\ \A i \in 0..(Size - 1) : hist[i] = IF LineOf(i) \in WorkloadLines THEN Whole2D ELSE 0
  BY <1>1, PatternCounts
<1>3. prefetch_thresh \in Nat /\ 1 <= prefetch_thresh /\ prefetch_thresh <= Whole2D
  BY <1>1, PatternThreshold
<1>4. ASSUME NEW i \in 0..(Size - 1)
      PROVE  hist[i] > Noise /\ hist[i] >= prefetch_thresh <=> LineOf(i) \in WorkloadLines
  <2> DEFINE w == Whole2D
             t == prefetch_thresh
  <2>1. w \in Nat /\ 1000 <= w /\ t \in Nat /\ 1 <= t /\ t <= w
    BY <1>2, <1>3
  <2> HIDE DEF w, t
  <2>2. w > Noise /\ w >= t /\ ~(0 >= t)
    BY <1>1, <2>1
  <2>3. QED
    BY <1>2, <2>2 DEF w, t
<1>5. vector' = {i \in 0..(Size - 1) : Candidate(i) /\ LineOf(i) \in WorkloadLines}
  BY <1>1, <1>4 DEF CandidateEntries
<1>6. NextStrides \subseteq 0..(Size - 1) /\ PatternEnd \in Nat /\ LineSize \in Nat
  <2>1. /\ PatternEnd \in Nat /\ LineSize \in Nat /\ Size \in Nat /\ PatternEnd + LineSize <= Size
    BY PatternSizes
  <2>2. PatternEnd..(PatternEnd + LineSize - 1) \subseteq 0..(Size - 1)
    BY <2>1
  <2>3. QED
    BY <2>1, <2>2 DEF NextStrides
<1>7. ASSUME NEW i \in 0..(Size - 1)
      PROVE  Candidate(i) /\ LineOf(i) \in WorkloadLines <=> i \in NextStrides
  <2>1. ASSUME Candidate(i), LineOf(i) \in WorkloadLines PROVE i \in NextStrides
    <3>1. PatternEnd <= i /\ i % PatternStride = 0 /\ i < PatternEnd + LineSize
      BY <2>1, PatternClasses, PatternLines
    <3>2. i \in PatternEnd..(PatternEnd + LineSize - 1)
      BY <1>6, <3>1
    <3>3. QED
      BY <3>1, <3>2 DEF NextStrides
  <2>2. ASSUME i \in NextStrides PROVE Candidate(i) /\ LineOf(i) \in WorkloadLines
    <3>1. i \in PatternEnd..(PatternEnd + LineSize - 1)
      BY <2>2 DEF NextStrides
    <3>2. QED
      BY <2>2, <3>1, PatternClasses, PatternLines
  <2>3. QED
    BY <2>1, <2>2
<1>8. QED
  BY <1>5, <1>6, <1>7

------------------------------------------------------------------------------
\* The test

\* The test has one experiment.
LEMMA PatternRuns ==
  ASSUME TestInv, test = "2D_steps", pc \notin {"conclude", "concluded"}
  PROVE  exp = Pattern /\ variant = "2D" /\ Len(vectors) = 0
<1>1. Experiments = <<[Loop(Pattern) EXCEPT !.variant = "2D"]>>
  BY DEF Experiments, TwoDSteps
<1>2. Len(Experiments) = 1 /\ Experiments[1] = [Loop(Pattern) EXCEPT !.variant = "2D"]
  BY <1>1
<1>3. Len(vectors) \in Nat /\ Len(vectors) < 1 /\ exp = Current.exp /\ variant = Current.variant
  BY <1>2 DEF TestInv
<1>4. Len(vectors) = 0 /\ Current = OnMachine(Experiments[1])
  BY <1>3 DEF Current
<1>5. Current.exp = Pattern /\ Current.variant = "2D"
  BY <1>2, <1>4 DEF OnMachine, Loop
<1>6. QED
  BY <1>3, <1>4, <1>5

\* Nothing is evaluated in the beginning.
LEMMA PatternFresh ==
  ASSUME TestInit
  PROVE  PatternInv
<1>1. vectors = <<>> /\ Len(vectors) = 0
  BY DEF TestInit
<1>2. pc = "assert"
  BY TestFresh DEF Fresh
<1>3. QED
  BY <1>1, <1>2 DEF PatternInv

\* The evaluation finds these bytes, and its vector goes to the list.
LEMMA PatternNext ==
  ASSUME Noise < 1000, Divisor >= 2, IInv, TestInv, QuietInv, PatternInv, [TestNext]_allVars
  PROVE  PatternInv'
<1>1. test' = test /\ NextStrides' = NextStrides /\ OneLine' = OneLine
  <2>1. test' = test
    BY DEF TestNext, RunExperiment, NextExperiment, LastExperiment, Conclude, TestEnded, testVars, allVars
  <2>2. QED
    BY <2>1 DEF NextStrides, PatternEnd, OneLine
<1> SUFFICES ASSUME test = "2D_steps", OneLine
             PROVE  /\ pc' = "done" => vector' = NextStrides
                    /\ \A n \in 1..Len(vectors') : vectors'[n] = NextStrides
  BY <1>1 DEF PatternInv
<1>2. CASE RunExperiment
  <2>1. Step /\ vectors' = vectors
    BY <1>2 DEF RunExperiment, testVars
  <2>2. CASE Evaluate
    <3>1. pc \notin {"conclude", "concluded"}
      BY <2>2 DEF Evaluate
    <3>2. vector' = NextStrides
      BY <2>2, <3>1, PatternRuns, PatternEvaluated
    <3>3. QED
      BY <2>1, <3>2 DEF PatternInv
  <2>3. CASE ~Evaluate
    <3>1. pc' # "done"
      BY <2>1, <2>3 DEF Step, CheckBounds, Flush, Workload, Prefetch, Probe, Normalize
    <3>2. QED
      BY <2>1, <3>1 DEF PatternInv
  <2>4. QED
    BY <2>2, <2>3
<1>3. CASE NextExperiment \/ LastExperiment
  <2>1. pc = "done" /\ vectors' = Append(vectors, vector)
    BY <1>3 DEF NextExperiment, LastExperiment
  <2>2. vector = NextStrides /\ \A n \in 1..Len(vectors) : vectors[n] = NextStrides
    BY <2>1 DEF PatternInv
  <2>3. pc' # "done"
    BY <1>3 DEF NextExperiment, LastExperiment, Begin
  <2>4. vectors \in Seq(SUBSET Nat) /\ vector \in SUBSET Nat
    BY DEF TestInv
  <2>5. \A n \in 1..Len(vectors') : vectors'[n] = IF n <= Len(vectors) THEN vectors[n] ELSE vector
    BY <2>1, <2>4
  <2>6. \A n \in 1..Len(vectors') : n <= Len(vectors) => n \in 1..Len(vectors)
    BY <2>4
  <2>7. QED
    BY <2>2, <2>3, <2>5, <2>6
<1>4. CASE Conclude
  <2>1. vectors' = vectors /\ pc' # "done"
    BY <1>4 DEF Conclude
  <2>2. QED
    BY <2>1 DEF PatternInv
<1>5. CASE UNCHANGED allVars
  <2>1. vectors' = vectors /\ pc' = pc /\ vector' = vector
    BY <1>5 DEF allVars, vars, testVars
  <2>2. QED
    BY <2>1 DEF PatternInv
<1>6. QED
  BY <1>2, <1>3, <1>4, <1>5 DEF TestNext, TestEnded

\* All of the invariants of the tests.
LEMMA TestConcludes ==
  ASSUME Noise < 1000, Divisor >= 2
  PROVE  TestSpec => [](IInv /\ TestInv /\ FoundInv /\ ToldInv /\ QuietInv /\ PatternInv)
<1> DEFINE I == IInv /\ TestInv /\ FoundInv /\ ToldInv /\ QuietInv /\ PatternInv
<1>1. TestInit => I
  BY TestInvariant, TestFresh, QuietFresh, PatternFresh
<1>2. I /\ [TestNext]_allVars => I'
  <2>1. I /\ [TestNext]_allVars => IInv' /\ TestInv' /\ FoundInv' /\ ToldInv'
    BY TestInvariant
  <2>2. I /\ [TestNext]_allVars => QuietInv' /\ PatternInv'
    BY TestQuiet, PatternNext
  <2>3. QED
    BY <2>1, <2>2
<1>3. QED
  BY <1>1, <1>2, PTL DEF TestSpec

\* test_direction, test_stride_less_than_cl_size, test_random_offset_within_cl and
\* test_cross_page_boundary are right about the prefetcher.
THEOREM StrideLimitsTold ==
  ASSUME Noise < 1000, Divisor >= 2
  PROVE  TestSpec => []LimitsTold
<1>1. ToldInv /\ TestInv => LimitsTold
  BY LimitsConcluded
<1>2. QED
  BY <1>1, TestConcludes, PTL

\* An experiment of a test finds the prefetcher when it follows the stride, and so
\* does the pattern of test_2D_steps when it keeps to one line; what other
\* patterns find depends on where the averages come from.
THEOREM TestsFindPrefetcher ==
  ASSUME Noise < 1000, Divisor >= 2
  PROVE  TestSpec =>
           [](variant # "2D" \/ (test = "2D_steps" /\ Degree * PatternStride < LineSize) =>
                PrefetcherFound)
<1>1. IInv /\ TestInv /\ FoundInv /\ ToldInv /\ QuietInv /\ PatternInv =>
        (variant # "2D" => PrefetcherFound)
  BY DEF FoundInv, Found, PrefetcherFound
<1>2. ASSUME IInv /\ TestInv /\ FoundInv /\ ToldInv /\ QuietInv /\ PatternInv,
             test = "2D_steps", Degree * PatternStride < LineSize
      PROVE  PrefetcherFound
  <2> SUFFICES ASSUME pc = "done" PROVE PrefetcherFound
    BY DEF PrefetcherFound
  <2>1. OneLine /\ exp = Pattern /\ variant = "2D" /\ vector = NextStrides
    BY <1>2, PatternRuns DEF TestInv, OneLine, PatternInv
  <2>2. AheadLines \subseteq WorkloadLines
    BY <2>1, PatternLines DEF Quiet
  <2>3. ASSUME NEW i \in CandidateEntries, Probed(i) \in AheadLines PROVE i \in NextStrides
    <3>1. i \in 0..(Size - 1) /\ Candidate(i) /\ LineOf(i) \in WorkloadLines
      BY <2>1, <2>2, <2>3, ByteList DEF CandidateEntries
    <3>2. PatternEnd <= i /\ i < PatternEnd + LineSize /\ i % PatternStride = 0
      BY <2>1, <3>1, PatternLines, PatternClasses
    <3>3. PatternEnd \in Nat /\ LineSize \in Nat
      BY <2>1, PatternSizes
    <3>4. i \in PatternEnd..(PatternEnd + LineSize - 1)
      BY <3>1, <3>2, <3>3
    <3>5. QED
      BY <3>2, <3>4 DEF NextStrides
  <2>4. QED
    BY <2>1, <2>3 DEF PrefetcherFound, Patterns
<1>3. IInv /\ TestInv /\ FoundInv /\ ToldInv /\ QuietInv /\ PatternInv =>
        (variant # "2D" \/ (test = "2D_steps" /\ Degree * PatternStride < LineSize) =>
           PrefetcherFound)
  BY <1>1, <1>2
<1>4. QED
  BY <1>3, TestConcludes, PTL
==============================================================================
