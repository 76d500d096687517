-------------------------- MODULE SmsExperimentProofs --------------------------
(***************************************************************************)
(* The assertions of get_maccess_functions() hold for every alignment that *)
(* a function fits into, wherever the functions are placed and loaded.     *)
(* What the SMS tests report was fetched by the prefetcher, a region       *)
(* prefetcher is found behind accesses to other regions, the tests of      *)
(* characterize() conclude what its key and its entries are, and the       *)
(* access orders have the strides removed that their scan looks for: for   *)
(* every choice of offsets, sizes and repetitions.                         *)
(***************************************************************************)
EXTENDS SmsExperiment, Arithmetic

\* What Aligned gives is a multiple.
LEMMA AlignedMultiple ==
  ASSUME NEW n \in Nat \ {0}, NEW free \in Nat
  PROVE  \E q \in Nat : Aligned(free, n) = n * q
<1>1. (free + n - 1) \div n \in Nat
  OBVIOUS
<1>2. Aligned(free, n) = n * ((free + n - 1) \div n)
  BY <1>1 DEF Aligned
<1>3. QED
  BY <1>1, <1>2

\* A function that fits leaves the next multiple free for the other one.
LEMMA AlignedNext ==
  ASSUME NEW n \in Nat \ {0}, NEW q \in Nat, NEW size \in 1..n
  PROVE  Aligned(n * q + size, n) = n * q + n
<1>1. n * q + size + n - 1 = n * (q + 1) + (size - 1)
  OBVIOUS
<1>2. q + 1 \in Nat /\ size - 1 \in Nat /\ size - 1 < n
  OBVIOUS
<1>3. (n * (q + 1) + (size - 1)) \div n = q + 1
  BY <1>2, DivUnique
<1>4. QED
  BY <1>1, <1>3 DEF Aligned

\* The functions of a pair agree in the low bits and differ in the next one,
\* for every alignment, place and load address.
THEOREM PairsCollide ==
  ASSUME NEW n \in Nat \ {0}, CodeSize \in 1..n, NEW free \in Nat
  PROVE  CoAligned(Loaded(PairAt(free, n)), n)
<1>1. PICK q \in Nat : Aligned(free, n) = n * q
  BY AlignedMultiple
<1> DEFINE first == LoadBase + n * q
           at == first \div n
           low == first % n
<1>2. PairAt(free, n) = [first |-> n * q, second |-> n * q + n]
  BY <1>1, AlignedNext DEF PairAt
<1>3. first \in Nat /\ at \in Nat /\ low \in Nat /\ low < n /\ first = n * at + low
  BY CodeAssumption
<1>4. Loaded(PairAt(free, n)) = [first |-> first, second |-> first + n]
  BY <1>2, CodeAssumption DEF Loaded
<1>5. first + n = n * (at + 1) + low
  BY <1>3
<1>6. (first + n) \div n = at + 1 /\ (first + n) % n = low
  <2> HIDE DEF first, at, low
  <2>1. at + 1 \in Nat
    BY <1>3
  <2>2. (n * (at + 1) + low) \div n = at + 1 /\ (n * (at + 1) + low) % n = low
    BY <1>3, <2>1, DivUnique
  <2>3. QED
    BY <1>5, <2>2
<1>7. at # at + 1 /\ at % 2 # (at + 1) % 2
  <2> HIDE DEF first, at, low
  <2>1. QED
    BY <1>3
<1>8. QED
  BY <1>3, <1>4, <1>6, <1>7 DEF CoAligned

\* The program's functions are such pairs.
LEMMA PlacedPairs == ArePairs(Placed, MinBits, MaxBits, CodeSize)
<1> DEFINE Is(f) == f = [bits \in MinBits..MaxBits |->
                           PairAt(IF bits = MinBits THEN 0 ELSE f[bits - 1].second + CodeSize, 2 ^ bits)]
<1>1. Placed = CHOOSE f : Is(f)
  BY Zenon DEF Placed
<1>2. \A free, n : PairAt(free, n) = PairFrom(free, n, CodeSize)
  BY DEF PairAt, PairFrom, Aligned, MultipleFrom
<1>3. \A f : Is(f) <=> ArePairs(f, MinBits, MaxBits, CodeSize)
  BY <1>2 DEF ArePairs
<1>4. PICK f : Is(f)
  BY <1>3, PairsExist, CodeAssumption
<1>5. Is(Placed)
  BY <1>1, <1>4
<1>6. QED
  BY <1>3, <1>5

\* The assertions of get_maccess_functions() hold for each number of bits.
THEOREM FunctionsCollide ==
  ASSUME NEW b \in MinBits..MaxBits
  PROVE  CoAligned(get_maccess_functions(b), 2 ^ b)
<1> DEFINE n == 2 ^ b
<1>1. MinBits \in Nat /\ MaxBits \in Nat /\ b \in Nat /\ CodeSize \in 1..(2 ^ MinBits)
  BY CodeAssumption
<1>2. /\ \E free \in Nat : Placed[b] = PairFrom(free, n, CodeSize)
      /\ 2 ^ MinBits <= n
  BY <1>1, PlacedPairs, PairsPlaced
<1>3. PICK free \in Nat : Placed[b] = PairAt(free, n)
  BY <1>2 DEF PairAt, PairFrom, Aligned, MultipleFrom
<1>4. n \in Nat \ {0} /\ 2 ^ MinBits \in Nat
  BY <1>1, Powers
<1> HIDE DEF n
<1>5. CodeSize \in 1..n
  BY <1>1, <1>2, <1>4
<1>6. CoAligned(Loaded(PairAt(free, n)), n)
  BY <1>4, <1>5, PairsCollide
<1>7. QED
  BY <1>3, <1>6 DEF get_maccess_functions, n

\* What a prefetcher that looks at hw.bits bits makes of the program's functions.
LEMMA SeenPairs ==
  ASSUME hw.bits \in Nat, NEW b \in MinBits..MaxBits
  PROVE  LET second == Seen(get_maccess_functions(b).second)
         IN  /\ hw.bits <= b => Seen(get_maccess_functions(b).first) = second
             /\ hw.bits > b => Seen(get_maccess_functions(b).first) # second
             /\ hw.bits > b + 1 => \A a \in MinBits..b : Seen(get_maccess_functions(a).first) # second
<1>1. MinBits \in Nat /\ MaxBits \in Nat /\ CodeSize \in 1..(2 ^ MinBits) /\ LoadBase \in Nat
  BY CodeAssumption
<1>2. \A a : /\ get_maccess_functions(a).first = LoadBase + Placed[a].first
             /\ get_maccess_functions(a).second = LoadBase + Placed[a].second
  BY DEF get_maccess_functions, Loaded
<1> DEFINE k == hw.bits
           f == Placed
<1>3. k \in Nat /\ ArePairs(f, MinBits, MaxBits, CodeSize)
  BY PlacedPairs
<1>4. \A a : /\ Seen(get_maccess_functions(a).first) = (LoadBase + f[a].first) % 2 ^ k
             /\ Seen(get_maccess_functions(a).second) = (LoadBase + f[a].second) % 2 ^ k
  BY <1>2 DEF Seen
<1> HIDE DEF k, f
<1>5. /\ k <= b => (LoadBase + f[b].first) % 2 ^ k = (LoadBase + f[b].second) % 2 ^ k
      /\ k > b => (LoadBase + f[b].first) % 2 ^ k # (LoadBase + f[b].second) % 2 ^ k
      /\ k > b + 1 => \A a \in MinBits..b :
                         (LoadBase + f[a].first) % 2 ^ k # (LoadBase + f[b].second) % 2 ^ k
  BY <1>1, <1>3, PairRemainders
<1>6. QED
  BY <1>4, <1>5 DEF k

------------------------------------------------------------------------------

TestInv == test \in 0..TrainingEntries /\ rep \in Nat

\* The tests of regions never get to a trigger access.
NullInv == NullPassed => pc \in {"order", "repeat", "train", "segv", "done"}

\* The trigger access finds the probed page flushed.
CacheInv ==
  /\ pc = "train" /\ ~SamePc => cache = {}
  /\ pc = "trigger" => cache = {}
  /\ pc = "probe" => cache \subseteq {trigger} \union fetched

HistInv ==
  /\ hist \in [AllLines -> Nat]
  /\ \A l \in AllLines : hist[l] > 0 => ~NullPassed /\ l \in {trigger} \union fetched

IInv == TestInv /\ NullInv /\ CacheInv /\ HistInv /\ OnlyPrefetches

LEMMA TestNumbers ==
  /\ Positions \in Nat \ {0} /\ Different = Positions + 1 /\ RegionBoundary = Positions + 2
  /\ Direction = Positions + 3 /\ PcCollision = Positions + 4 /\ TrainingEntries = Positions + 5
BY SmsAssumption DEF Different, RegionBoundary, Direction, PcCollision, TrainingEntries

\* The quotient of 0, and that of two natural numbers.
LEMMA QuotientType ==
  ASSUME NEW a \in Nat, NEW n \in Nat \ {0}
  PROVE  a \div n \in Nat /\ (a = 0 => a \div n = 0)
<1>1. a \div n \in Nat
  OBVIOUS
<1>2. (n * 0 + 0) \div n = 0
  BY DivUnique
<1>3. QED
  BY <1>1, <1>2

LEMMA SomeRounds == Reps \div Lines \in Nat \ {0}
<1>1. Reps \in Nat /\ Lines \in Nat \ {0} /\ Reps >= Lines
  BY SmsAssumption
<1> DEFINE q == Reps \div Lines
<1>2. q \in Nat /\ Reps % Lines < Lines /\ Reps = Lines * q + (Reps % Lines)
  BY <1>1
<1>3. q # 0
  BY <1>1, <1>2
<1>4. QED
  BY <1>2, <1>3

\* The head of a sequence without repetitions does not occur in its tail.
LEMMA HeadOnce ==
  ASSUME NEW S, NEW s \in Seq(S), Len(s) > 1, IsInjective(s)
  PROVE  /\ Head(s) \in S
         /\ \A e \in ToSet(Tail(s)) : e \in S /\ e # Head(s)
<1>1. Head(s) = s[1] /\ 1 \in DOMAIN s /\ s[1] \in S
  OBVIOUS
<1>2. ASSUME NEW e \in ToSet(Tail(s)) PROVE e \in S /\ e # Head(s)
  <2>1. PICK k \in DOMAIN Tail(s) : e = Tail(s)[k]
    BY <1>2 DEF ToSet
  <2>2. k \in Nat /\ k >= 1 /\ k + 1 \in DOMAIN s /\ e = s[k + 1] /\ s[k + 1] \in S
    BY <2>1
  <2>3. s[k + 1] # s[1]
    <3> DEFINE m == k + 1
    <3>1. m \in DOMAIN s /\ m # 1
      BY <2>2
    <3> HIDE DEF m
    <3>2. s[m] # s[1]
      BY <1>1, <3>1 DEF IsInjective
    <3>3. QED
      BY <3>2 DEF m
  <2>4. QED
    BY <1>1, <2>2, <2>3
<1>3. QED
  BY <1>1, <1>2

\* The offsets of the tests that get to a trigger access.
LEMMA TestOffsets ==
  ASSUME TestInv, ~NullPassed
  PROVE  training_offsets \in Seq(AllLines) /\ Len(training_offsets) > 1 /\ IsInjective(training_offsets)
<1>1. training_offsets \in {SameOffsets, OtherOffsets, EntryOffsets}
  BY TestNumbers DEF TestInv, NullPassed, training_offsets, SamePc
<1> DEFINE offsets == training_offsets
<1> HIDE DEF offsets
<1>2. offsets \in Seq(AllLines) /\ Len(offsets) > 1 /\ IsInjective(offsets)
  BY <1>1, SmsAssumption DEF offsets, AllLines
<1>3. QED
  BY <1>2 DEF offsets

\* A trigger access is no candidate: its offset occurs in the training once.
LEMMA TriggerNoCandidate ==
  ASSUME TestInv, ~NullPassed
  PROVE  ~cl_potential_prefetch(trigger)
<1> DEFINE offsets == training_offsets
<1>1. offsets \in Seq(AllLines) /\ Len(offsets) > 1 /\ IsInjective(offsets)
  BY TestOffsets
<1>2. trigger = Head(offsets)
  BY DEF trigger
<1> HIDE DEF offsets
<1>3. /\ trigger \in 0..(Lines - 1)
      /\ \A e \in ToSet(Tail(offsets)) : e \in 0..(Lines - 1) /\ e # trigger
  BY <1>1, <1>2, HeadOnce DEF AllLines
<1>4. Lines \in Nat
  BY SmsAssumption
<1>5. \A e \in ToSet(Tail(offsets)) : trigger + Head(offsets) # e + trigger
  BY <1>2, <1>3, <1>4
<1>6. QED
  BY <1>3, <1>5 DEF cl_potential_prefetch, offsets

\* What one counter may become when something is added to it.
LEMMA CountedUp ==
  ASSUME NEW E, NEW h \in [E -> Nat], NEW k, NEW n \in Nat
  PROVE  /\ [h EXCEPT ![k] = h[k] + n] \in [E -> Nat]
         /\ \A l \in E : [h EXCEPT ![k] = h[k] + n][l] > 0 => h[l] > 0 \/ (l = k /\ n > 0)
<1> DEFINE g == [h EXCEPT ![k] = h[k] + n]
<1>1. \A l \in E : g[l] = IF l = k THEN h[k] + n ELSE h[l]
  OBVIOUS
<1>2. \A l \in E : g[l] \in Nat
  BY <1>1
<1>3. g \in [E -> Nat]
  BY <1>2
<1>4. QED
  BY <1>1, <1>3

LEMMA InitInv == Init => IInv
<1> SUFFICES ASSUME Init PROVE IInv
  OBVIOUS
<1>1. TestInv
  BY TestNumbers DEF Init, TestInv
<1>2. NullInv
  BY TestNumbers DEF Init, NullInv, NullPassed
<1>3. pc \in {"order", "repeat"}
  BY DEF Init
<1>4. CacheInv /\ OnlyPrefetches
  BY <1>3 DEF CacheInv, OnlyPrefetches
<1>5. hist = [l \in AllLines |-> 0]
  BY DEF Init
<1>6. HistInv
  BY <1>5 DEF HistInv
<1>7. QED
  BY <1>1, <1>2, <1>4, <1>6 DEF IInv

\* In the tests that get to a trigger access, what is accessed stays.
LEMMA TriggerStays ==
  ASSUME TestInv, test' = test, ~NullPassed
  PROVE  trigger' = trigger /\ Trained' = Trained
<1>1. training_offsets' = training_offsets
  BY TestNumbers DEF TestInv, NullPassed, training_offsets, SamePc, Different, RegionBoundary,
     Direction, PcCollision, TrainingEntries
<1>2. QED
  BY <1>1 DEF trigger, Trained

LEMMA NextInv == IInv /\ [Next]_vars => IInv'
<1> SUFFICES ASSUME IInv, [Next]_vars PROVE IInv'
  OBVIOUS
<1> USE DEF IInv
\* All steps but Report stay in a test.
<1>1. ASSUME test' = test, rep' \in Nat PROVE TestInv' /\ (NullPassed' <=> NullPassed)
  BY <1>1 DEF TestInv, NullPassed, RegionBoundary, Direction, TrainingEntries
\* As long as the counters stay and no explanation goes.
<1>2. ASSUME test' = test, hist' = hist, fetched \subseteq fetched' PROVE HistInv'
  <2>1. NullPassed' <=> NullPassed
    BY <1>2 DEF NullPassed, RegionBoundary, Direction
  <2>2. CASE NullPassed
    BY <1>2, <2>1, <2>2 DEF HistInv, AllLines
  <2>3. CASE ~NullPassed
    BY <1>2, <2>1, <2>3, TriggerStays DEF HistInv, AllLines
  <2>4. QED
    BY <2>2, <2>3
<1>3. CASE MakeOrder
  <2>1. test' = test /\ rep' = rep /\ hist' = hist /\ fetched' = fetched /\ pc' \in {"order", "repeat"}
    BY <1>3 DEF MakeOrder, memory, outcome
  <2>2. QED
    BY <1>1, <1>2, <2>1 DEF TestInv, NullInv, CacheInv, OnlyPrefetches
<1>4. CASE Die
  <2>1. test' = test /\ rep' = rep /\ hist' = hist /\ fetched' = fetched /\ pc' = "segv"
    BY <1>4 DEF Die, experiment, memory, outcome
  <2>2. QED
    BY <1>1, <1>2, <2>1 DEF TestInv, NullInv, CacheInv, OnlyPrefetches
<1>5. CASE FlushFirst
  <2>1. test' = test /\ rep' = rep /\ hist' = hist /\ fetched' = fetched /\ pc' = "train" /\ cache' = {}
    BY <1>5 DEF FlushFirst, experiment, outcome
  <2>2. QED
    BY <1>1, <1>2, <2>1 DEF TestInv, NullInv, CacheInv, OnlyPrefetches
<1>6. CASE Train
  <2>1. /\ test' = test /\ rep' = rep /\ hist' = hist /\ fetched' = fetched
        /\ pc = "train" /\ ~NullPassed
    BY <1>6 DEF Train, experiment, outcome
  <2>2. CASE SamePc
    <3>1. pc' = "regions"
      BY <1>6, <2>2 DEF Train
    <3>2. QED
      BY <1>1, <1>2, <2>1, <3>1 DEF TestInv, NullInv, CacheInv, OnlyPrefetches
  <2>3. CASE ~SamePc
    <3>1. pc' = "trigger" /\ cache' = {}
      BY <1>6, <2>1, <2>3 DEF Train, CacheInv
    <3>2. QED
      BY <1>1, <1>2, <2>1, <3>1 DEF TestInv, NullInv, CacheInv, OnlyPrefetches
  <2>4. QED
    BY <2>2, <2>3
<1>7. CASE AccessRegions
  <2>1. /\ test' = test /\ rep' = rep /\ hist' = hist /\ fetched' = fetched
        /\ pc = "regions" /\ pc' = "flush"
    BY <1>7 DEF AccessRegions, experiment, outcome
  <2>2. QED
    BY <1>1, <1>2, <2>1 DEF TestInv, NullInv, CacheInv, OnlyPrefetches
<1>8. CASE FlushTraining
  <2>1. /\ test' = test /\ rep' = rep /\ hist' = hist /\ fetched' = fetched /\ cache' = {}
        /\ pc = "flush" /\ pc' \in {"trigger", "train"}
    BY <1>8 DEF FlushTraining, experiment, outcome
  <2>2. QED
    BY <1>1, <1>2, <2>1 DEF TestInv, NullInv, CacheInv, OnlyPrefetches
<1>9. CASE Trigger
  <2>1. PICK lines : cache' = cache \union {trigger} \union lines /\ fetched' = fetched \union lines
    BY <1>9 DEF Trigger
  <2>2. test' = test /\ rep' = rep /\ hist' = hist /\ pc = "trigger" /\ pc' = "probe"
    BY <1>9 DEF Trigger, experiment, outcome
  <2>3. ~NullPassed /\ cache = {}
    BY <2>2 DEF NullInv, CacheInv
  <2>4. trigger' = trigger
    BY <2>2, <2>3, TriggerStays
  <2>5. CacheInv'
    BY <2>1, <2>2, <2>3, <2>4 DEF CacheInv
  <2>6. QED
    BY <1>1, <1>2, <2>1, <2>2, <2>3, <2>5 DEF TestInv, NullInv, OnlyPrefetches
<1>10. CASE Probe
  <2>1. /\ test' = test /\ rep' = rep + 1 /\ fetched' = fetched
        /\ pc = "probe" /\ pc' \in {"normalize", "repeat"}
        /\ hist' = [hist EXCEPT ![probe_idx] = hist[probe_idx] + IF probe_idx \in cache THEN 1 ELSE 0]
    BY <1>10 DEF Probe, experiment
  <2>2. ~NullPassed /\ cache \subseteq {trigger} \union fetched
    BY <2>1 DEF NullInv, CacheInv
  <2>3. trigger' = trigger /\ ~NullPassed'
    BY <2>1, <2>2, TriggerStays, <1>1 DEF TestInv
  <2>4. HistInv'
    <3> DEFINE hit == IF probe_idx \in cache THEN 1 ELSE 0
               idx == probe_idx
    <3>1. hit \in Nat /\ (hit > 0 => idx \in {trigger} \union fetched)
      BY <2>2
    <3>2. hist' = [hist EXCEPT ![idx] = hist[idx] + hit] /\ hist \in [AllLines -> Nat]
      BY <2>1 DEF HistInv
    <3> HIDE DEF hit, idx
    <3>3. /\ hist' \in [AllLines -> Nat]
          /\ \A l \in AllLines : hist'[l] > 0 => hist[l] > 0 \/ (l = idx /\ hit > 0)
      BY <3>1, <3>2, CountedUp
    <3>4. \A l \in AllLines : hist'[l] > 0 => l \in {trigger} \union fetched
      BY <3>1, <3>3 DEF HistInv
    <3>5. AllLines' = AllLines
      BY DEF AllLines
    <3>6. QED
      BY <2>1, <2>3, <3>3, <3>4, <3>5 DEF HistInv
  <2>5. QED
    BY <1>1, <2>1, <2>3, <2>4 DEF TestInv, NullInv, CacheInv, OnlyPrefetches
<1>11. CASE Normalize
  <2> DEFINE rounds == Reps \div Lines
  <2>1. /\ test' = test /\ rep' = rep /\ fetched' = fetched
        /\ pc = "normalize" /\ pc' = "evaluate"
        /\ hist' = [l \in AllLines |-> (hist[l] * 1000) \div rounds]
    BY <1>11 DEF Normalize, experiment, memory
  <2>2. ~NullPassed
    BY <2>1 DEF NullInv
  <2>3. trigger' = trigger /\ ~NullPassed'
    BY <2>1, <2>2, TriggerStays, <1>1 DEF TestInv
  <2>4. rounds \in Nat \ {0}
    BY SomeRounds
  <2> HIDE DEF rounds
  <2>5. \A l \in AllLines : hist[l] * 1000 \in Nat /\ (hist[l] * 1000 = 0 <=> hist[l] = 0)
    BY DEF HistInv
  <2>6. \A l \in AllLines : hist'[l] \in Nat /\ (hist'[l] > 0 => hist[l] > 0)
    <3> SUFFICES ASSUME NEW l \in AllLines PROVE hist'[l] \in Nat /\ (hist'[l] > 0 => hist[l] > 0)
      OBVIOUS
    <3>1. (hist[l] * 1000) \div rounds \in Nat
          /\ (hist[l] * 1000 = 0 => (hist[l] * 1000) \div rounds = 0)
      BY <2>4, <2>5, QuotientType
    <3>2. hist'[l] = (hist[l] * 1000) \div rounds
      BY <2>1
    <3>3. hist[l] \in Nat
      BY DEF HistInv
    <3>4. QED
      BY <2>5, <3>1, <3>2, <3>3
  <2>7. hist' \in [AllLines -> Nat] /\ AllLines' = AllLines
    BY <2>1, <2>6 DEF AllLines
  <2>8. HistInv'
    BY <2>1, <2>3, <2>6, <2>7 DEF HistInv
  <2>9. QED
    BY <1>1, <2>1, <2>3, <2>8 DEF TestInv, NullInv, CacheInv, OnlyPrefetches
<1>12. CASE Evaluate
  <2>1. /\ test' = test /\ rep' = rep /\ fetched' = fetched /\ hist' = hist
        /\ pc = "evaluate" /\ pc' = "report"
        /\ vector' \subseteq {l \in CandidateLines : hist[l] > Noise}
    BY <1>12 DEF Evaluate, experiment, memory
  <2>2. ~NullPassed
    BY <2>1 DEF NullInv
  <2>3. ASSUME NEW l \in vector' PROVE l \in fetched
    <3>1. l \in AllLines /\ cl_potential_prefetch(l) /\ hist[l] > Noise
      BY <2>1, <2>3 DEF CandidateLines
    <3>2. hist[l] > 0
      BY <3>1, SmsAssumption DEF HistInv
    <3>3. l # trigger
      BY <2>2, <3>1, TriggerNoCandidate
    <3>4. QED
      BY <3>1, <3>2, <3>3 DEF HistInv
  <2>4. OnlyPrefetches'
    BY <2>1, <2>3 DEF OnlyPrefetches
  <2>5. QED
    BY <1>1, <1>2, <2>1, <2>2, <2>4 DEF TestInv, NullInv, CacheInv
<1>13. CASE Report
  <2>1. /\ pc = "report" /\ rep' = 0 /\ hist' = [l \in AllLines |-> 0]
        /\ pc' \in {"repeat", "done", "order"}
        /\ test' = IF LastOfTest /\ test <= Different THEN test + 1 ELSE test
    BY <1>13 DEF Report
  <2>2. ~NullPassed
    BY <2>1 DEF NullInv
  <2>3. TestInv'
    BY <2>1, TestNumbers DEF TestInv, TrainingEntries
  <2>4. NullInv'
    BY <2>1 DEF NullInv
  <2>5. HistInv'
    BY <2>1 DEF HistInv, AllLines
  <2>6. QED
    BY <2>1, <2>3, <2>4, <2>5 DEF CacheInv, OnlyPrefetches
<1>14. CASE UNCHANGED vars
  <2>1. /\ test' = test /\ rep' = rep /\ fetched' = fetched /\ hist' = hist /\ pc' = pc
        /\ cache' = cache /\ vector' = vector
    BY <1>14 DEF vars, experiment, memory, outcome
  <2>2. pc = "probe" => trigger' = trigger
    BY <2>1, TriggerStays DEF NullInv
  <2>3. SamePc' <=> SamePc
    BY <2>1 DEF SamePc
  <2>4. QED
    BY <1>1, <1>2, <2>1, <2>2, <2>3 DEF TestInv, NullInv, CacheInv, OnlyPrefetches
<1>15. QED
  BY <1>3, <1>4, <1>5, <1>6, <1>7, <1>8, <1>9, <1>10, <1>11, <1>12, <1>13, <1>14 DEF Next, Ended

\* What the tests report as prefetched was fetched by the prefetcher, whichever
\* lines the training, the trigger and the accesses to other regions touch.
THEOREM SmsReportsOnlyPrefetches == Spec => []OnlyPrefetches
<1>1. IInv => OnlyPrefetches
  BY DEF IInv
<1>2. QED
  BY <1>1, InitInv, NextInv, PTL DEF Spec

------------------------------------------------------------------------------
\* What the prefetcher has learned when it comes to the trigger access

\* A region prefetcher, by the key of its patterns; and one that keys by
\* instruction and does not wait for a region to be evicted.
Keyed == hw.key \in {"pc", "offset"}
Immediate == hw.key = "pc" /\ hw.store = "at_once"

\* The patterns it stores: in the tests with the same instruction, in
\* test_pc_collision with b bits, and in test_training_entries.
Known == [pc |-> "maccess_noinline", first |-> Head(SameOffsets), lines |-> ToSet(SameOffsets)]

Pair(b) ==
  [pc |-> Seen(get_maccess_functions(b).first), first |-> Head(OtherOffsets), lines |-> ToSet(OtherOffsets)]

Entry ==
  [pc |-> "maccess_noinline", first |-> Head(EntryOffsets),
   lines |-> ToSet(EntryOffsets) \ IF info <= hw.entries THEN {} ELSE {Last(EntryOffsets)}]

LearnSame ==
  SamePc /\ Keyed =>
    /\ learned \subseteq {Known}
    /\ regions /\ pc \in {"flush", "trigger"} => learned = {Known}

\* The instruction that triggers in the test of different ones never trains.
LearnDifferent ==
  test <= Different /\ hw.key = "pc" => \A known \in learned : known.pc # "second_maccess"

LearnPairs ==
  test = PcCollision =>
    /\ info \in MinBits..MaxBits
    /\ Immediate => /\ learned \subseteq {Pair(b) : b \in MinBits..info}
                    /\ hw.forgets => learned \subseteq {Pair(info)}
                    /\ pc = "trigger" => Pair(info) \in learned

LearnEntries ==
  test = TrainingEntries =>
    /\ info \in 2..MaxEntries
    /\ Immediate => /\ \A known \in learned : <<known.pc, known.first>> = <<Entry.pc, Entry.first>>
                    /\ pc = "trigger" => learned = {Entry}

LearnInv ==
  /\ hw \in Hardware
  /\ pc \in {"regions", "flush"} => SamePc
  /\ LearnSame /\ LearnDifferent /\ LearnPairs /\ LearnEntries

LEMMA SameTest ==
  ASSUME SamePc
  PROVE  /\ trigger = Head(SameOffsets) /\ Trained = ToSet(SameOffsets)
         /\ TrainingPc = "maccess_noinline" /\ TriggerPc = "maccess_noinline"
         /\ Keyed => Stored = {Known}
<1>1. training_offsets = SameOffsets
  BY TestNumbers DEF training_offsets, SamePc
<1>2. trigger = Head(SameOffsets) /\ Trained = ToSet(SameOffsets)
  BY <1>1 DEF trigger, Trained
<1>3. test # PcCollision /\ test # Different /\ test # TrainingEntries
  BY TestNumbers DEF SamePc
<1>4. TrainingPc = "maccess_noinline" /\ TriggerPc = "maccess_noinline"
  BY <1>3 DEF TrainingPc, TriggerPc
<1>5. Pattern = Trained
  BY <1>3 DEF Pattern, Survives
<1>6. QED
  BY <1>1, <1>2, <1>4, <1>5 DEF Stored, Known, Keyed

LEMMA DifferentTest ==
  ASSUME test = Different
  PROVE  /\ ~SamePc /\ TriggerPc = "second_maccess"
         /\ hw.key = "pc" => \A new \in Stored : new.pc = "first_maccess"
<1>1. ~SamePc /\ test # PcCollision
  BY TestNumbers DEF SamePc
<1>2. TrainingPc = "first_maccess" /\ TriggerPc = "second_maccess"
  BY <1>1 DEF TrainingPc, TriggerPc
<1>3. QED
  BY <1>1, <1>2 DEF Stored

LEMMA PairTest ==
  ASSUME test = PcCollision
  PROVE  /\ trigger = Head(OtherOffsets) /\ Trained = ToSet(OtherOffsets) /\ ~SamePc
         /\ TriggerPc = Seen(get_maccess_functions(info).second)
         /\ hw.key = "pc" => Stored = {Pair(info)}
<1>1. ~SamePc /\ test # TrainingEntries
  BY TestNumbers DEF SamePc
<1>2. training_offsets = OtherOffsets
  BY <1>1, TestNumbers DEF training_offsets
<1>3. trigger = Head(OtherOffsets) /\ Trained = ToSet(OtherOffsets)
  BY <1>2 DEF trigger, Trained
<1>4. /\ TrainingPc = Seen(get_maccess_functions(info).first)
      /\ TriggerPc = Seen(get_maccess_functions(info).second)
  BY TestNumbers DEF TrainingPc, TriggerPc
<1>5. Pattern = Trained
  BY <1>1 DEF Pattern, Survives
<1>6. QED
  BY <1>1, <1>3, <1>4, <1>5 DEF Stored, Pair

LEMMA EntryTest ==
  ASSUME test = TrainingEntries
  PROVE  /\ trigger = Head(EntryOffsets) /\ Trained = ToSet(EntryOffsets) /\ ~SamePc
         /\ training_offsets = EntryOffsets
         /\ TriggerPc = "maccess_noinline"
         /\ hw.key = "pc" => Stored = {Entry}
<1>1. ~SamePc /\ test # Different /\ test # PcCollision
  BY TestNumbers DEF SamePc
<1>2. training_offsets = EntryOffsets
  BY <1>1, TestNumbers DEF training_offsets
<1>3. trigger = Head(EntryOffsets) /\ Trained = ToSet(EntryOffsets)
  BY <1>2 DEF trigger, Trained
<1>4. TrainingPc = "maccess_noinline" /\ TriggerPc = "maccess_noinline"
  BY <1>1 DEF TrainingPc, TriggerPc
<1>5. Pattern = ToSet(EntryOffsets) \ IF info <= hw.entries THEN {} ELSE {Last(EntryOffsets)}
  BY <1>2, <1>3 DEF Pattern, Survives
<1>6. QED
  BY <1>1, <1>2, <1>3, <1>4, <1>5 DEF Stored, Entry

\* Storing patterns keeps what was known under other keys.
LEMMA Learned ==
  ASSUME NEW patterns
  PROVE  Learn(patterns) \subseteq learned \union patterns /\ patterns \subseteq Learn(patterns)
BY DEF Learn

LEMMA LearnInit == Init => LearnInv
<1> SUFFICES ASSUME Init PROVE LearnInv
  OBVIOUS
<1>1. hw \in Hardware /\ learned = {} /\ pc \in {"order", "repeat"} /\ regions = FALSE
  BY DEF Init
<1>2. LearnSame /\ LearnDifferent
  BY <1>1 DEF LearnSame, LearnDifferent
<1>3. LearnPairs
  <2>1. test = PcCollision => info = MinBits
    BY TestNumbers DEF Init
  <2>2. QED
    BY <1>1, <2>1, CodeAssumption DEF LearnPairs
<1>4. LearnEntries
  <2>1. test = TrainingEntries => test # PcCollision
    BY TestNumbers
  <2>2. test = TrainingEntries => info = 2
    BY <2>1 DEF Init
  <2>3. QED
    BY <1>1, <2>2, SmsAssumption DEF LearnEntries
<1>5. QED
  BY <1>1, <1>2, <1>3, <1>4 DEF LearnInv

\* A pass over the offsets, or accesses to other regions, in each kind of test.
LEMMA LearnStored ==
  ASSUME LearnInv, UNCHANGED <<hw, test, regions, info>>,
         learned' = Learn(Stored), pc' \in {"regions", "flush", "trigger"},
         pc' \in {"regions", "flush"} => SamePc
  PROVE  LearnInv'
<1>1. SamePc' = SamePc /\ (Keyed' <=> Keyed) /\ (Immediate' <=> Immediate)
  BY DEF SamePc, Keyed, Immediate
<1>2. LearnSame'
  <2>1. SamePc /\ Keyed => learned' = {Known}
    <3>1. SUFFICES ASSUME SamePc, Keyed PROVE Learn({Known}) = {Known}
      BY SameTest
    <3>2. QED
      BY <3>1 DEF LearnInv, LearnSame, Learn
  <2>2. QED
    BY <1>1, <2>1 DEF LearnSame, Known
<1>3. LearnDifferent'
  <2>1. ASSUME test <= Different, hw.key = "pc", NEW known \in learned' PROVE known.pc # "second_maccess"
    <3>1. known \in learned \/ known \in Stored
      BY Learned
    <3>2. CASE known \in learned
      BY <2>1, <3>2 DEF LearnInv, LearnDifferent
    <3>3. CASE known \in Stored /\ test = Different
      BY <2>1, <3>3, DifferentTest
    <3>4. CASE known \in Stored /\ test # Different
      <4>1. test # PcCollision
        BY <2>1, TestNumbers
      <4>2. TrainingPc = "maccess_noinline"
        BY <3>4, <4>1 DEF TrainingPc
      <4>3. QED
        BY <2>1, <3>4, <4>2 DEF Stored
    <3>5. QED
      BY <3>1, <3>2, <3>3, <3>4
  <2>2. QED
    BY <2>1 DEF LearnDifferent, Different
<1>4. LearnPairs'
  <2>1. ASSUME test = PcCollision, Immediate
        PROVE  /\ learned' \subseteq {Pair(b) : b \in MinBits..info}
               /\ hw.forgets => learned' \subseteq {Pair(info)}
               /\ Pair(info) \in learned'
    <3>1. Stored = {Pair(info)}
      BY <2>1, PairTest DEF Immediate
    <3>2. learned' \subseteq learned \union {Pair(info)} /\ Pair(info) \in learned'
      BY <3>1, Learned
    <3>3. info \in MinBits..info
      BY <2>1, CodeAssumption DEF LearnInv, LearnPairs
    <3>4. QED
      BY <2>1, <3>2, <3>3 DEF LearnInv, LearnPairs
  <2>2. \A b : Pair(b)' = Pair(b)
    BY DEF Pair, Seen
  <2>3. QED
    BY <1>1, <2>1, <2>2 DEF LearnInv, LearnPairs, PcCollision
<1>5. LearnEntries'
  <2>1. ASSUME test = TrainingEntries, Immediate PROVE learned' = {Entry}
    <3>1. Stored = {Entry}
      BY <2>1, EntryTest DEF Immediate
    <3>2. \A known \in learned : <<known.pc, known.first>> = <<Entry.pc, Entry.first>>
      BY <2>1 DEF LearnInv, LearnEntries
    <3>3. QED
      BY <3>1, <3>2, Zenon DEF Learn
  <2>2. Entry' = Entry
    BY DEF Entry
  <2>3. QED
    BY <1>1, <2>1, <2>2 DEF LearnInv, LearnEntries, TrainingEntries
<1>6. QED
  BY <1>1, <1>2, <1>3, <1>4, <1>5 DEF LearnInv

\* Steps that leave what is learned alone.
LEMMA LearnSteady ==
  ASSUME LearnInv, UNCHANGED <<hw, test, regions, info, learned>>,
         pc' \in {"regions", "flush"} => SamePc,
         pc' \in {"flush", "trigger"} =>
           pc' = pc \/ (SamePc /\ (Keyed /\ regions => learned = {Known}))
  PROVE  LearnInv'
<1>1. SamePc' = SamePc /\ (Keyed' <=> Keyed) /\ (Immediate' <=> Immediate)
  BY DEF SamePc, Keyed, Immediate
<1>2. LearnSame' /\ LearnDifferent'
  BY <1>1 DEF LearnInv, LearnSame, LearnDifferent, Known, Different
<1>3. SamePc => test # PcCollision /\ test # TrainingEntries
  BY TestNumbers DEF SamePc
<1>4. LearnPairs'
  <2>1. \A b : Pair(b)' = Pair(b)
    BY DEF Pair, Seen
  <2>2. QED
    BY <1>1, <1>3, <2>1 DEF LearnInv, LearnPairs, PcCollision
<1>5. LearnEntries'
  <2>1. Entry' = Entry
    BY DEF Entry
  <2>2. QED
    BY <1>1, <1>3, <2>1 DEF LearnInv, LearnEntries, TrainingEntries
<1>6. QED
  BY <1>1, <1>2, <1>4, <1>5 DEF LearnInv

\* The step between two experiments or tests never adds to what is learned.
LEMMA LearnReport ==
  ASSUME IInv, LearnInv, Report
  PROVE  LearnInv'
<1>1. /\ hw' = hw /\ learned' = Remembered /\ pc' \in {"repeat", "done", "order"}
      /\ test' = IF LastOfTest /\ test <= Different THEN test + 1 ELSE test
      /\ info' = IF SamePc \/ LastOfTest THEN info ELSE info + 1
  BY DEF Report
<1>2. learned' \subseteq learned
  BY <1>1 DEF Remembered
<1>3. test \in Nat /\ test' \in {test, test + 1} /\ (test' = test + 1 => test <= Different)
  BY <1>1, TestNumbers DEF IInv, TestInv
<1>4. /\ SamePc' => SamePc
      /\ (test <= Different)' => test <= Different
      /\ \A t \in {PcCollision, TrainingEntries} : test' = t => test = t
  BY <1>3, TestNumbers DEF SamePc, Different
<1>5. LearnSame' /\ LearnDifferent'
  <2>1. (Keyed' <=> Keyed) /\ (hw.key = "pc")' = (hw.key = "pc") /\ pc' \notin {"flush", "trigger"}
    BY <1>1 DEF Keyed
  <2>2. LearnSame'
    BY <1>2, <1>4, <2>1 DEF LearnInv, LearnSame, Known
  <2>3. LearnDifferent'
    BY <1>2, <1>4, <2>1 DEF LearnInv, LearnDifferent
  <2>4. QED
    BY <2>2, <2>3
<1>6. LearnPairs'
  <2> SUFFICES ASSUME (test = PcCollision)' PROVE LearnPairs'
    BY DEF LearnPairs
  <2>1. test = PcCollision /\ ~SamePc /\ test # TrainingEntries /\ test # Different
    BY <1>4, TestNumbers DEF SamePc, PcCollision
  <2>2. LastOfTest <=> info = MaxBits
    BY <2>1 DEF LastOfTest
  <2>3. MinBits \in Nat /\ MaxBits \in Nat /\ info \in MinBits..MaxBits
    BY <2>1, CodeAssumption DEF LearnInv, LearnPairs
  <2>4. info' \in MinBits..MaxBits /\ info' >= info
    BY <1>1, <2>1, <2>2, <2>3
  <2>5. hw.forgets => learned' = {}
    BY <1>1, <2>1 DEF Remembered
  <2>6. \A b : Pair(b)' = Pair(b)
    BY <1>1 DEF Pair, Seen
  <2>7. MinBits..info \subseteq MinBits..info'
    BY <2>3, <2>4
  <2>8. Immediate' <=> Immediate
    BY <1>1 DEF Immediate
  <2>9. Immediate => learned \subseteq {Pair(b) : b \in MinBits..info'}
    BY <2>1, <2>7 DEF LearnInv, LearnPairs
  <2>10. QED
    BY <1>1, <1>2, <2>4, <2>5, <2>6, <2>8, <2>9 DEF LearnPairs
<1>7. LearnEntries'
  <2> SUFFICES ASSUME (test = TrainingEntries)' PROVE LearnEntries'
    BY DEF LearnEntries
  <2>1. test = TrainingEntries /\ ~SamePc /\ test # PcCollision /\ test # Different
    BY <1>4, TestNumbers DEF SamePc, TrainingEntries
  <2>2. info = MaxEntries => LastOfTest
    BY <2>1 DEF LastOfTest
  <2>3. MaxEntries \in Nat /\ info \in 2..MaxEntries
    BY <2>1, SmsAssumption DEF LearnInv, LearnEntries
  <2>4. info' \in 2..MaxEntries
    BY <1>1, <2>1, <2>2, <2>3
  <2>5. Entry.pc = "maccess_noinline" /\ Entry.first = Head(EntryOffsets)
        /\ Entry'.pc = "maccess_noinline" /\ Entry'.first = Head(EntryOffsets)
    BY DEF Entry
  <2>6. Immediate' <=> Immediate
    BY <1>1 DEF Immediate
  <2>7. Immediate => \A known \in learned' : <<known.pc, known.first>> = <<Entry'.pc, Entry'.first>>
    BY <1>2, <2>1, <2>5 DEF LearnInv, LearnEntries
  <2>8. QED
    BY <1>1, <2>4, <2>6, <2>7 DEF LearnEntries
<1>8. QED
  BY <1>1, <1>5, <1>6, <1>7 DEF LearnInv

LEMMA LearnNext == IInv /\ LearnInv /\ [Next]_vars => LearnInv'
<1> SUFFICES ASSUME IInv, LearnInv, [Next]_vars PROVE LearnInv'
  OBVIOUS
\* Steps between other places than those that LearnInv speaks of.
<1>1. ASSUME UNCHANGED <<hw, test, regions, info, learned>>,
             pc' = pc \/ pc' \notin {"regions", "flush", "trigger"}
      PROVE  LearnInv'
  BY <1>1, LearnSteady DEF LearnInv
<1>2. CASE MakeOrder
  BY <1>1, <1>2 DEF MakeOrder, memory
<1>3. CASE Die
  BY <1>1, <1>3 DEF Die, experiment, memory
<1>4. CASE FlushFirst
  BY <1>1, <1>4 DEF FlushFirst, experiment
<1>5. CASE Train
  <2>1. /\ UNCHANGED <<hw, test, regions, info>>
        /\ pc' = IF SamePc THEN "regions" ELSE "trigger"
        /\ learned' = IF hw.store = "at_once" \/ ~Survives THEN Learn(Stored) ELSE learned
    BY <1>5 DEF Train, experiment
  <2>2. CASE learned' = Learn(Stored)
    BY <2>1, <2>2, LearnStored
  <2>3. CASE learned' # Learn(Stored)
    <3>1. ~Immediate /\ learned' = learned
      BY <2>1, <2>3 DEF Immediate
    <3>2. CASE SamePc
      BY <2>1, <3>1, <3>2, LearnSteady
    <3>3. CASE ~SamePc
      <4>1. pc' = "trigger" /\ ~SamePc' /\ ~Immediate' /\ LearnDifferent'
        BY <2>1, <3>1, <3>3 DEF SamePc, Immediate, LearnInv, LearnDifferent, Different
      <4>2. QED
        BY <2>1, <4>1 DEF LearnInv, LearnSame, LearnPairs, LearnEntries, PcCollision, TrainingEntries
    <3>4. QED
      BY <3>2, <3>3
  <2>4. QED
    BY <2>2, <2>3
<1>6. CASE AccessRegions
  <2>1. /\ UNCHANGED <<hw, test, regions, info>>
        /\ pc = "regions" /\ pc' = "flush" /\ SamePc
        /\ learned' = IF regions THEN Learn(Stored) ELSE learned
    BY <1>6 DEF AccessRegions, experiment, LearnInv
  <2>2. CASE regions
    BY <2>1, <2>2, LearnStored
  <2>3. CASE ~regions
    BY <2>1, <2>3, LearnSteady
  <2>4. QED
    BY <2>2, <2>3
<1>7. CASE FlushTraining
  <2>1. /\ UNCHANGED <<hw, test, regions, info, learned>>
        /\ pc = "flush" /\ pc' \in {"trigger", "train"} /\ SamePc
    BY <1>7 DEF FlushTraining, experiment, LearnInv
  <2>2. QED
    BY <2>1, LearnSteady DEF LearnInv, LearnSame
<1>8. CASE Trigger
  BY <1>1, <1>8 DEF Trigger, experiment
<1>9. CASE Probe
  BY <1>1, <1>9 DEF Probe, experiment
<1>10. CASE Normalize
  BY <1>1, <1>10 DEF Normalize, experiment, memory
<1>11. CASE Evaluate
  BY <1>1, <1>11 DEF Evaluate, experiment, memory
<1>12. CASE Report
  BY <1>12, LearnReport
<1>13. CASE UNCHANGED vars
  BY <1>1, <1>13 DEF vars, experiment, memory
<1>14. QED
  BY <1>2, <1>3, <1>4, <1>5, <1>6, <1>7, <1>8, <1>9, <1>10, <1>11, <1>12, <1>13 DEF Next, Ended

------------------------------------------------------------------------------
\* A prefetcher that knows all the trained lines is found at all of them

\* The experiments in which it does: those with region accesses, those with
\* instructions that it cannot tell apart, and those with as many regions as it
\* can hold.
Whole ==
  \/ SamePc /\ Keyed /\ regions
  \/ test = PcCollision /\ Immediate /\ hw.bits <= info
  \/ test = TrainingEntries /\ Immediate /\ info <= hw.entries

\* In how many of the first n repetitions line l was probed, if it was trained.
Probes(l, n) == IF l \in Trained THEN Turns(l, n, Lines) ELSE 0

\* Every probe of a trained line hits and no other one does.
FoundInv ==
  Whole =>
    /\ pc = "probe" => cache = Trained
    /\ pc \notin {"evaluate", "report"} => \A l \in AllLines : hist[l] = Probes(l, rep)
    /\ pc = "normalize" => rep = Reps
    /\ pc \in {"evaluate", "report"} =>
         \A l \in AllLines : hist[l] \in IF l \in Trained THEN 1000..2000 ELSE {0}
    /\ pc = "report" => vector = Trained \ {trigger}

\* These experiments pass no null pointer.
LEMMA WholeTest == Whole => ~NullPassed
BY TestNumbers DEF Whole, NullPassed, SamePc

\* The lines of the patterns that a trigger access recalls.
Recalled == UNION {known.lines : known \in Recognized}

LEMMA KnowsAll ==
  ASSUME LearnInv, Whole, pc = "trigger"
  PROVE  Recalled = Trained
<1>1. CASE SamePc /\ Keyed /\ regions
  <2>1. learned = {Known}
    BY <1>1 DEF LearnInv, LearnSame
  <2>2. Recognized = {Known}
    BY <1>1, <2>1, SameTest DEF Recognized, Known
  <2>3. QED
    BY <1>1, <2>2, SameTest DEF Recalled, Known
<1>2. CASE test = PcCollision /\ Immediate /\ hw.bits <= info
  <2>1. /\ info \in MinBits..MaxBits /\ learned \subseteq {Pair(b) : b \in MinBits..info}
        /\ Pair(info) \in learned
    BY <1>2 DEF LearnInv, LearnPairs
  <2>2. hw.bits \in Nat
    BY SmsAssumption DEF LearnInv
  <2>3. Seen(get_maccess_functions(info).first) = Seen(get_maccess_functions(info).second)
    BY <1>2, <2>1, <2>2, SeenPairs
  <2>4. Pair(info) \in Recognized
    BY <1>2, <2>1, <2>3, PairTest DEF Recognized, Pair
  <2>5. \A known \in Recognized : known.lines = Trained
    BY <1>2, <2>1, PairTest DEF Recognized, Pair
  <2>6. QED
    BY <2>4, <2>5 DEF Recalled
<1>3. CASE test = TrainingEntries /\ Immediate /\ info <= hw.entries
  <2>1. learned = {Entry} /\ Entry.lines = Trained
    BY <1>3, EntryTest DEF LearnInv, LearnEntries, Entry
  <2>2. Recognized = {Entry}
    BY <1>3, <2>1, EntryTest DEF Recognized, Entry
  <2>3. QED
    BY <2>1, <2>2 DEF Recalled
<1>4. QED
  BY <1>1, <1>2, <1>3 DEF Whole

LEMMA TrainedLines ==
  ASSUME TestInv, ~NullPassed
  PROVE  /\ trigger = Head(training_offsets) /\ trigger \in Trained /\ Trained \subseteq AllLines
         /\ Trained \ {trigger} = ToSet(Tail(training_offsets))
<1> DEFINE s == training_offsets
<1>1. s \in Seq(AllLines) /\ Len(s) > 1 /\ IsInjective(s)
  BY TestOffsets
<1>2. trigger = Head(s) /\ Trained = ToSet(s)
  BY DEF trigger, Trained
<1> HIDE DEF s
<1>3. Head(s) = s[1] /\ s[1] \in ToSet(s) /\ ToSet(s) \subseteq AllLines
  BY <1>1 DEF ToSet
<1>4. \A e \in ToSet(Tail(s)) : e # Head(s)
  BY <1>1, HeadOnce
<1>5. ToSet(Tail(s)) \subseteq ToSet(s)
  BY <1>1 DEF ToSet
<1>6. ASSUME NEW e \in ToSet(s) \ {Head(s)} PROVE e \in ToSet(Tail(s))
  <2>1. PICK k \in DOMAIN s : e = s[k]
    BY DEF ToSet
  <2>2. k # 1
    BY <1>3, <2>1
  <2>3. k - 1 \in DOMAIN Tail(s) /\ Tail(s)[k - 1] = s[k]
    BY <1>1, <2>1, <2>2
  <2>4. QED
    BY <2>1, <2>3 DEF ToSet
<1>7. QED
  BY <1>2, <1>3, <1>4, <1>5, <1>6 DEF s

\* One more repetition: the line that was probed has one probe more.
LEMMA OneProbeMore ==
  ASSUME NEW n \in Nat, NEW l \in AllLines
  PROVE  Probes(l, n + 1) =
           Probes(l, n) + IF l = n % Lines /\ l \in Trained THEN 1 ELSE 0
<1>1. Lines \in Nat \ {0} /\ l \in 0..(Lines - 1)
  BY SmsAssumption DEF AllLines
<1>2. Turns(l, n + 1, Lines) = Turns(l, n, Lines) + IF l = n % Lines THEN 1 ELSE 0
  BY <1>1, NextTurn, Zenon
<1>3. QED
  <2>1. CASE l \in Trained
    BY <1>2, <2>1, Zenon DEF Probes
  <2>2. CASE l \notin Trained
    BY <2>2 DEF Probes
  <2>3. QED
    BY <2>1, <2>2

\* A trained line has been probed once or twice as often as there are rounds.
LEMMA Normalized ==
  ASSUME NEW l \in AllLines
  PROVE  (Probes(l, Reps) * 1000) \div (Reps \div Lines)
           \in IF l \in Trained THEN 1000..2000 ELSE {0}
<1>1. Lines \in Nat \ {0} /\ Reps \in Nat /\ l \in 0..(Lines - 1)
  BY SmsAssumption DEF AllLines
<1>2. CASE l \in Trained
  <2> DEFINE parts == PerThousand(Turns(l, Reps, Lines), Rounds(Reps, Lines))
  <2>1. Rounds(Reps, Lines) # 0
    BY SomeRounds DEF Rounds
  <2>2. parts \in Nat /\ 1000 <= parts /\ parts <= 2000
    BY <1>1, <2>1, TurnsScaled
  <2>3. parts = (Probes(l, Reps) * 1000) \div (Reps \div Lines)
    BY <1>2 DEF Probes, PerThousand, Rounds
  <2> HIDE DEF parts
  <2>4. QED
    BY <1>2, <2>2, <2>3
<1>3. CASE l \notin Trained
  <2> DEFINE q == Reps \div Lines
  <2> HIDE DEF q
  <2>1. (0 * 1000) \div q = 0
    BY SomeRounds, QuotientType DEF q
  <2>2. QED
    BY <1>3, <2>1 DEF Probes, q
<1>4. QED
  BY <1>2, <1>3

\* Average() is a quotient of the sum that Arithmetic speaks of.
LEMMA AverageSum ==
  ASSUME NEW lines
  PROVE  Average(lines) = IF lines = {} THEN 0 ELSE SumOver(hist, lines) \div Cardinality(lines)
BY Zenon DEF Average, MapThenSumSet, MapThenFoldSet, SumOver, IsSum, Picked

\* The threshold is below the count of every line that was trained, and the
\* candidates are the trained lines but the trigger.
LEMMA AllFound ==
  ASSUME Noise < 1000, Divisor >= 2, TestInv, ~NullPassed, Evaluate,
         \A l \in AllLines : hist[l] \in IF l \in Trained THEN 1000..2000 ELSE {0}
  PROVE  vector' = Trained \ {trigger}
<1> DEFINE hit == Average({l \in AllLines : cl_accessed(l)})
           miss == Average(MissLines)
           own == Trained \ {trigger}
<1>1. /\ Noise \in Nat /\ Divisor \in Nat \ {0}
  BY SmsAssumption
<1>2. CandidateLines = own
  <2> DEFINE h == Head(training_offsets)
             tail == ToSet(Tail(training_offsets))
  <2>0. h = trigger /\ h \in Nat /\ own = tail /\ \A e \in tail : e \in Nat
    BY TrainedLines, SmsAssumption DEF AllLines
  <2> HIDE DEF h, tail
  <2>1. ASSUME NEW l \in AllLines PROVE cl_potential_prefetch(l) <=> l \in own
    <3>0. l \in Int
      BY SmsAssumption DEF AllLines
    <3>1. ASSUME NEW e \in tail PROVE l + h = e + h <=> l = e
      BY <2>0, <3>0
    <3>2. cl_potential_prefetch(l) <=> l \in own \/ \E e \in tail : l + h = e + h
      BY <2>0 DEF cl_potential_prefetch, h, tail
    <3>3. QED
      BY <2>0, <3>1, <3>2
  <2>2. own \subseteq AllLines
    BY TrainedLines
  <2>3. QED
    BY <2>1, <2>2 DEF CandidateLines
<1>3. hit \in 1000..2000
  <2> DEFINE S == {l \in AllLines : cl_accessed(l)}
             head == trigger
             lo == 1000
             hi == 2000
  <2>1. S = {head} /\ head \in AllLines /\ hist[head] \in lo..hi
    BY TrainedLines DEF cl_accessed
  <2>2. lo \in Nat /\ hi \in Nat
    OBVIOUS
  <2> HIDE DEF S, head, lo, hi
  <2>3. IsFiniteSet(S) /\ S # {}
    BY <2>1, FS_Singleton
  <2>4. \A l \in S : hist[l] \in lo..hi
    BY <2>1
  <2>5. SumOver(hist, S) \div Cardinality(S) \in lo..hi
    BY <2>2, <2>3, <2>4, AverageBetween
  <2>6. Average(S) \in lo..hi
    BY <2>3, <2>5, AverageSum
  <2>7. QED
    BY <2>6 DEF S, lo, hi
<1>4. miss = 0
  <2>1. \A l \in MissLines : l \in AllLines /\ l \notin Trained
    BY TrainedLines DEF MissLines, cl_accessed, cl_potential_prefetch
  <2>2. \A l \in MissLines : hist[l] \in 0..0
    BY <2>1
  <2>3. IsFiniteSet(MissLines)
    <3>1. IsFiniteSet(AllLines)
      BY FS_Interval, SmsAssumption DEF AllLines
    <3>2. QED
      BY <3>1, FS_Subset DEF MissLines
  <2>4. MissLines # {} => SumOver(hist, MissLines) \div Cardinality(MissLines) \in 0..0
    BY <2>2, <2>3, AverageBetween
  <2>5. QED
    BY <2>4, AverageSum
<1> DEFINE part == hit \div Divisor
<1>5. part \in 0..1000
  <2> HIDE DEF hit
  <2>1. hit \in Nat /\ Divisor * 0 <= hit /\ hit <= Divisor * 1000
    BY <1>1, <1>3
  <2>2. QED
    BY <1>1, <2>1, DivBetween
<1>6. prefetch_thresh \in 1..1000
  <2>1. prefetch_thresh = LET thresh == IF hit >= miss THEN miss + ((hit - miss) \div Divisor) ELSE Huge
                          IN  IF thresh = 0 THEN 1 ELSE thresh
    BY DEF prefetch_thresh
  <2> HIDE DEF hit, miss
  <2>2. hit >= miss /\ hit - miss = hit
    BY <1>3, <1>4
  <2>3. miss + ((hit - miss) \div Divisor) = part
    BY <1>4, <1>5, <2>2
  <2>4. prefetch_thresh = IF part = 0 THEN 1 ELSE part
    BY <2>1, <2>2, <2>3
  <2>5. QED
    BY <1>5, <2>4
<1>7. \A l \in own : hist[l] > Noise /\ hist[l] >= prefetch_thresh
  <2>1. \A l \in own : hist[l] \in 1000..2000
    BY TrainedLines
  <2> DEFINE thresh == prefetch_thresh
  <2>2. thresh \in 1..1000
    BY <1>6
  <2> HIDE DEF own, thresh
  <2>3. ASSUME NEW l \in own PROVE hist[l] > Noise /\ hist[l] >= thresh
    <3> DEFINE count == hist[l]
    <3>1. count \in 1000..2000
      BY <2>1
    <3> HIDE DEF count
    <3>2. count > Noise /\ count >= thresh
      BY <1>1, <2>2, <3>1
    <3>3. QED
      BY <3>2 DEF count
  <2>4. QED
    BY <2>3 DEF thresh
<1>8. QED
  BY <1>2, <1>7 DEF Evaluate

\* The experiment begins with empty counters.
LEMMA FoundFresh ==
  ASSUME pc \in {"order", "repeat", "done"}, rep = 0, hist = [l \in AllLines |-> 0]
  PROVE  FoundInv
<1>1. \A l \in AllLines : Probes(l, 0) = 0
  BY SmsAssumption, NextTurn DEF Probes, AllLines
<1>2. QED
  BY <1>1 DEF FoundInv

LEMMA FoundInit == Init => FoundInv
BY FoundFresh DEF Init

\* A fresh experiment stays one under a prime.
LEMMA FreshNext ==
  (pc \in {"order", "repeat", "done"} /\ rep = 0 /\ hist = [l \in AllLines |-> 0])' => FoundInv'
<1>1. (pc \in {"order", "repeat", "done"} /\ rep = 0 /\ hist = [l \in AllLines |-> 0]) => FoundInv
  BY FoundFresh
<1>2. QED
  BY <1>1, PTL

\* The trigger access recalls the pattern, and nothing else was in the cache.
LEMMA FoundTrigger ==
  ASSUME IInv, LearnInv, Trigger, Whole
  PROVE  cache' = Trained
<1>1. pc = "trigger" /\ cache = {}
  BY DEF Trigger, IInv, CacheInv
<1>2. Recalled = Trained
  BY <1>1, KnowsAll
<1>3. hw.key # "any"
  BY DEF Whole, Keyed, Immediate
<1>4. PICK lines \in SUBSET (Trained \ {trigger}) :
        /\ hw.key # "any" => lines = Recalled \ {trigger}
        /\ cache' = cache \union {trigger} \union lines
  BY DEF Trigger, Recalled
<1>5. trigger \in Trained
  BY WholeTest, TrainedLines DEF IInv
<1>6. cache' = {} \union {trigger} \union (Trained \ {trigger})
  BY <1>1, <1>2, <1>3, <1>4
<1>7. QED
  BY <1>5, <1>6

LEMMA FoundProbe ==
  ASSUME IInv, FoundInv, Probe, Whole
  PROVE  \A l \in AllLines : hist'[l] = Probes(l, rep + 1)
<1>1. pc = "probe" /\ cache = Trained /\ \A l \in AllLines : hist[l] = Probes(l, rep)
  BY DEF Probe, FoundInv
<1>2. /\ rep \in Nat /\ hist \in [AllLines -> Nat]
      /\ hist' = [hist EXCEPT ![probe_idx] = hist[probe_idx] + IF probe_idx \in cache THEN 1 ELSE 0]
  BY DEF Probe, IInv, TestInv, HistInv
<1> SUFFICES ASSUME NEW l \in AllLines PROVE hist'[l] = Probes(l, rep + 1)
  OBVIOUS
<1>3. Probes(l, rep + 1) = Probes(l, rep) + IF l = rep % Lines /\ l \in Trained THEN 1 ELSE 0
  BY <1>2, OneProbeMore
<1>4. hist[l] = Probes(l, rep) /\ hist[l] \in Nat
  BY <1>1, <1>2
<1>5. hist'[l] = hist[l] + IF l = rep % Lines /\ l \in Trained THEN 1 ELSE 0
  <2> DEFINE idx == probe_idx
             hit == IF idx \in cache THEN 1 ELSE 0
  <2>1. idx = rep % Lines
    BY DEF probe_idx
  <2>2. hist' = [hist EXCEPT ![idx] = hist[idx] + hit]
    BY <1>2
  <2> HIDE DEF idx
  <2>3. hist'[l] = IF l = idx THEN hist[l] + hit ELSE hist[l]
    BY <1>2, <2>2
  <2>4. QED
    BY <1>1, <1>4, <2>1, <2>3
<1>6. QED
  BY <1>3, <1>4, <1>5

LEMMA FoundNormalize ==
  ASSUME FoundInv, Normalize, Whole
  PROVE  \A l \in AllLines : hist'[l] \in IF l \in Trained THEN 1000..2000 ELSE {0}
<1>1. pc = "normalize" /\ hist' = [l \in AllLines |-> (hist[l] * 1000) \div (Reps \div Lines)]
  BY DEF Normalize
<1>2. rep = Reps /\ \A l \in AllLines : hist[l] = Probes(l, rep)
  BY <1>1 DEF FoundInv
<1> SUFFICES ASSUME NEW l \in AllLines
             PROVE  hist'[l] \in IF l \in Trained THEN 1000..2000 ELSE {0}
  OBVIOUS
<1>3. hist'[l] = (Probes(l, Reps) * 1000) \div (Reps \div Lines)
  BY <1>1, <1>2
<1>4. QED
  BY <1>3, Normalized

LEMMA FoundNext ==
  ASSUME Noise < 1000, Divisor >= 2
  PROVE  IInv /\ LearnInv /\ FoundInv /\ [Next]_vars => FoundInv'
<1> SUFFICES ASSUME IInv, LearnInv, FoundInv, [Next]_vars PROVE FoundInv'
  OBVIOUS
\* Where the experiment stays, what is left to show speaks of the same lines.
<1> DEFINE Same == test' = test /\ hw' = hw /\ regions' = regions /\ info' = info
<1>1. ASSUME Same,
             Whole =>
               /\ pc' = "probe" => cache' = Trained
               /\ pc' \notin {"evaluate", "report"} => \A l \in AllLines : hist'[l] = Probes(l, rep')
               /\ pc' = "normalize" => rep' = Reps
               /\ pc' \in {"evaluate", "report"} =>
                    \A l \in AllLines : hist'[l] \in IF l \in Trained THEN 1000..2000 ELSE {0}
               /\ pc' = "report" => vector' = Trained \ {trigger}
      PROVE  FoundInv'
  <2>1. SUFFICES ASSUME Whole' PROVE FoundInv'
    BY DEF FoundInv
  <2>2. Whole
    BY <1>1, <2>1 DEF Whole, SamePc, Keyed, Immediate, PcCollision, TrainingEntries
  <2>3. trigger' = trigger /\ Trained' = Trained
    BY <1>1, <2>2, WholeTest, TriggerStays DEF IInv
  <2>4. QED
    BY <1>1, <2>2, <2>3 DEF FoundInv, AllLines, Probes
<1>2. CASE MakeOrder
  <2>1. /\ Same /\ hist' = hist /\ rep' = rep
        /\ pc = "order" /\ pc' \in {"order", "repeat"}
    BY <1>2 DEF MakeOrder, outcome
  <2>2. QED
    BY <1>1, <2>1 DEF FoundInv
<1>3. CASE Die
  <2>1. Same /\ NullPassed
    BY <1>3 DEF Die, experiment
  <2>2. QED
    BY <1>1, <2>1, WholeTest
<1>4. CASE FlushFirst
  <2>1. /\ Same /\ hist' = hist /\ rep' = rep /\ pc = "repeat" /\ pc' = "train"
    BY <1>4 DEF FlushFirst, experiment, outcome
  <2>2. QED
    BY <1>1, <2>1 DEF FoundInv
<1>5. CASE Train
  <2>1. /\ Same /\ hist' = hist /\ rep' = rep /\ pc = "train" /\ pc' \in {"regions", "trigger"}
    BY <1>5 DEF Train, experiment, outcome
  <2>2. QED
    BY <1>1, <2>1 DEF FoundInv
<1>6. CASE AccessRegions
  <2>1. /\ Same /\ hist' = hist /\ rep' = rep /\ pc = "regions" /\ pc' = "flush"
    BY <1>6 DEF AccessRegions, experiment, outcome
  <2>2. QED
    BY <1>1, <2>1 DEF FoundInv
<1>7. CASE FlushTraining
  <2>1. /\ Same /\ hist' = hist /\ rep' = rep /\ pc = "flush" /\ pc' \in {"trigger", "train"}
    BY <1>7 DEF FlushTraining, experiment, outcome
  <2>2. QED
    BY <1>1, <2>1 DEF FoundInv
<1>8. CASE Trigger
  <2>1. /\ Same /\ hist' = hist /\ rep' = rep /\ pc = "trigger" /\ pc' = "probe"
    BY <1>8 DEF Trigger, experiment, outcome
  <2>2. QED
    BY <1>1, <1>8, <2>1, FoundTrigger DEF FoundInv
<1>9. CASE Probe
  <2>1. /\ Same /\ rep' = rep + 1 /\ pc = "probe"
        /\ pc' = IF rep + 1 = Reps THEN "normalize" ELSE "repeat"
    BY <1>9 DEF Probe, experiment
  <2>2. QED
    BY <1>1, <1>9, <2>1, FoundProbe DEF FoundInv
<1>10. CASE Normalize
  <2>1. Same /\ pc = "normalize" /\ pc' = "evaluate"
    BY <1>10 DEF Normalize, experiment
  <2>2. QED
    BY <1>1, <1>10, <2>1, FoundNormalize DEF FoundInv
<1>11. CASE Evaluate
  <2>1. Same /\ hist' = hist /\ pc = "evaluate" /\ pc' = "report"
    BY <1>11 DEF Evaluate, experiment
  <2>2. Whole => vector' = Trained \ {trigger}
    BY <1>11, <2>1, WholeTest, AllFound DEF FoundInv, IInv
  <2>3. QED
    BY <1>1, <2>1, <2>2 DEF FoundInv
<1>12. CASE Report
  <2>1. /\ pc' \in {"order", "repeat", "done"} /\ rep' = 0
        /\ hist' = [l \in AllLines |-> 0] /\ AllLines' = AllLines
    BY <1>12 DEF Report, AllLines
  <2>2. QED
    BY <2>1, FreshNext
<1>13. CASE UNCHANGED vars
  <2>1. /\ Same /\ hist' = hist /\ rep' = rep /\ pc' = pc /\ cache' = cache /\ vector' = vector
    BY <1>13 DEF vars, experiment, memory, outcome
  <2>2. QED
    BY <1>1, <2>1 DEF FoundInv
<1>14. QED
  BY <1>2, <1>3, <1>4, <1>5, <1>6, <1>7, <1>8, <1>9, <1>10, <1>11, <1>12, <1>13 DEF Next, Ended

\* After accesses to the regions the tests with the same instruction report all
\* the trained lines but the trigger for every region prefetcher, if the noise
\* is below one hit per round and the threshold at most half of the difference
\* between hits and misses (the source has 1/64, testcase_sms_smsexperiment.cc:291).
THEOREM SmsPrefetcherFound ==
  ASSUME Noise < 1000, Divisor >= 2
  PROVE  Spec => []PrefetcherFound
<1>1. FoundInv => PrefetcherFound
  BY DEF FoundInv, Whole, Keyed, PrefetcherFound
<1>2. IInv /\ LearnInv /\ FoundInv /\ [Next]_vars => IInv' /\ LearnInv' /\ FoundInv'
  BY NextInv, LearnNext, FoundNext
<1>3. QED
  BY <1>1, <1>2, InitInv, LearnInit, FoundInit, PTL DEF Spec

------------------------------------------------------------------------------
\* What characterize() concludes

\* What a trigger access in the other experiments can make the prefetcher fetch.
FetchDifferent == hw.key = "pc" /\ test = Different => fetched = {}

FetchPairs ==
  test = PcCollision /\ Immediate /\ hw.forgets /\ fetched # {} => hw.bits <= info

FetchEntries ==
  test = TrainingEntries /\ Immediate /\ hw.entries < info =>
    fetched \subseteq ToSet(EntryOffsets) \ {Head(EntryOffsets), Last(EntryOffsets)}

FetchInv == FetchDifferent /\ FetchPairs /\ FetchEntries

\* What the results so far say of the prefetcher.
ResultDifferent == test = RegionBoundary /\ hw.key = "pc" => ~BoolValue(result, "triggers_prefetch")

\* The first pair of functions that collided did so for good reason, and the
\* ones that did not collide had too few bits in common.
ResultPairs ==
  test = PcCollision /\ Immediate /\ hw.forgets =>
    IF "min_colliding_bits" \in DOMAIN result
    THEN LET bits == result.min_colliding_bits
         IN  /\ bits \in MinBits..MaxBits
             /\ bits = MinBits \/ bits <= hw.bits
             /\ hw.bits <= bits
    ELSE IF pc = "done" THEN MaxBits < hw.bits ELSE info = MinBits \/ info <= hw.bits

ResultInv == ResultDifferent /\ ResultPairs

LEMMA CharacterInit == Init => FetchInv /\ ResultInv
<1> SUFFICES ASSUME Init PROVE FetchInv /\ ResultInv
  OBVIOUS
<1>1. fetched = {} /\ pc # "done" /\ result = [status |-> TRUE]
  BY DEF Init
<1>2. FetchInv
  BY <1>1 DEF FetchInv, FetchDifferent, FetchPairs, FetchEntries
<1>3. test # RegionBoundary /\ (test = PcCollision => info = MinBits)
  BY TestNumbers DEF Init
<1>4. "min_colliding_bits" \notin DOMAIN result
  BY <1>1
<1>5. QED
  BY <1>1, <1>2, <1>3, <1>4 DEF ResultInv, ResultDifferent, ResultPairs

LEMMA FetchTrigger ==
  ASSUME IInv, LearnInv, FetchInv, Trigger
  PROVE  FetchInv'
<1>1. PICK lines \in SUBSET (Trained \ {trigger}) :
        /\ hw.key # "any" => lines = Recalled \ {trigger}
        /\ fetched' = fetched \union lines
  BY DEF Trigger, Recalled
<1>2. hw' = hw /\ test' = test /\ info' = info /\ pc = "trigger" /\ (Immediate' <=> Immediate)
  BY DEF Trigger, experiment, Immediate
<1>3. FetchDifferent'
  <2>1. ASSUME hw.key = "pc", test = Different PROVE fetched' = {}
    <3>1. \A known \in learned : known.pc # "second_maccess"
      BY <2>1, TestNumbers DEF LearnInv, LearnDifferent
    <3>2. Recognized = {}
      BY <2>1, <3>1, DifferentTest DEF Recognized
    <3>3. lines = {} /\ fetched = {}
      BY <1>1, <2>1, <3>2 DEF Recalled, FetchInv, FetchDifferent
    <3>4. QED
      BY <1>1, <3>3
  <2>2. QED
    BY <1>2, <2>1 DEF FetchDifferent, Different
<1>4. FetchPairs'
  <2>1. ASSUME test = PcCollision, Immediate, hw.forgets, fetched' # {} PROVE hw.bits <= info
    <3>1. CASE fetched # {}
      BY <2>1, <3>1 DEF FetchInv, FetchPairs
    <3>2. CASE fetched = {}
      <4>1. PICK known \in Recognized : TRUE
        BY <1>1, <2>1, <3>2 DEF Recalled, Immediate
      <4>2. info \in MinBits..MaxBits /\ known = Pair(info)
        BY <2>1 DEF LearnInv, LearnPairs, Recognized
      <4>3. known.pc = Seen(get_maccess_functions(info).second)
        BY <2>1, PairTest DEF Recognized, Immediate
      <4>4. Seen(get_maccess_functions(info).first) = Seen(get_maccess_functions(info).second)
        BY <4>2, <4>3 DEF Pair
      <4>5. hw.bits \in Nat /\ info \in Int
        BY <4>2, SmsAssumption DEF LearnInv
      <4>6. ~(hw.bits > info)
        BY <4>2, <4>4, <4>5, SeenPairs
      <4>7. QED
        BY <4>5, <4>6
    <3>3. QED
      BY <3>1, <3>2
  <2>2. QED
    BY <1>2, <2>1 DEF FetchPairs, PcCollision
<1>5. FetchEntries'
  <2>1. ASSUME test = TrainingEntries, Immediate, hw.entries < info
        PROVE  fetched' \subseteq ToSet(EntryOffsets) \ {Head(EntryOffsets), Last(EntryOffsets)}
    <3>1. learned = {Entry}
      BY <1>2, <2>1 DEF LearnInv, LearnEntries
    <3>2. hw.entries \in Nat /\ info \in Int
      BY <2>1, SmsAssumption DEF LearnInv, LearnEntries
    <3>3. Entry.lines = ToSet(EntryOffsets) \ {Last(EntryOffsets)}
      BY <2>1, <3>2 DEF Entry
    <3>4. lines = Recalled \ {Head(EntryOffsets)}
      BY <1>1, <2>1, EntryTest DEF Immediate
    <3>5. Recalled \subseteq Entry.lines
      BY <3>1 DEF Recalled, Recognized
    <3>6. fetched \subseteq ToSet(EntryOffsets) \ {Head(EntryOffsets), Last(EntryOffsets)}
      BY <2>1 DEF FetchInv, FetchEntries
    <3>7. QED
      BY <1>1, <3>3, <3>4, <3>5, <3>6
  <2>2. QED
    BY <1>2, <2>1 DEF FetchEntries, TrainingEntries
<1>6. QED
  BY <1>3, <1>4, <1>5 DEF FetchInv

\* As many lines are reported of a pattern that is known as the offsets without
\* the trigger; there are less of one that lacks the last line.
LEMMA PatternSizes ==
  ASSUME NEW S, NEW s \in Seq(S), Len(s) > 1, IsInjective(s)
  PROVE  /\ Cardinality(ToSet(s) \ {Head(s)}) = Len(s) - 1
         /\ \A lines \in SUBSET (ToSet(s) \ {Head(s), Last(s)}) : Cardinality(lines) < Len(s) - 1
         /\ ToSet(s) \ {Head(s)} # {}
<1> DEFINE n == Len(s)
           A == ToSet(s)
           B == A \ {Head(s)}
           C == B \ {Last(s)}
<1>1. n \in Nat /\ n > 1 /\ DOMAIN s = 1..n /\ Head(s) = s[1] /\ Last(s) = s[n]
  BY DEF Last
<1>2. s \in Bijection(1..n, A)
  <2>1. s \in [1..n -> A]
    BY <1>1 DEF ToSet
  <2>2. \A a, b \in 1..n : s[a] = s[b] => a = b
    BY <1>1 DEF IsInjective
  <2>3. \A e \in A : \E a \in 1..n : s[a] = e
    BY <1>1 DEF ToSet
  <2> HIDE DEF n, A
  <2>4. s \in Injection(1..n, A)
    BY <2>1, <2>2 DEF Injection, IsInjective
  <2>5. s \in Surjection(1..n, A)
    BY <2>1, <2>3 DEF Surjection
  <2>6. QED
    BY <2>4, <2>5 DEF Bijection
<1>3. IsFiniteSet(A) /\ Cardinality(A) = n
  <2>1. IsFiniteSet(1..n) /\ Cardinality(1..n) = n
    BY <1>1, FS_Interval
  <2>2. QED
    BY <1>2, <2>1, FS_Bijection DEF ExistsBijection
<1>4. s[1] \in A /\ s[n] \in A /\ s[1] # s[n]
  BY <1>1 DEF ToSet, IsInjective
<1>5. IsFiniteSet(B) /\ Cardinality(B) = n - 1 /\ Last(s) \in B
  BY <1>1, <1>3, <1>4, FS_RemoveElement
<1>6. IsFiniteSet(C) /\ Cardinality(C) = n - 1 - 1
  BY <1>5, FS_RemoveElement
<1>7. ASSUME NEW lines \in SUBSET C PROVE Cardinality(lines) < n - 1
  <2>1. Cardinality(lines) <= n - 1 - 1 /\ Cardinality(lines) \in Nat
    BY <1>6, FS_Subset, FS_CardinalityType
  <2>2. QED
    BY <1>1, <2>1
<1>8. C = A \ {Head(s), Last(s)}
  OBVIOUS
<1>9. QED
  BY <1>5, <1>7, <1>8

\* test_training_entries goes on exactly as long as the prefetcher holds all the
\* regions that it trains.
LEMMA MoreEntriesTold ==
  ASSUME IInv, LearnInv, FoundInv, FetchInv, pc = "report", test = TrainingEntries, Immediate
  PROVE  MoreEntries <=> info <= hw.entries
<1> DEFINE s == EntryOffsets
<1>1. s \in Seq(0..(Lines - 1)) /\ Len(s) > 1 /\ IsInjective(s)
  BY SmsAssumption
<1>2. trigger = Head(s) /\ Trained = ToSet(s) /\ training_offsets = s
  BY EntryTest
<1>3. hw.entries \in Nat /\ info \in Int
  BY SmsAssumption DEF LearnInv, LearnEntries
<1>4. CASE info <= hw.entries
  <2>1. vector = ToSet(s) \ {Head(s)}
    BY <1>2, <1>4 DEF FoundInv, Whole
  <2> HIDE DEF s
  <2>2. Cardinality(vector) = Len(s) - 1
    BY <1>1, <2>1, PatternSizes
  <2>3. Len(s) \in Nat
    BY <1>1
  <2>4. Cardinality(vector) >= Len(s) - 1
    BY <2>2, <2>3
  <2>5. QED
    BY <1>2, <1>4, <2>4 DEF MoreEntries
<1>5. CASE ~(info <= hw.entries)
  <2>1. vector \subseteq ToSet(s) \ {Head(s), Last(s)}
    BY <1>3, <1>5 DEF IInv, OnlyPrefetches, FetchInv, FetchEntries
  <2> HIDE DEF s
  <2>2. Cardinality(vector) < Len(s) - 1
    BY <1>1, <2>1, PatternSizes
  <2>3. Len(s) \in Nat /\ Cardinality(vector) \in Nat
    <3>1. IsFiniteSet(AllLines)
      BY FS_Interval, SmsAssumption DEF AllLines
    <3>2. vector \subseteq AllLines
      <4>1. ~NullPassed
        BY TestNumbers DEF NullPassed
      <4>2. Trained \subseteq AllLines
        BY <4>1, TrainedLines DEF IInv
      <4>3. QED
        BY <1>2, <2>1, <4>2
    <3>3. QED
      BY <1>1, <3>1, <3>2, FS_Subset, FS_CardinalityType
  <2>4. ~(Cardinality(vector) >= Len(s) - 1)
    BY <2>2, <2>3
  <2>5. QED
    BY <1>2, <1>5, <2>4 DEF MoreEntries
<1>6. QED
  BY <1>4, <1>5

\* The report of an experiment of test_pc_collision.
LEMMA PairsReport ==
  ASSUME IInv, LearnInv, FoundInv, FetchInv, ResultPairs, Report, test = PcCollision
  PROVE  ResultPairs'
<1> SUFFICES ASSUME Immediate, hw.forgets PROVE ResultPairs'
  BY DEF ResultPairs, Report, Immediate
<1>1. /\ pc = "report" /\ hw' = hw /\ result' = TestResult /\ ~SamePc
      /\ test # Different /\ test # TrainingEntries
  BY TestNumbers DEF Report, SamePc
<1>2. LastOfTest <=> info = MaxBits
  BY <1>1 DEF LastOfTest
<1>3. /\ info' = IF info = MaxBits THEN info ELSE info + 1
      /\ pc' = IF info = MaxBits THEN "done" ELSE "repeat"
  <2>1. CASE LastOfTest
    BY <1>1, <1>2, <2>1 DEF Report
  <2>2. CASE ~LastOfTest
    BY <1>1, <1>2, <2>2 DEF Report
  <2>3. QED
    BY <2>1, <2>2
<1>4. TestResult = IF "min_colliding_bits" \in DOMAIN result \/ vector = {} THEN result
                   ELSE [min_colliding_bits |-> info]
  BY <1>1 DEF TestResult
<1>5. MinBits \in Nat /\ MaxBits \in Nat /\ hw.bits \in Nat /\ info \in MinBits..MaxBits
  BY CodeAssumption, SmsAssumption DEF LearnInv, LearnPairs
<1>6. hw.bits <= info => vector # {}
  <2>1. SUFFICES ASSUME hw.bits <= info PROVE vector # {}
    OBVIOUS
  <2>2. vector = ToSet(OtherOffsets) \ {Head(OtherOffsets)}
    BY <1>1, <2>1, PairTest DEF FoundInv, Whole
  <2>3. ToSet(OtherOffsets) \ {Head(OtherOffsets)} # {}
    <3> DEFINE s == OtherOffsets
    <3>1. s \in Seq(0..(Lines - 1)) /\ Len(s) > 1 /\ IsInjective(s)
      BY SmsAssumption
    <3> HIDE DEF s
    <3>2. ToSet(s) \ {Head(s)} # {}
      BY <3>1, PatternSizes
    <3>3. QED
      BY <3>2 DEF s
  <2>4. QED
    BY <2>2, <2>3
<1>7. vector # {} => hw.bits <= info
  BY <1>1 DEF IInv, OnlyPrefetches, FetchInv, FetchPairs
<1>8. CASE "min_colliding_bits" \in DOMAIN result
  BY <1>1, <1>4, <1>8 DEF ResultPairs
<1>9. CASE "min_colliding_bits" \notin DOMAIN result /\ vector = {}
  <2>1. result' = result /\ hw.bits > info
    BY <1>1, <1>4, <1>5, <1>6, <1>9
  <2>2. QED
    BY <1>1, <1>3, <1>5, <1>9, <2>1 DEF ResultPairs
<1>10. CASE "min_colliding_bits" \notin DOMAIN result /\ vector # {}
  <2>1. result' = [min_colliding_bits |-> info]
    BY <1>1, <1>4, <1>10
  <2>2. "min_colliding_bits" \in DOMAIN result' /\ result'.min_colliding_bits = info
    BY <2>1
  <2>3. info = MinBits \/ info <= hw.bits
    BY <1>1, <1>10 DEF ResultPairs
  <2>4. QED
    BY <1>1, <1>5, <1>7, <1>10, <2>2, <2>3 DEF ResultPairs
<1>11. QED
  BY <1>8, <1>9, <1>10

\* The report of the test with different instructions.
LEMMA DifferentReport ==
  ASSUME IInv, LearnInv, FetchInv, Report, test = Different, hw.key = "pc"
  PROVE  ~BoolValue(TestResult, "triggers_prefetch")
<1>1. ~SamePc /\ test # PcCollision /\ test # TrainingEntries
  BY TestNumbers DEF SamePc
<1>2. vector = {}
  BY DEF Report, IInv, OnlyPrefetches, FetchInv, FetchDifferent
<1>3. TestResult = [triggers_prefetch |-> FALSE]
  BY <1>1, <1>2 DEF TestResult
<1>4. QED
  BY <1>3 DEF BoolValue

LEMMA CharacterReport ==
  ASSUME IInv, LearnInv, FoundInv, FetchInv, ResultInv, Report
  PROVE  FetchInv' /\ ResultInv'
<1>1. fetched' = {} /\ hw' = hw /\ result' = TestResult /\ pc = "report"
  BY DEF Report
<1>2. FetchInv'
  BY <1>1 DEF FetchInv, FetchDifferent, FetchPairs, FetchEntries
<1>3. test' = IF LastOfTest /\ test <= Different THEN test + 1 ELSE test
  BY DEF Report
<1>4. test # RegionBoundary
  BY <1>1 DEF IInv, NullInv, NullPassed
<1>5. /\ test' = RegionBoundary => test = Different
      /\ test' = PcCollision => test = PcCollision
  BY <1>3, <1>4, TestNumbers DEF IInv, TestInv
<1>6. ResultDifferent'
  BY <1>1, <1>5, DifferentReport DEF ResultDifferent, RegionBoundary, BoolValue
<1>7. ResultPairs'
  BY <1>5, PairsReport DEF ResultInv, ResultPairs, PcCollision
<1>8. QED
  BY <1>2, <1>6, <1>7 DEF ResultInv

LEMMA CharacterNext ==
  IInv /\ LearnInv /\ FoundInv /\ FetchInv /\ ResultInv /\ [Next]_vars => FetchInv' /\ ResultInv'
<1> SUFFICES ASSUME IInv, LearnInv, FoundInv, FetchInv, ResultInv, [Next]_vars
             PROVE  FetchInv' /\ ResultInv'
  OBVIOUS
\* Within an experiment no result is made.
<1>1. ASSUME UNCHANGED <<hw, test, info, result>>, pc' = pc \/ "done" \notin {pc, pc'}
      PROVE  ResultInv'
  BY <1>1 DEF ResultInv, ResultDifferent, ResultPairs, Immediate, BoolValue, RegionBoundary,
     PcCollision
<1>2. ASSUME UNCHANGED <<hw, test, info, fetched>> PROVE FetchInv'
  BY <1>2 DEF FetchInv, FetchDifferent, FetchPairs, FetchEntries, Immediate, Different, PcCollision,
     TrainingEntries
<1>3. CASE MakeOrder
  BY <1>1, <1>2, <1>3 DEF MakeOrder, memory, outcome
<1>4. CASE Die
  BY <1>1, <1>2, <1>4 DEF Die, experiment, memory, outcome
<1>5. CASE FlushFirst
  BY <1>1, <1>2, <1>5 DEF FlushFirst, experiment, outcome
<1>6. CASE Train
  BY <1>1, <1>2, <1>6 DEF Train, experiment, outcome
<1>7. CASE AccessRegions
  BY <1>1, <1>2, <1>7 DEF AccessRegions, experiment, outcome
<1>8. CASE FlushTraining
  BY <1>1, <1>2, <1>8 DEF FlushTraining, experiment, outcome
<1>9. CASE Trigger
  BY <1>1, <1>9, FetchTrigger DEF Trigger, experiment, outcome
<1>10. CASE Probe
  BY <1>1, <1>2, <1>10 DEF Probe, experiment
<1>11. CASE Normalize
  BY <1>1, <1>2, <1>11 DEF Normalize, experiment, memory
<1>12. CASE Evaluate
  BY <1>1, <1>2, <1>12 DEF Evaluate, experiment, memory
<1>13. CASE Report
  BY <1>13, CharacterReport
<1>14. CASE UNCHANGED vars
  <2>1. UNCHANGED <<hw, test, info, result, fetched, pc>>
    BY <1>14 DEF vars, experiment, memory, outcome
  <2>2. QED
    BY <1>1, <1>2, <2>1
<1>15. QED
  BY <1>3, <1>4, <1>5, <1>6, <1>7, <1>8, <1>9, <1>10, <1>11, <1>12, <1>13, <1>14 DEF Next, Ended

\* What the tests of characterize() conclude is the prefetcher's, for all offsets,
\* placements of the functions, numbers of bits and of regions: with different
\* instructions none is reported that keys by instruction, whatever it learned in
\* the tests before; test_pc_collision tells the bits it looks at; and an
\* experiment of test_training_entries tells whether it holds as many regions.
THEOREM SmsCharacterTold ==
  ASSUME Noise < 1000, Divisor >= 2
  PROVE  Spec => []CharacterTold
<1>1. IInv /\ LearnInv /\ FoundInv /\ FetchInv /\ ResultInv => CharacterTold
  <2> SUFFICES ASSUME IInv, LearnInv, FoundInv, FetchInv, ResultInv PROVE CharacterTold
    OBVIOUS
  <2>1. MinBits \in Nat /\ MaxBits \in Nat /\ hw.bits \in Nat /\ MinBits <= MaxBits
    BY CodeAssumption, SmsAssumption DEF LearnInv
  <2> DEFINE bits == IF hw.bits < MinBits THEN MinBits ELSE IF hw.bits > MaxBits THEN MaxBits + 1 ELSE hw.bits
             found == IF "min_colliding_bits" \in DOMAIN result THEN result.min_colliding_bits ELSE MaxBits + 1
  <2>2. ASSUME pc = "done", test = PcCollision, Immediate, hw.forgets
        PROVE  found = bits
    <3>1. CASE "min_colliding_bits" \in DOMAIN result
      <4> DEFINE told == result.min_colliding_bits
      <4>1. /\ told \in MinBits..MaxBits
            /\ told = MinBits \/ told <= hw.bits
            /\ hw.bits <= told
        BY <2>2, <3>1 DEF ResultInv, ResultPairs
      <4>2. found = told
        BY <3>1
      <4> HIDE DEF told, found
      <4>3. QED
        BY <2>1, <4>1, <4>2
    <3>2. CASE "min_colliding_bits" \notin DOMAIN result
      <4>1. MaxBits < hw.bits
        BY <2>2, <3>2 DEF ResultInv, ResultPairs
      <4>2. QED
        BY <2>1, <3>2, <4>1
    <3>3. QED
      BY <3>1, <3>2
  <2>3. ASSUME pc = "report", test = TrainingEntries, Immediate
        PROVE  MoreEntries <=> info <= hw.entries
    BY <2>3, MoreEntriesTold
  <2>4. test = RegionBoundary /\ hw.key = "pc" => ~BoolValue(result, "triggers_prefetch")
    BY DEF ResultInv, ResultDifferent
  <2> HIDE DEF bits, found
  <2>5. QED
    BY <2>2, <2>3, <2>4 DEF CharacterTold, Immediate, bits, found
<1>2. IInv /\ LearnInv /\ FoundInv /\ FetchInv /\ ResultInv /\ [Next]_vars
        => IInv' /\ LearnInv' /\ FoundInv' /\ FetchInv' /\ ResultInv'
  BY NextInv, LearnNext, FoundNext, CharacterNext
<1>3. Init => FetchInv /\ ResultInv
  BY CharacterInit
<1>4. QED
  BY <1>1, <1>2, <1>3, InitInv, LearnInit, FoundInit, PTL DEF Spec

------------------------------------------------------------------------------
\* The order of the accesses to a region

\* While lines are drawn they are distinct; then the list is full, and the scan
\* has seen no stride since it began, at the third access, or began again, at the
\* fourth.
ScanInv ==
  /\ order \in Seq(Distances) /\ Len(order) >= 1
  /\ i = 0 => Len(order) <= RegionSize /\ IsInjective(order)
  /\ i # 0 => /\ Len(order) = RegionSize + 1 /\ ToSet(order) = Distances
              /\ i \in 2..(RegionSize + 1)
              /\ \A k \in (IF repaired THEN 3 ELSE 2)..(i - 1) : ~IsStride(k)
  /\ repaired \in BOOLEAN

\* The tests get their order from it, and test_direction its first access.
OrderInv ==
  /\ ScanInv
  /\ test \in {RegionBoundary, Direction} /\ pc # "order" => OrderDone
  /\ test = Direction => order[1] = 0

LEMMA AppendNew ==
  ASSUME NEW S, NEW s \in Seq(S), IsInjective(s), NEW e \in S \ ToSet(s)
  PROVE  /\ Append(s, e) \in Seq(S) /\ Len(Append(s, e)) = Len(s) + 1
         /\ IsInjective(Append(s, e))
         /\ Len(s) >= 1 => Append(s, e)[1] = s[1]
<1> DEFINE t == Append(s, e)
<1>1. t \in Seq(S) /\ Len(t) = Len(s) + 1 /\ DOMAIN t = 1..(Len(s) + 1)
  OBVIOUS
<1>2. \A k \in 1..Len(s) : t[k] = s[k] /\ t[k] # e
  BY DEF ToSet
<1>3. t[Len(s) + 1] = e
  OBVIOUS
<1> HIDE DEF t
<1>4. ASSUME NEW a \in DOMAIN t, NEW b \in DOMAIN t, t[a] = t[b] PROVE a = b
  <2>1. a \in 1..Len(s) \/ a = Len(s) + 1
    BY <1>1
  <2>2. b \in 1..Len(s) \/ b = Len(s) + 1
    BY <1>1
  <2>3. QED
    BY <1>2, <1>3, <1>4, <2>1, <2>2 DEF IsInjective
<1>5. IsInjective(t)
  BY <1>4 DEF IsInjective
<1>6. QED
  BY <1>1, <1>2, <1>5 DEF t

\* As many distinct elements as a set has are all of its elements.
LEMMA FullList ==
  ASSUME NEW S, IsFiniteSet(S), NEW s \in Seq(S), IsInjective(s), Len(s) = Cardinality(S)
  PROVE  ToSet(s) = S
<1>1. s \in Injection(1..Len(s), S)
  BY DEF IsInjective, Injection
<1>2. Cardinality(1..Len(s)) = Len(s)
  BY FS_Interval
<1>3. s \in Surjection(1..Len(s), S)
  BY <1>1, <1>2, FS_Injection
<1>4. QED
  BY <1>3 DEF Surjection, ToSet

LEMMA DrawInv ==
  ASSUME ScanInv, Draw
  PROVE  ScanInv' /\ order'[1] = order[1]
<1>1. RegionSize \in Nat \ {0, 1}
  BY RegionAssumption
<1>2. /\ i = 0 /\ Len(order) <= RegionSize /\ Len(order) >= 1
      /\ repaired' \in BOOLEAN
  BY <1>1 DEF ScanInv, Draw
<1>3. PICK distance \in Distances \ ToSet(order) : order' = Append(order, distance)
  BY DEF Draw
<1>4. /\ order' \in Seq(Distances) /\ Len(order') = Len(order) + 1
      /\ IsInjective(order') /\ order'[1] = order[1]
  BY <1>2, <1>3, AppendNew DEF ScanInv
<1>5. CASE Len(order) = RegionSize
  <2>1. i' = 2 /\ Len(order') = RegionSize + 1
    BY <1>4, <1>5 DEF Draw
  <2>2. IsFiniteSet(Distances) /\ Cardinality(Distances) = RegionSize + 1
    BY <1>1, FS_Interval DEF Distances
  <2>3. ToSet(order') = Distances
    BY <1>4, <2>1, <2>2, FullList
  <2>4. \A n \in (IF repaired' THEN 3 ELSE 2)..(i' - 1) : ~IsStride(n)'
    BY <2>1
  <2>5. QED
    BY <1>1, <1>2, <1>4, <2>1, <2>3, <2>4 DEF ScanInv, Distances
<1>6. CASE Len(order) < RegionSize
  <2>1. i' = 0 /\ Len(order') <= RegionSize
    BY <1>1, <1>4, <1>6 DEF Draw, ScanInv
  <2>2. QED
    BY <1>2, <1>4, <2>1 DEF ScanInv, Distances
<1>7. QED
  BY <1>1, <1>2, <1>5, <1>6 DEF ScanInv

LEMMA PassInv ==
  ASSUME ScanInv, Pass
  PROVE  ScanInv' /\ order'[1] = order[1]
<1>1. /\ RegionSize \in Nat /\ i >= 2 /\ i < Len(order) /\ i \in Int /\ ~IsStride(i)
      /\ i' = i + 1 /\ order' = order /\ repaired' = repaired
  BY RegionAssumption DEF Pass, Scanning, ScanInv
<1>2. /\ Len(order) = RegionSize + 1 /\ ToSet(order) = Distances
      /\ \A k \in (IF repaired THEN 3 ELSE 2)..(i - 1) : ~IsStride(k)
  BY <1>1 DEF ScanInv
<1>3. \A k \in (IF repaired' THEN 3 ELSE 2)..(i' - 1) : ~IsStride(k)'
  BY <1>1, <1>2 DEF IsStride
<1>4. QED
  BY <1>1, <1>2, <1>3 DEF ScanInv, Distances

LEMMA RepairInv ==
  ASSUME ScanInv, NEW keepFirst \in BOOLEAN, Repair(keepFirst)
  PROVE  ScanInv' /\ (keepFirst => order'[1] = order[1])
<1> DEFINE D == DOMAIN order
<1>1. /\ RegionSize \in Nat /\ Len(order) = RegionSize + 1 /\ ToSet(order) = Distances
      /\ D = 1..Len(order) /\ order \in [D -> Distances] /\ RegionSize >= 2 /\ i' = 3
      /\ repaired' = TRUE
  BY RegionAssumption DEF Repair, Scanning, ScanInv
<1>2. PICK p \in Bijection(D, D) : /\ keepFirst => p[1] = 1
                                   /\ order' = [n \in D |-> order[p[n]]]
  BY DEF Repair, Shuffled
<1>3. p \in [D -> D] /\ \A w \in D : \E v \in D : p[v] = w
  BY DEF Bijection, Injection, Surjection
<1> HIDE DEF D
<1>4. order' \in [D -> Distances] /\ DOMAIN order' = D /\ \A n \in D : order'[n] = order[p[n]]
  BY <1>1, <1>2, <1>3
<1>5. order' \in Seq(Distances) /\ Len(order') = RegionSize + 1
  BY <1>1, <1>4
<1>6. ToSet(order') = Distances
  <2>1. ToSet(order') \subseteq Distances
    BY <1>4 DEF ToSet
  <2>2. ASSUME NEW d \in Distances PROVE d \in ToSet(order')
    <3>1. PICK w \in D : order[w] = d
      BY <1>1 DEF ToSet, D
    <3>2. PICK v \in D : p[v] = w
      BY <1>3
    <3>3. QED
      BY <1>4, <3>1, <3>2 DEF ToSet
  <2>3. QED
    BY <2>1, <2>2
<1>7. keepFirst => order'[1] = order[1]
  BY <1>1, <1>2, <1>4
<1>8. QED
  BY <1>1, <1>5, <1>6, <1>7 DEF ScanInv, Distances

LEMMA OrderInvInit == Init => OrderInv
<1> SUFFICES ASSUME Init PROVE OrderInv
  OBVIOUS
<1>1. order = <<0>> /\ i = 0 /\ repaired = FALSE
  BY DEF Init, OrderInit
<1>2. order \in Seq(Distances) /\ Len(order) = 1 /\ order[1] = 0
  BY <1>1, RegionAssumption DEF Distances
<1>3. IsInjective(order)
  BY <1>1 DEF IsInjective
<1>4. test \in {RegionBoundary, Direction} => pc = "order"
  BY TestNumbers DEF Init
<1>5. ScanInv
  <2>1. i = 0 /\ Len(order) <= RegionSize
    BY <1>1, <1>2, RegionAssumption
  <2>2. repaired \in BOOLEAN
    BY <1>1
  <2>3. QED
    BY <1>2, <1>3, <2>1, <2>2 DEF ScanInv
<1>6. QED
  BY <1>2, <1>4, <1>5 DEF OrderInv

LEMMA OrderInvNext == IInv /\ OrderInv /\ [Next]_vars => OrderInv'
<1> SUFFICES ASSUME IInv, OrderInv, [Next]_vars PROVE OrderInv'
  OBVIOUS
<1>1. CASE MakeOrder
  <2>1. test' = test /\ pc = "order"
    BY <1>1 DEF MakeOrder
  <2>2. CASE OrderDone
    <3>1. order' = order /\ i' = i /\ repaired' = repaired
      BY <1>1, <2>2 DEF MakeOrder, orderVars
    <3>2. QED
      BY <2>1, <2>2, <3>1 DEF OrderInv, ScanInv, OrderDone, IsStride, Distances, RegionBoundary, Direction
  <2>3. CASE ~OrderDone
    <3>1. pc' = "order" /\ (Draw \/ Pass \/ Repair(test = Direction))
      BY <1>1, <2>3 DEF MakeOrder
    <3>2. ScanInv' /\ (test = Direction => order'[1] = order[1])
      BY <3>1, DrawInv, PassInv, RepairInv DEF OrderInv
    <3>3. QED
      BY <2>1, <3>1, <3>2 DEF OrderInv, Direction
  <2>4. QED
    BY <2>2, <2>3
\* The other steps leave the order alone.
<1>2. ASSUME UNCHANGED orderVars, test' = test, pc # "order" \/ pc' = pc PROVE OrderInv'
  BY <1>2 DEF orderVars, OrderInv, ScanInv, OrderDone, IsStride, Distances, RegionBoundary,
     Direction
<1>3. CASE Die \/ FlushFirst \/ Train \/ AccessRegions \/ FlushTraining \/ Trigger \/ Probe
           \/ Normalize \/ Evaluate
  <2>1. UNCHANGED orderVars /\ test' = test
    BY <1>3 DEF Die, FlushFirst, Train, AccessRegions, FlushTraining, Trigger, Probe, Normalize,
       Evaluate, experiment
  <2>2. pc # "order"
    BY <1>3 DEF Die, FlushFirst, Train, AccessRegions, FlushTraining, Trigger, Probe, Normalize,
       Evaluate
  <2>3. QED
    BY <1>2, <2>1, <2>2
<1>4. CASE Report
  <2>1. order' = order /\ i' = i /\ repaired' = repaired /\ pc = "report"
    BY <1>4 DEF Report, orderVars
  <2>2. test \notin {RegionBoundary, Direction}
    BY <2>1 DEF IInv, NullInv, NullPassed
  <2>3. test' \in {RegionBoundary, Direction} => pc' = "order" /\ test' # Direction
    <3>1. test' = IF LastOfTest /\ test <= Different THEN test + 1 ELSE test
      BY <1>4 DEF Report
    <3>2. test' \in {RegionBoundary, Direction} => LastOfTest /\ test = Different /\ test' = RegionBoundary
      BY <2>2, <3>1, TestNumbers DEF IInv, TestInv, RegionBoundary, Direction
    <3>3. QED
      BY <1>4, <3>2, TestNumbers DEF Report, SamePc
  <2>4. QED
    BY <2>1, <2>3 DEF OrderInv, ScanInv, OrderDone, IsStride, Distances
<1>5. CASE UNCHANGED vars
  BY <1>2, <1>5 DEF vars, experiment
<1>6. QED
  BY <1>1, <1>3, <1>4, <1>5 DEF Next, Ended

\* The order in which the region tests access a region is one of all its lines,
\* without a stride if it needed no repair and without one behind its second access
\* otherwise, for every size of the region and whatever the generator draws and the
\* shuffles give.
THEOREM AccessOrderChecked == Spec => []OrderChecked
<1>1. OrderInv => OrderChecked
  <2> SUFFICES ASSUME OrderInv, test \in {RegionBoundary, Direction}, pc # "order"
               PROVE  /\ Len(order) = RegionSize + 1 /\ ToSet(order) = Distances
                      /\ \A k \in (IF repaired THEN 3 ELSE 2)..RegionSize : ~IsStride(k)
                      /\ test = Direction => Head(order) = 0
    BY DEF OrderChecked
  <2>1. i >= Len(order) /\ Len(order) > RegionSize
    BY DEF OrderInv, OrderDone
  <2>2. i = RegionSize + 1 /\ Len(order) = RegionSize + 1
    BY <2>1, RegionAssumption DEF OrderInv, ScanInv
  <2>3. QED
    BY <2>2, RegionAssumption DEF OrderInv, ScanInv
<1>2. IInv /\ OrderInv /\ [Next]_vars => IInv' /\ OrderInv'
  BY NextInv, OrderInvNext
<1>3. QED
  BY <1>1, <1>2, InitInv, OrderInvInit, PTL DEF Spec

==============================================================================
