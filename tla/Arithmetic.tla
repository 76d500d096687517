------------------------------ MODULE Arithmetic ------------------------------
(***************************************************************************)
(* What the averages over a cache histogram are, by which its hits are     *)
(* told from its misses (evaluate_cache_histogram() of all experiments):   *)
(* facts about integer quotients and about sums that are folded over a     *)
(* finite set.  A property of all finite sets is proved by taking a        *)
(* smallest subset that would violate it.  And where pairs of functions    *)
(* are that are placed at multiples of growing powers of two               *)
(* (aligned_maccess.cc): facts about powers and remainders.                *)
(***************************************************************************)
EXTENDS Integers, FiniteSetTheorems, WellFoundedInduction, TLAPS

\* Division by n is decided by the multiple of n below.
LEMMA DivUnique ==
  ASSUME NEW n \in Nat \ {0}, NEW q \in Nat, NEW r \in Nat, r < n
  PROVE  (n * q + r) \div n = q /\ (n * q + r) % n = r
<1> DEFINE a == n * q + r
           p == a \div n
           s == a % n
<1>1. a \in Nat /\ p \in Nat /\ s \in Nat /\ a = n * p + s /\ s < n
  OBVIOUS
<1>2. n * (p - q) = r - s
  BY <1>1
<1>3. CASE p - q >= 1
  <2>1. n * (p - q - 1) >= 0
    BY <1>1, <1>3
  <2>2. n * (p - q - 1) = n * (p - q) - n
    BY <1>1
  <2>3. QED
    BY <1>1, <1>2, <2>1, <2>2
<1>4. CASE q - p >= 1
  <2>1. n * (q - p - 1) >= 0
    BY <1>1, <1>4
  <2>2. n * (q - p - 1) = n * (q - p) - n
    BY <1>1
  <2>3. n * (q - p) = s - r
    BY <1>1
  <2>4. QED
    BY <1>1, <2>1, <2>2, <2>3
<1>5. QED
  BY <1>1, <1>2, <1>3, <1>4

\* Division keeps the order.
LEMMA DivBetween ==
  ASSUME NEW n \in Nat \ {0}, NEW a \in Nat, NEW lo \in Nat, NEW hi \in Nat,
         n * lo <= a, a <= n * hi
  PROVE  a \div n \in lo..hi
<1> DEFINE q == a \div n
           r == a % n
<1>1. q \in Nat /\ r \in Nat /\ a = n * q + r /\ r < n
  OBVIOUS
<1>2. CASE q < lo
  <2>1. n * (lo - q - 1) >= 0 /\ n * (lo - q - 1) = n * lo - n * q - n
    BY <1>1, <1>2
  <2>2. QED
    BY <1>1, <2>1
<1>3. CASE q > hi
  <2>1. n * (q - hi - 1) >= 0 /\ n * (q - hi - 1) = n * q - n * hi - n
    BY <1>1, <1>3
  <2>2. QED
    BY <1>1, <2>1
<1>4. QED
  BY <1>1, <1>2, <1>3

------------------------------------------------------------------------------
\* Entries of a histogram that are probed in turn

\* How often number k, counted from 0, of L entries was probed in n repetitions.
Turns(k, n, L) == n \div L + IF k < n % L THEN 1 ELSE 0

\* The entry whose turn it is gets one probe more.
LEMMA NextTurn ==
  ASSUME NEW L \in Nat \ {0}, NEW n \in Nat, NEW k \in 0..(L - 1)
  PROVE  /\ Turns(k, 0, L) = 0 /\ Turns(k, n, L) \in Nat
         /\ Turns(k, n + 1, L) = Turns(k, n, L) + IF k = n % L THEN 1 ELSE 0
<1> DEFINE a == n \div L
           b == n % L
<1>1. a \in Nat /\ b \in Nat /\ b < L /\ n = L * a + b /\ k \in Nat /\ k < L
  OBVIOUS
<1>2. Turns(k, 0, L) = 0
  <2>1. (L * 0 + 0) \div L = 0 /\ (L * 0 + 0) % L = 0
    BY DivUnique
  <2>2. 0 \div L = 0 /\ 0 % L = 0
    BY <2>1
  <2>3. QED
    BY <1>1, <2>2 DEF Turns
<1>3. Turns(k, n, L) \in Nat
  BY <1>1 DEF Turns
<1>4. CASE b + 1 < L
  <2>1. n + 1 = L * a + (b + 1)
    BY <1>1
  <2>2. (n + 1) \div L = a /\ (n + 1) % L = b + 1
    <3> DEFINE r == b + 1
    <3>1. r \in Nat /\ r < L /\ a \in Nat /\ n + 1 = L * a + r
      BY <1>1, <1>4, <2>1
    <3> HIDE DEF a, r
    <3>2. (L * a + r) \div L = a /\ (L * a + r) % L = r
      BY <3>1, DivUnique
    <3>3. QED
      BY <3>1, <3>2 DEF r
  <2>3. QED
    BY <1>1, <1>2, <1>3, <2>2 DEF Turns
<1>5. CASE b + 1 = L
  <2>1. n + 1 = L * (a + 1) + 0
    BY <1>1, <1>5
  <2>2. (n + 1) \div L = a + 1 /\ (n + 1) % L = 0
    <3> HIDE DEF a, b
    <3>1. (L * (a + 1) + 0) \div L = a + 1 /\ (L * (a + 1) + 0) % L = 0
      BY <1>1, DivUnique
    <3>2. QED
      BY <2>1, <3>1
  <2>3. QED
    BY <1>1, <1>2, <1>3, <1>5, <2>2 DEF Turns
<1>6. QED
  BY <1>1, <1>4, <1>5

\* How often every one of them was probed, and a counter in parts per thousand
\* of that.
Rounds(n, L) == n \div L
PerThousand(count, rounds) == (count * 1000) \div rounds

\* Probes that all hit are 1000 to 2000 parts per thousand of the full rounds.
LEMMA TurnsScaled ==
  ASSUME NEW L \in Nat \ {0}, NEW n \in Nat, Rounds(n, L) # 0, NEW k \in 0..(L - 1)
  PROVE  /\ PerThousand(Turns(k, n, L), Rounds(n, L)) \in Nat
         /\ 1000 <= PerThousand(Turns(k, n, L), Rounds(n, L))
         /\ PerThousand(Turns(k, n, L), Rounds(n, L)) <= 2000
<1> DEFINE q == n \div L
           a == Turns(k, n, L) * 1000
           lo == 1000
           hi == 2000
<1>1. q \in Nat \ {0}
  BY DEF Rounds
<1>2. Turns(k, n, L) \in {q, q + 1}
  BY <1>1 DEF Turns
<1>3. q * 1000 <= a /\ a <= q * 2000 /\ a \in Nat
  <2> DEFINE p == Turns(k, n, L)
  <2> HIDE DEF p, q
  <2>1. p * 1000 \in Nat /\ q * 1000 <= p * 1000 /\ p * 1000 <= q * 2000
    BY <1>1, <1>2 DEF p
  <2>2. QED
    BY <2>1 DEF p
<1> HIDE DEF q, a, lo, hi
<1>4. lo \in Nat /\ hi \in Nat /\ q * lo <= a /\ a <= q * hi
  BY <1>3 DEF lo, hi
<1>5. a \div q \in lo..hi
  BY <1>1, <1>3, <1>4, DivBetween
<1>6. a \div q \in Nat /\ lo <= a \div q /\ a \div q <= hi
  BY <1>4, <1>5
<1>7. QED
  BY <1>6 DEF a, q, lo, hi, Rounds, PerThousand

------------------------------------------------------------------------------
\* Sums over finite sets

\* A nonempty collection of subsets of a finite set has a smallest one.
LEMMA SmallestSubset ==
  ASSUME NEW S, IsFiniteSet(S), NEW C \in SUBSET (SUBSET S), C # {}
  PROVE  \E T \in C : \A U \in C : U \subseteq T => U = T
<1>1. C \subseteq FiniteSubsetsOf(S)
  BY FS_Subset DEF FiniteSubsetsOf
<1>2. PICK T \in C : \A U \in C : <<U, T>> \notin StrictSubsetOrdering(S)
  BY <1>1, FS_StrictSubsetOrderingWellFounded, WFMin
<1>3. ASSUME NEW U \in C, U \subseteq T, U # T PROVE FALSE
  BY <1>1, <1>2, <1>3 DEF StrictSubsetOrdering, FiniteSubsetsOf
<1>4. QED
  BY <1>2, <1>3

------------------------------------------------------------------------------
\* MapThenSumSet over a function adds one element of the set after the other

Picked(s) == CHOOSE x \in s : TRUE

\* The function on the subsets of S that it defines recursively.
IsSum(f, h, S) ==
  f = [s \in SUBSET S |-> IF s = {} THEN 0 ELSE h[Picked(s)] + f[s \ {Picked(s)}]]

SumOver(h, S) == (CHOOSE f : IsSum(f, h, S))[S]

LEMMA SumUnique ==
  ASSUME NEW S, IsFiniteSet(S), NEW h, NEW f, NEW g, IsSum(f, h, S), IsSum(g, h, S)
  PROVE  f = g
<1> DEFINE C == {s \in SUBSET S : f[s] # g[s]}
<1>1. SUFFICES ASSUME C # {} PROVE FALSE
  <2>1. CASE C = {}
    <3>1. \A s \in SUBSET S : f[s] = g[s]
      BY <2>1
    <3>2. QED
      BY <3>1 DEF IsSum
  <2>2. QED
    BY <1>1, <2>1
<1>2. PICK T \in C : \A U \in C : U \subseteq T => U = T
  <2>1. C \in SUBSET (SUBSET S)
    OBVIOUS
  <2> HIDE DEF C
  <2>2. QED
    BY <1>1, <2>1, SmallestSubset
<1>3. T # {}
  BY DEF IsSum
<1>4. Picked(T) \in T
  BY <1>3 DEF Picked
<1> DEFINE U == T \ {Picked(T)}
<1>5. U \in SUBSET S /\ f[U] = g[U]
  BY <1>2, <1>4
<1>6. f[T] = h[Picked(T)] + f[U] /\ g[T] = h[Picked(T)] + g[U]
  BY <1>3 DEF IsSum
<1>7. QED
  BY <1>5, <1>6

LEMMA SumRestricts ==
  ASSUME NEW S, NEW h, NEW f, IsSum(f, h, S), NEW T \in SUBSET S
  PROVE  IsSum([s \in SUBSET T |-> f[s]], h, T)
<1> DEFINE g == [s \in SUBSET T |-> f[s]]
<1>1. ASSUME NEW s \in SUBSET T
      PROVE  g[s] = IF s = {} THEN 0 ELSE h[Picked(s)] + g[s \ {Picked(s)}]
  <2>1. s \in SUBSET S /\ s \ {Picked(s)} \in SUBSET T
    OBVIOUS
  <2>2. f[s] = IF s = {} THEN 0 ELSE h[Picked(s)] + f[s \ {Picked(s)}]
    BY <2>1 DEF IsSum
  <2>3. QED
    BY <2>1, <2>2
<1>2. QED
  BY <1>1 DEF IsSum

LEMMA SumExists ==
  ASSUME NEW S, IsFiniteSet(S), NEW h
  PROVE  \E f : IsSum(f, h, S)
<1> DEFINE C == {s \in SUBSET S : ~\E f : IsSum(f, h, s)}
<1>1. SUFFICES ASSUME C # {} PROVE FALSE
  <2>1. S \in SUBSET S
    OBVIOUS
  <2>2. QED
    BY <1>1, <2>1
<1>2. PICK T \in C : \A U \in C : U \subseteq T => U = T
  <2>1. C \in SUBSET (SUBSET S)
    OBVIOUS
  <2> HIDE DEF C
  <2>2. QED
    BY <1>1, <2>1, SmallestSubset
<1> DEFINE sum(s) == CHOOSE f : IsSum(f, h, s)
           F == [s \in SUBSET T |-> IF s = {} THEN 0
                                    ELSE h[Picked(s)] + sum(s \ {Picked(s)})[s \ {Picked(s)}]]
<1>3. ASSUME NEW s \in SUBSET T, s # T PROVE IsSum(sum(s), h, s) /\ IsFiniteSet(s)
  <2>1. s \in SUBSET S /\ s \notin C
    BY <1>2, <1>3
  <2>2. \E f : IsSum(f, h, s)
    BY <2>1
  <2>3. IsSum(sum(s), h, s)
    BY <2>2
  <2>4. QED
    BY <2>1, <2>3, FS_Subset
<1>4. ASSUME NEW s \in SUBSET T, s # T PROVE F[s] = sum(s)[s]
  <2>1. IsSum(sum(s), h, s) /\ IsFiniteSet(s)
    BY <1>3, <1>4
  <2> DEFINE u == s \ {Picked(s)}
             g == [v \in SUBSET u |-> sum(s)[v]]
  <2>2. u \in SUBSET T /\ u \in SUBSET s
    OBVIOUS
  <2>3. CASE s = {}
    BY <2>1, <2>3 DEF IsSum
  <2>4. CASE s # {}
    <3>1. Picked(s) \in s
      BY <2>4 DEF Picked
    <3>2. u # T
      BY <1>4, <3>1
    <3>3. IsSum(sum(u), h, u) /\ IsFiniteSet(u)
      BY <1>3, <2>2, <3>2
    <3>4. IsSum(g, h, u)
      BY <2>1, <2>2, SumRestricts
    <3>5. g = sum(u)
      BY <3>3, <3>4, SumUnique
    <3>6. g[u] = sum(s)[u]
      OBVIOUS
    <3>7. sum(s)[s] = h[Picked(s)] + sum(s)[u]
      BY <2>1, <2>4 DEF IsSum
    <3>8. F[s] = h[Picked(s)] + sum(u)[u]
      BY <2>4
    <3>9. QED
      BY <3>5, <3>6, <3>7, <3>8
  <2>5. QED
    BY <2>3, <2>4
<1>5. ASSUME NEW s \in SUBSET T
      PROVE  F[s] = IF s = {} THEN 0 ELSE h[Picked(s)] + F[s \ {Picked(s)}]
  <2>1. CASE s = {}
    BY <2>1
  <2>2. CASE s # {}
    <3> DEFINE u == s \ {Picked(s)}
    <3>1. u \in SUBSET T /\ u # T
      BY <2>2 DEF Picked
    <3>2. F[u] = sum(u)[u]
      BY <1>4, <3>1
    <3>3. F[s] = h[Picked(s)] + sum(u)[u]
      BY <2>2
    <3>4. QED
      BY <2>2, <3>2, <3>3
  <2>3. QED
    BY <2>1, <2>2
<1>6. IsSum(F, h, T)
  <2>1. F = [s \in SUBSET T |-> F[s]]
    OBVIOUS
  <2> HIDE DEF F
  <2>2. F = [s \in SUBSET T |-> IF s = {} THEN 0 ELSE h[Picked(s)] + F[s \ {Picked(s)}]]
    BY <1>5, <2>1
  <2>3. QED
    BY <2>2 DEF IsSum
<1>7. QED
  BY <1>2, <1>6

\* The sum over a nonempty set is that of one element and that of the others.
LEMMA SumStep ==
  ASSUME NEW S, IsFiniteSet(S), NEW h
  PROVE  SumOver(h, S) = IF S = {} THEN 0 ELSE h[Picked(S)] + SumOver(h, S \ {Picked(S)})
<1> DEFINE sum(s) == CHOOSE f : IsSum(f, h, s)
           U == S \ {Picked(S)}
           g == [v \in SUBSET U |-> sum(S)[v]]
<1>1. IsSum(sum(S), h, S)
  BY SumExists
<1>2. IsFiniteSet(U) /\ IsSum(sum(U), h, U)
  BY SumExists, FS_Subset
<1>3. IsSum(g, h, U)
  BY <1>1, SumRestricts
<1>4. g = sum(U)
  BY <1>2, <1>3, SumUnique
<1>5. sum(S)[S] = IF S = {} THEN 0 ELSE h[Picked(S)] + sum(S)[U]
  BY <1>1 DEF IsSum
<1>6. sum(S)[U] = sum(U)[U]
  BY <1>4
<1>7. QED
  BY <1>5, <1>6 DEF SumOver

\* Numbers between lo and hi have a sum between the corresponding multiples.
LEMMA SumBetween ==
  ASSUME NEW S, IsFiniteSet(S), NEW h, NEW lo \in Nat, NEW hi \in Nat,
         \A x \in S : h[x] \in lo..hi
  PROVE  /\ SumOver(h, S) \in Nat
         /\ Cardinality(S) * lo <= SumOver(h, S) /\ SumOver(h, S) <= Cardinality(S) * hi
<1> DEFINE Good(s) == /\ SumOver(h, s) \in Nat
                      /\ Cardinality(s) * lo <= SumOver(h, s)
                      /\ SumOver(h, s) <= Cardinality(s) * hi
           C == {s \in SUBSET S : ~Good(s)}
<1>1. SUFFICES ASSUME C # {} PROVE FALSE
  <2>1. S \in SUBSET S
    OBVIOUS
  <2>2. QED
    BY <1>1, <2>1
<1>2. PICK T \in C : \A U \in C : U \subseteq T => U = T
  <2>1. C \in SUBSET (SUBSET S)
    OBVIOUS
  <2> HIDE DEF C
  <2>2. QED
    BY <1>1, <2>1, SmallestSubset
<1>3. IsFiniteSet(T) /\ T \subseteq S
  BY <1>2, FS_Subset
<1>4. CASE T = {}
  <2>1. SumOver(h, T) = 0 /\ Cardinality(T) = 0
    BY <1>3, <1>4, SumStep, FS_EmptySet
  <2>2. QED
    BY <1>2, <2>1
<1>5. CASE T # {}
  <2> DEFINE x == Picked(T)
             U == T \ {x}
  <2>1. x \in T /\ h[x] \in lo..hi
    BY <1>3, <1>5 DEF Picked
  <2>2. U \in SUBSET S /\ U # T /\ Good(U)
    BY <1>2, <1>3, <2>1
  <2>3. Cardinality(U) = Cardinality(T) - 1 /\ Cardinality(T) \in Nat
    BY <1>3, <2>1, FS_RemoveElement, FS_CardinalityType
  <2>4. SumOver(h, T) = h[x] + SumOver(h, U)
    BY <1>3, <1>5, SumStep
  <2> DEFINE n == Cardinality(T)
  <2>5. (n - 1) * lo = n * lo - lo /\ (n - 1) * hi = n * hi - hi
    <3>1. \A i \in Nat, j \in Nat : (i - 1) * j = i * j - j
      OBVIOUS
    <3>2. QED
      BY <2>3, <3>1
  <2>6. Good(T)
    <3> HIDE DEF U, x
    <3>1. /\ SumOver(h, U) \in Nat
          /\ (n - 1) * lo <= SumOver(h, U) /\ SumOver(h, U) <= (n - 1) * hi
      BY <2>2, <2>3
    <3>2. QED
      BY <2>1, <2>3, <2>4, <2>5, <3>1
  <2>7. QED
    BY <1>2, <2>6
<1>6. QED
  BY <1>4, <1>5

\* The average of numbers between lo and hi is between lo and hi.
LEMMA AverageBetween ==
  ASSUME NEW S, IsFiniteSet(S), S # {}, NEW h, NEW lo \in Nat, NEW hi \in Nat,
         \A x \in S : h[x] \in lo..hi
  PROVE  SumOver(h, S) \div Cardinality(S) \in lo..hi
<1>1. Cardinality(S) \in Nat \ {0}
  BY FS_CardinalityType, FS_EmptySet
<1>2. /\ SumOver(h, S) \in Nat
      /\ Cardinality(S) * lo <= SumOver(h, S) /\ SumOver(h, S) <= Cardinality(S) * hi
  BY SumBetween
<1>3. QED
  BY <1>1, <1>2, DivBetween

------------------------------------------------------------------------------
\* Powers of two

\* A set of natural numbers with 0 and with each number's successor has all.
LEMMA SetInduction ==
  ASSUME NEW P \in SUBSET Nat, 0 \in P, \A n \in P : n + 1 \in P
  PROVE  P = Nat
<1> SUFFICES ASSUME NEW m \in Nat, m \notin P PROVE FALSE
  OBVIOUS
<1> DEFINE C == {s \in SUBSET (0..m) : \E n \in (0..m) \ P : s = 0..n}
<1>1. PICK T \in C : \A U \in C : U \subseteq T => U = T
  <2>1. C \in SUBSET (SUBSET (0..m))
    OBVIOUS
  <2>2. 0..m \in C
    OBVIOUS
  <2>3. C # {}
    BY <2>2
  <2> DEFINE I == 0..m
  <2>4. IsFiniteSet(I) /\ C \in SUBSET (SUBSET I)
    BY <2>1, FS_Interval
  <2> HIDE DEF C, I
  <2>5. QED
    BY <2>3, <2>4, SmallestSubset
<1>2. PICK n \in (0..m) \ P : T = 0..n
  BY <1>1
<1>3. n # 0 /\ n - 1 \in Nat /\ n - 1 \in 0..m
  BY <1>2
<1>4. n - 1 \notin P
  <2>1. n - 1 \in P => (n - 1) + 1 \in P
    OBVIOUS
  <2>2. QED
    BY <1>2, <1>3, <2>1
<1>5. 0..(n - 1) \in C
  BY <1>3, <1>4
<1>6. 0..(n - 1) \subseteq T /\ 0..(n - 1) # T
  BY <1>2, <1>3
<1>7. QED
  BY <1>1, <1>5, <1>6

\* The subsets of an interval.
LEMMA SubsetsOf ==
  ASSUME NEW k \in Nat
  PROVE  /\ IsFiniteSet(1..k) /\ IsFiniteSet(SUBSET (1..k))
         /\ Cardinality(SUBSET (1..k)) = 2 ^ k
<1>1. IsFiniteSet(1..k) /\ Cardinality(1..k) = k
  <2>1. Cardinality(1..k) = IF 1 > k THEN 0 ELSE k - 1 + 1
    BY FS_Interval
  <2>2. QED
    BY <2>1, FS_Interval
<1>2. QED
  BY <1>1, FS_SUBSET

\* Powers of two count subsets: with one more element there are twice as many.
LEMMA Powers ==
  /\ 2 ^ 0 = 1
  /\ \A k \in Nat : 2 ^ k \in Nat \ {0} /\ 2 ^ (k + 1) = 2 * 2 ^ k
<1>1. 2 ^ 0 = 1
  <2>1. SUBSET (1..0) = {{}}
    OBVIOUS
  <2>2. Cardinality(SUBSET (1..0)) = 1
    BY <2>1, FS_Singleton
  <2>3. QED
    BY <2>2, SubsetsOf
<1>2. ASSUME NEW k \in Nat PROVE 2 ^ k \in Nat \ {0}
  <2>1. {} \in SUBSET (1..k)
    OBVIOUS
  <2>2. Cardinality(SUBSET (1..k)) \in Nat \ {0}
    BY <2>1, SubsetsOf, FS_CardinalityType, FS_EmptySet
  <2>3. QED
    BY <2>2, SubsetsOf
<1>3. ASSUME NEW k \in Nat PROVE 2 ^ (k + 1) = 2 * 2 ^ k
  <2> DEFINE n == k + 1
             A == SUBSET (1..k)
             B == {s \in SUBSET (1..n) : n \in s}
             add == [s \in A |-> s \union {n}]
  <2>1. n \in Nat /\ 1..n = (1..k) \union {n} /\ n \notin 1..k
    OBVIOUS
  <2>2. IsFiniteSet(A) /\ Cardinality(A) = 2 ^ k /\ Cardinality(SUBSET (1..n)) = 2 ^ n
    BY <2>1, SubsetsOf
  <2> HIDE DEF n
  <2>3. SUBSET (1..n) = A \union B /\ A \intersect B = {}
    BY <2>1
  <2>4. add \in Bijection(A, B)
    <3>1. \A s \in A : add[s] \in B
      BY <2>1
    <3>2. \A s, t \in A : add[s] = add[t] => s = t
      BY <2>1
    <3>3. \A u \in B : u \ {n} \in A /\ add[u \ {n}] = u
      BY <2>1
    <3>4. add \in [A -> B]
      BY <3>1
    <3> HIDE DEF A, B, add
    <3>5. add \in Injection(A, B)
      BY <3>2, <3>4 DEF Injection, IsInjective
    <3>6. add \in Surjection(A, B)
      BY <3>3, <3>4 DEF Surjection
    <3>7. QED
      BY <3>5, <3>6 DEF Bijection
  <2> HIDE DEF A, B, add
  <2>5. IsFiniteSet(B) /\ Cardinality(B) = Cardinality(A)
    BY <2>2, <2>4, FS_Bijection DEF ExistsBijection
  <2>6. Cardinality(A \union B) = Cardinality(A) + Cardinality(B) - Cardinality(A \intersect B)
    BY <2>2, <2>5, FS_Union
  <2>7. Cardinality(A \intersect B) = 0
    BY <2>3, FS_EmptySet
  <2>8. Cardinality(A) \in Nat
    BY <2>2, FS_CardinalityType
  <2>9. Cardinality(A \union B) = 2 * Cardinality(A)
    BY <2>5, <2>6, <2>7, <2>8
  <2>10. 2 ^ n = 2 * 2 ^ k
    BY <2>2, <2>3, <2>9, Zenon
  <2>11. QED
    BY <2>10 DEF n
<1>4. QED
  BY <1>1, <1>2, <1>3

\* A sum of exponents makes a product.
LEMMA PowerOfSum ==
  ASSUME NEW a \in Nat, NEW d \in Nat
  PROVE  2 ^ (a + d) = 2 ^ a * 2 ^ d
<1> DEFINE P == {n \in Nat : 2 ^ (a + n) = 2 ^ a * 2 ^ n}
<1>1. 0 \in P
  <2> DEFINE p == 2 ^ a
  <2>1. p * 1 = p /\ a + 0 = a
    BY Powers
  <2>2. QED
    BY <2>1, Powers
<1>2. ASSUME NEW n \in P PROVE n + 1 \in P
  <2> DEFINE p == 2 ^ a
             q == 2 ^ n
             r == 2 ^ (a + n)
  <2>1. p \in Nat /\ q \in Nat /\ r = p * q
    BY Powers
  <2>2. 2 ^ (n + 1) = 2 * q /\ 2 ^ (a + n + 1) = 2 * r /\ a + n + 1 = a + (n + 1)
    BY Powers
  <2> HIDE DEF p, q, r
  <2>3. 2 * r = p * (2 * q)
    BY <2>1
  <2>4. 2 ^ (a + (n + 1)) = p * 2 ^ (n + 1)
    BY <2>2, <2>3
  <2>5. QED
    BY <2>4 DEF p
<1>3. P = Nat
  <2> HIDE DEF P
  <2>1. P \subseteq Nat
    BY DEF P
  <2>2. QED
    BY <1>1, <1>2, <2>1, SetInduction
<1>4. QED
  BY <1>3

\* A smaller power divides a greater one.
LEMMA PowerDivides ==
  ASSUME NEW a \in Nat, NEW b \in Nat, a <= b
  PROVE  \E q \in Nat \ {0} : 2 ^ b = 2 ^ a * q /\ 2 ^ a <= 2 ^ b
<1> DEFINE p == 2 ^ a
           q == 2 ^ (b - a)
<1>1. b - a \in Nat /\ a + (b - a) = b
  OBVIOUS
<1>2. p \in Nat \ {0} /\ q \in Nat \ {0}
  BY <1>1, Powers
<1>3. 2 ^ b = p * q
  BY <1>1, PowerOfSum
<1> HIDE DEF p, q
<1>4. p <= p * q
  <2>1. p * (q - 1) >= 0 /\ p * (q - 1) = p * q - p
    BY <1>2
  <2>2. QED
    BY <1>2, <2>1
<1>5. QED
  BY <1>2, <1>3, <1>4 DEF p

\* A multiple does not change the remainder.
LEMMA SameRemainder ==
  ASSUME NEW n \in Nat \ {0}, NEW a \in Nat, NEW q \in Nat
  PROVE  (a + n * q) % n = a % n
<1> DEFINE d == a \div n
           r == a % n
<1>1. d \in Nat /\ r \in Nat /\ r < n /\ a = n * d + r
  OBVIOUS
<1>2. d + q \in Nat /\ a + n * q = n * (d + q) + r
  BY <1>1
<1> HIDE DEF d, r
<1>3. (n * (d + q) + r) % n = r
  BY <1>1, <1>2, DivUnique
<1>4. QED
  BY <1>2, <1>3 DEF r

\* Numbers with the same remainder are the same or at least n apart.
LEMMA OtherRemainder ==
  ASSUME NEW n \in Nat \ {0}, NEW a \in Nat, NEW b \in Nat, a < b, b < a + n
  PROVE  a % n # b % n
<1> DEFINE p == a \div n
           q == b \div n
           r == a % n
           s == b % n
<1>1. p \in Nat /\ q \in Nat /\ r \in Nat /\ s \in Nat /\ a = n * p + r /\ b = n * q + s
  OBVIOUS
<1> HIDE DEF p, q, r, s
<1>2. SUFFICES ASSUME r = s PROVE FALSE
  BY DEF r, s
<1>3. n * (q - p) = b - a
  BY <1>1, <1>2
<1>4. CASE q - p >= 1
  <2>1. n * (q - p - 1) >= 0 /\ n * (q - p - 1) = n * (q - p) - n
    BY <1>1, <1>4
  <2>2. QED
    BY <1>3, <2>1
<1>5. CASE q - p <= 0
  <2>1. n * (p - q) >= 0 /\ n * (p - q) = -(n * (q - p))
    BY <1>1, <1>5
  <2>2. QED
    BY <1>3, <2>1
<1>6. QED
  BY <1>1, <1>4, <1>5

------------------------------------------------------------------------------
\* Pairs of functions that are placed one after the other at multiples of
\* growing powers of two

\* The next multiple of n.
MultipleFrom(a, n) == ((a + n - 1) \div n) * n

\* Two functions of c bytes, the first free address being given.
PairFrom(free, n, c) ==
  [first |-> MultipleFrom(free, n), second |-> MultipleFrom(MultipleFrom(free, n) + c, n)]

\* The function that places the pairs for lo to hi bits.
ArePairs(f, lo, hi, c) ==
  f = [b \in lo..hi |-> PairFrom(IF b = lo THEN 0 ELSE f[b - 1].second + c, 2 ^ b, c)]

LEMMA MultipleNext ==
  ASSUME NEW n \in Nat \ {0}, NEW a \in Nat
  PROVE  \E q \in Nat : /\ MultipleFrom(a, n) = n * q /\ a <= n * q
                       /\ \A m \in Nat : a <= n * m => q <= m
<1> DEFINE b == a + n - 1
           q == b \div n
           r == b % n
<1>1. b \in Nat /\ q \in Nat /\ r \in Nat /\ r < n /\ b = n * q + r
  OBVIOUS
<1>2. MultipleFrom(a, n) = n * q
  BY <1>1 DEF MultipleFrom
<1>3. a <= n * q
  BY <1>1
<1>4. ASSUME NEW m \in Nat, a <= n * m PROVE q <= m
  <2>1. CASE q >= m + 1
    <3>1. n * (q - m - 1) >= 0 /\ n * (q - m - 1) = n * q - n * m - n
      BY <1>1, <2>1
    <3>2. QED
      BY <1>1, <1>4, <3>1
  <2>2. QED
    BY <1>1, <2>1
<1>5. QED
  BY <1>1, <1>2, <1>3, <1>4

\* Functions that fit are one multiple apart, as near to the free address as
\* the alignment lets them.
LEMMA PairBounds ==
  ASSUME NEW n \in Nat \ {0}, NEW c \in 1..n, NEW free \in Nat
  PROVE  \E q \in Nat : /\ PairFrom(free, n, c) = [first |-> n * q, second |-> n * q + n]
                       /\ free <= n * q
                       /\ \A m \in Nat : free <= n * m => q <= m
<1>1. PICK q \in Nat : /\ MultipleFrom(free, n) = n * q /\ free <= n * q
                      /\ \A m \in Nat : free <= n * m => q <= m
  BY MultipleNext
<1> DEFINE first == n * q
<1>2. first \in Nat
  OBVIOUS
<1>3. PICK p \in Nat : /\ MultipleFrom(first + c, n) = n * p /\ first + c <= n * p
                      /\ \A m \in Nat : first + c <= n * m => p <= m
  <2> DEFINE a == first + c
  <2>1. a \in Nat
    BY <1>2
  <2> HIDE DEF a
  <2>2. QED
    BY <2>1, MultipleNext DEF a
<1>4. first + c <= n * (q + 1)
  OBVIOUS
<1>5. p <= q + 1
  BY <1>3, <1>4
<1>6. p >= q + 1
  <2>1. CASE p <= q
    <3>1. n * (q - p) >= 0 /\ n * (q - p) = n * q - n * p
      BY <2>1
    <3>2. QED
      BY <1>3, <3>1
  <2>2. QED
    BY <2>1
<1>7. n * p = n * q + n
  BY <1>5, <1>6
<1>8. QED
  BY <1>1, <1>3, <1>7 DEF PairFrom

LEMMA PairsExist ==
  ASSUME NEW lo \in Nat, NEW hi \in Nat, lo <= hi, NEW c
  PROVE  \E f : ArePairs(f, lo, hi, c)
<1> DEFINE P == {n \in Nat : \E f : ArePairs(f, lo, lo + n, c)}
<1>1. 0 \in P
  <2> DEFINE f == [b \in lo..(lo + 0) |-> PairFrom(0, 2 ^ b, c)]
  <2>1. \A b \in lo..(lo + 0) : b = lo
    OBVIOUS
  <2>2. f = [b \in lo..(lo + 0) |-> PairFrom(IF b = lo THEN 0 ELSE f[b - 1].second + c, 2 ^ b, c)]
    BY <2>1
  <2> HIDE DEF f
  <2>3. ArePairs(f, lo, lo + 0, c)
    BY <2>2 DEF ArePairs
  <2>4. QED
    BY <2>3
<1>2. ASSUME NEW n \in P PROVE n + 1 \in P
  <2>1. PICK f : ArePairs(f, lo, lo + n, c)
    OBVIOUS
  <2> DEFINE I == lo..(lo + (n + 1))
             at(g, b) == PairFrom(IF b = lo THEN 0 ELSE g[b - 1].second + c, 2 ^ b, c)
             h == [b \in I |-> IF b = lo + (n + 1) THEN at(f, b) ELSE f[b]]
  <2>2. \A b \in lo..(lo + n) : f[b] = at(f, b)
    BY <2>1 DEF ArePairs
  <2>3. ASSUME NEW b \in I PROVE h[b] = at(h, b)
    <3>1. b # lo => b - 1 \in I /\ b - 1 # lo + (n + 1)
      OBVIOUS
    <3>2. b # lo => h[b - 1] = f[b - 1]
      BY <3>1
    <3>3. at(h, b) = at(f, b)
      <4> HIDE DEF h
      <4>1. QED
        BY <3>2
    <3>4. b # lo + (n + 1) => f[b] = at(f, b)
      BY <2>2
    <3>5. h[b] = IF b = lo + (n + 1) THEN at(f, b) ELSE f[b]
      OBVIOUS
    <3> HIDE DEF h, at
    <3>6. QED
      BY <3>3, <3>4, <3>5
  <2>4. h = [b \in I |-> h[b]]
    OBVIOUS
  <2> HIDE DEF h
  <2>5. h = [b \in I |-> at(h, b)]
    BY <2>3, <2>4
  <2>6. ArePairs(h, lo, lo + (n + 1), c)
    BY <2>5 DEF ArePairs
  <2>7. QED
    BY <2>6
<1>3. P = Nat
  <2> HIDE DEF P
  <2>1. P \subseteq Nat
    BY DEF P
  <2>2. QED
    BY <1>1, <1>2, <2>1, SetInduction
<1>4. hi - lo \in P
  <2>1. hi - lo \in Nat
    OBVIOUS
  <2> HIDE DEF P
  <2>2. QED
    BY <1>3, <2>1
<1>5. lo + (hi - lo) = hi
  OBVIOUS
<1>6. QED
  BY <1>4, <1>5

\* Where the pairs are: not far behind the first address, and in order.
LEMMA PairsPlaced ==
  ASSUME NEW lo \in Nat, NEW hi \in Nat, NEW c \in 1..(2 ^ lo), NEW f, ArePairs(f, lo, hi, c),
         NEW b \in lo..hi
  PROVE  /\ \E free \in Nat : f[b] = PairFrom(free, 2 ^ b, c)
         /\ f[b].first \in Nat /\ f[b].second = f[b].first + 2 ^ b
         /\ f[b].second <= 3 * 2 ^ b /\ 2 ^ lo <= 2 ^ b
         /\ \A a \in lo..b : f[a].first \in Nat /\ f[a].first < f[b].second
<1> DEFINE Good(k) == /\ \E free \in Nat : f[k] = PairFrom(free, 2 ^ k, c)
                      /\ f[k].first \in Nat /\ f[k].second = f[k].first + 2 ^ k
                      /\ f[k].second <= 3 * 2 ^ k /\ 2 ^ lo <= 2 ^ k
                      /\ \A a \in lo..k : f[a].first \in Nat /\ f[a].first < f[k].second
           P == {n \in Nat : lo + n <= hi => Good(lo + n)}
<1>0. \A k \in lo..hi : f[k] = PairFrom(IF k = lo THEN 0 ELSE f[k - 1].second + c, 2 ^ k, c)
  BY DEF ArePairs
<1>1. 0 \in P
  <2> DEFINE n == 2 ^ lo
  <2>1. n \in Nat \ {0} /\ lo \in lo..hi
    BY Powers
  <2>2. f[lo] = PairFrom(0, n, c)
    BY <1>0, <2>1
  <2> HIDE DEF n
  <2>3. PICK q \in Nat : /\ PairFrom(0, n, c) = [first |-> n * q, second |-> n * q + n]
                        /\ \A m \in Nat : 0 <= n * m => q <= m
    BY <2>1, PairBounds DEF n
  <2>4. q = 0
    BY <2>1, <2>3
  <2>5. f[lo] = [first |-> 0, second |-> n]
    BY <2>1, <2>2, <2>3, <2>4
  <2>6. \A a \in lo..lo : a = lo
    OBVIOUS
  <2>7. Good(lo)
    <3>1. f[lo].first = 0 /\ f[lo].second = n
      BY <2>5
    <3>2. n <= 3 * n /\ 0 + n = n /\ 0 < n
      BY <2>1
    <3>3. QED
      BY <2>2, <2>6, <3>1, <3>2 DEF n
  <2>8. lo + 0 = lo
    OBVIOUS
  <2>9. QED
    BY <2>7, <2>8
<1>2. ASSUME NEW m \in P PROVE m + 1 \in P
  <2>1. SUFFICES ASSUME lo + (m + 1) <= hi PROVE Good(lo + (m + 1))
    OBVIOUS
  <2> DEFINE j == lo + m
             k == lo + (m + 1)
             n == 2 ^ j
             free == f[j].second + c
  <2>2. j \in lo..hi /\ k \in lo..hi /\ k # lo /\ k - 1 = j /\ k = j + 1 /\ Good(j)
    BY <2>1
  <2>3. n \in Nat \ {0} /\ 2 ^ k = 2 * n
    BY <2>2, Powers
  <2>4. f[k] = PairFrom(free, 2 * n, c)
    BY <1>0, <2>2, <2>3
  <2> DEFINE first == f[j].first
             second == f[j].second
  <2>5. first \in Nat /\ second = first + n /\ second <= 3 * n /\ 2 ^ lo <= n
    BY <2>2
  <2>6. c \in 1..n
    BY <2>3, <2>5, Powers
  <2> HIDE DEF n, first, second
  <2>7. free \in Nat /\ free > second /\ free <= (2 * n) * 2
    BY <2>3, <2>5, <2>6 DEF second
  <2> HIDE DEF free
  <2>8. PICK q \in Nat : /\ PairFrom(free, 2 * n, c) = [first |-> (2 * n) * q, second |-> (2 * n) * q + 2 * n]
                        /\ free <= (2 * n) * q
                        /\ \A i \in Nat : free <= (2 * n) * i => q <= i
    <3> DEFINE t == 2 * n
    <3>1. t \in Nat \ {0} /\ c \in 1..t
      BY <2>3, <2>6
    <3> HIDE DEF t
    <3>2. QED
      BY <2>7, <3>1, PairBounds DEF t
  <2>9. q <= 2
    BY <2>7, <2>8
  <2> DEFINE at == (2 * n) * q
  <2>10. at \in Nat /\ at <= 4 * n
    <3>1. q = 0 \/ q = 1 \/ q = 2
      BY <2>9
    <3>2. QED
      BY <2>3, <3>1
  <2>11. free <= at /\ f[k] = [first |-> at, second |-> at + 2 * n]
    BY <2>4, <2>8
  <2> HIDE DEF at
  <2>12. f[k].first = at /\ f[k].second = at + 2 * n
    BY <2>11
  <2>13. \A a \in lo..k : f[a].first \in Nat /\ f[a].first < f[k].second
    <3> SUFFICES ASSUME NEW a \in lo..k PROVE f[a].first \in Nat /\ f[a].first < f[k].second
      OBVIOUS
    <3>1. CASE a = k
      BY <2>3, <2>10, <2>12, <3>1
    <3>2. CASE a # k
      <4>1. a \in lo..j
        BY <2>2, <3>2
      <4>2. f[a].first \in Nat /\ f[a].first < second
        BY <2>2, <4>1 DEF second
      <4>3. second < at + 2 * n
        BY <2>3, <2>5, <2>7, <2>10, <2>11
      <4>4. at + 2 * n \in Nat /\ second \in Nat
        BY <2>3, <2>5, <2>10
      <4>5. QED
        BY <2>12, <4>2, <4>3, <4>4
    <3>3. QED
      BY <3>1, <3>2
  <2>14. QED
    <3>1. f[k].first \in Nat /\ f[k].second = f[k].first + 2 ^ k /\ f[k].second <= 3 * 2 ^ k
      BY <2>3, <2>10, <2>12
    <3>2. 2 ^ lo <= 2 ^ k
      BY <2>3, <2>5, Powers
    <3>3. f[k] = PairFrom(free, 2 ^ k, c)
      BY <2>3, <2>4
    <3>4. QED
      BY <2>7, <2>13, <3>1, <3>2, <3>3
<1>3. P = Nat
  <2> HIDE DEF P
  <2>1. P \subseteq Nat
    BY DEF P
  <2>2. QED
    BY <1>1, <1>2, <2>1, SetInduction
<1>4. b - lo \in P /\ lo + (b - lo) = b
  <2>1. b - lo \in Nat /\ lo + (b - lo) = b
    OBVIOUS
  <2> HIDE DEF P
  <2>2. QED
    BY <1>3, <2>1
<1>5. Good(b)
  BY <1>4
<1>6. QED
  BY <1>5

\* How the addresses of a pair agree, as far as a prefetcher looks at k bits of
\* them: in the bits of their alignment, and in no more; nor does the second one
\* agree with the first one of an earlier pair in more than one bit beyond.
LEMMA PairRemainders ==
  ASSUME NEW lo \in Nat, NEW hi \in Nat, NEW c \in 1..(2 ^ lo), NEW f, ArePairs(f, lo, hi, c),
         NEW base \in Nat, NEW b \in lo..hi, NEW k \in Nat
  PROVE  /\ k <= b => (base + f[b].first) % 2 ^ k = (base + f[b].second) % 2 ^ k
         /\ k > b => (base + f[b].first) % 2 ^ k # (base + f[b].second) % 2 ^ k
         /\ k > b + 1 => \A a \in lo..b :
                            (base + f[a].first) % 2 ^ k # (base + f[b].second) % 2 ^ k
<1> DEFINE m == 2 ^ k
           n == 2 ^ b
           first == f[b].first
           second == f[b].second
           one == base + first
           two == base + second
<1>1. m \in Nat \ {0} /\ n \in Nat \ {0} /\ 2 ^ (b + 1) = 2 * n /\ 2 ^ (b + 2) = 4 * n
  <2>1. b \in Nat /\ b + 1 \in Nat /\ b + 1 + 1 = b + 2
    OBVIOUS
  <2>2. 2 ^ (b + 1) = 2 * n /\ 2 ^ (b + 1 + 1) = 2 * 2 ^ (b + 1) /\ n \in Nat \ {0}
    BY <2>1, Powers
  <2>3. QED
    BY <2>1, <2>2, Powers
<1>2. first \in Nat /\ second = first + n /\ second <= 3 * n
  BY PairsPlaced
<1>3. \A a \in lo..b : f[a].first \in Nat /\ f[a].first < second
  BY PairsPlaced
<1>4. k <= b => one % m = two % m
  <2>1. SUFFICES ASSUME k <= b PROVE one % m = two % m
    OBVIOUS
  <2>2. PICK q \in Nat \ {0} : n = m * q
    <3>1. b \in Nat
      OBVIOUS
    <3>2. \E q \in Nat \ {0} : n = m * q /\ m <= n
      BY <2>1, <3>1, PowerDivides
    <3>3. QED
      BY <3>2, Zenon
  <2> HIDE DEF first, second, m, n
  <2>3. one \in Nat /\ two = one + m * q
    BY <1>2, <2>2
  <2> HIDE DEF one, two
  <2>4. QED
    BY <1>1, <2>3, SameRemainder
<1>5. k > b => one % m # two % m
  <2>1. SUFFICES ASSUME k > b PROVE one % m # two % m
    OBVIOUS
  <2>2. 2 * n <= m
    <3>1. b + 1 \in Nat /\ b + 1 <= k
      BY <2>1
    <3>2. 2 ^ (b + 1) <= 2 ^ k
      BY <3>1, PowerDivides
    <3>3. QED
      BY <1>1, <3>2
  <2> HIDE DEF first, second, m, n
  <2>3. one \in Nat /\ two \in Nat /\ one < two /\ two < one + m
    BY <1>1, <1>2, <2>2
  <2> HIDE DEF one, two
  <2>4. QED
    BY <1>1, <2>3, OtherRemainder
<1>6. k > b + 1 => \A a \in lo..b : (base + f[a].first) % m # two % m
  <2> SUFFICES ASSUME k > b + 1, NEW a \in lo..b PROVE (base + f[a].first) % m # two % m
    OBVIOUS
  <2> DEFINE begin == f[a].first
             other == base + begin
  <2>1. 4 * n <= m
    <3>1. b + 2 \in Nat /\ b + 2 <= k
      OBVIOUS
    <3>2. 2 ^ (b + 2) <= 2 ^ k
      BY <3>1, PowerDivides
    <3>3. QED
      BY <1>1, <3>2
  <2>2. begin \in Nat /\ begin < second
    BY <1>3
  <2> HIDE DEF first, second, m, n, begin
  <2>3. other \in Nat /\ two \in Nat /\ other < two /\ two < other + m
    BY <1>1, <1>2, <2>1, <2>2
  <2> HIDE DEF other, two
  <2>4. other % m # two % m
    BY <1>1, <2>3, OtherRemainder
  <2>5. QED
    BY <2>4 DEF other, begin
<1>7. QED
  BY <1>4, <1>5, <1>6
===============================================================================
