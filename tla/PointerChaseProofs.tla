-------------------------- MODULE PointerChaseProofs --------------------------
(***************************************************************************)
(* The chase of the pchase testcase follows its list, never loads what is  *)
(* measured, and shows a prefetcher that follows pointers, for lists of    *)
(* every length and every choice of entries.                               *)
(***************************************************************************)
EXTENDS PointerChase, Arithmetic

\* What is selected are different entries, each pointing to the next one, but
\* for the reference; and the reference or the last one is measured.
ListInv ==
  /\ pc \in {"select", "flush", "chase", "measure", "done"}
  /\ entries \in Nat /\ (pc # "done" => entries < MaxEntries)
  /\ picked \in Seq(Array) /\ IsInjective(picked) /\ Len(picked) <= entries + 2
  /\ next \in [Array -> Nat]
  /\ \A k \in 2..(Len(picked) - 1) : next[picked[k]] = picked[k + 1]
  /\ pc \in {"flush", "chase", "measure"} =>
       Len(picked) = entries + 2 /\ pref = IF IsRef THEN ref ELSE last

\* The chase has loaded all entries but the one that it arrived at.
ChaseInv ==
  pc \in {"chase", "measure"} =>
    /\ followed \in Seq(Array) /\ Len(followed) \in 1..(entries + 1)
    /\ \A k \in 1..Len(followed) : followed[k] = picked[k + 1]
    /\ cached \subseteq PageHeads \union {picked[k] : k \in 2..Len(followed)}
                          \union IF pc = "measure" /\ hw = "next" /\ entries > 0 THEN {last} ELSE {}
    /\ pc = "measure" =>
         Len(followed) = entries + 1 /\ (hw = "next" /\ entries > 0 => last \in cached)

\* Every second measurement counts one hit for the prefetcher.
CountInv ==
  /\ m \in 0..(2 * Measurements - 1)
  /\ out \in [0..(MaxEntries - 1) -> [Kinds -> Nat]]
  /\ hw = "next" =>
       \A n \in 1..(MaxEntries - 1) :
         out[n]["mes"] = IF n < entries THEN Measurements ELSE IF n = entries THEN (m + 1) \div 2 ELSE 0

IInv == ListInv /\ ChaseInv /\ CountInv

LEMMA InitInv == Init => IInv
<1> SUFFICES ASSUME Init PROVE IInv
  OBVIOUS
<1>1. ListInv
  <2>1. picked = <<>> /\ picked \in Seq(Array) /\ Len(picked) = 0
    BY DEF Init
  <2>2. next \in [Array -> Nat]
    BY PointerChaseAssumption DEF Init, Nil
  <2>3. QED
    BY <2>1, <2>2, PointerChaseAssumption DEF Init, ListInv, IsInjective
<1>2. ChaseInv
  BY DEF Init, ChaseInv
<1>3. CountInv
  <2>1. out = [n \in 0..(MaxEntries - 1) |-> [kind \in Kinds |-> 0]] /\ entries = 0 /\ m = 0
    BY DEF Init
  <2>2. out \in [0..(MaxEntries - 1) -> [Kinds -> Nat]]
    BY <2>1
  <2>3. \A n \in 1..(MaxEntries - 1) : out[n]["mes"] = 0
    BY <2>1, PointerChaseAssumption DEF Kinds
  <2>4. QED
    BY <2>1, <2>2, <2>3, PointerChaseAssumption DEF CountInv
<1>4. QED
  BY <1>1, <1>2, <1>3 DEF IInv

\* What has been selected, with one more entry.
LEMMA SelectInv ==
  ASSUME ListInv, SelectEntry
  PROVE  ListInv'
<1>1. PICK e \in Array \ ToSet(picked) :
        /\ picked' = Append(picked, e)
        /\ next' = IF Len(picked) >= 2 THEN [next EXCEPT ![last] = e] ELSE next
  BY DEF SelectEntry
<1>2. /\ pc = "select" /\ pc' = pc /\ Len(picked) < entries + 2 /\ entries' = entries
  BY DEF SelectEntry
<1> DEFINE n == Len(picked)
           new == picked'
<1>3. /\ entries \in Nat /\ entries < MaxEntries /\ picked \in Seq(Array) /\ IsInjective(picked)
      /\ next \in [Array -> Nat] /\ n \in Nat
      /\ \A k \in 2..(n - 1) : next[picked[k]] = picked[k + 1]
  BY <1>2 DEF ListInv
<1>4. /\ new \in Seq(Array) /\ Len(new) = n + 1 /\ DOMAIN new = 1..(n + 1)
      /\ new[n + 1] = e
      /\ \A k \in 1..n : new[k] = picked[k] /\ picked[k] \in Array
  BY <1>1, <1>3
<1>5. \A k \in 1..n : picked[k] # e
  BY <1>1, <1>3 DEF ToSet
<1>6. \A a, b \in 1..n : picked[a] = picked[b] => a = b
  BY <1>3 DEF IsInjective
<1>7. e \in Nat
  BY PointerChaseAssumption DEF Array
<1> HIDE DEF n, new
<1>8. IsInjective(new)
  <2> SUFFICES ASSUME NEW a \in 1..(n + 1), NEW b \in 1..(n + 1), new[a] = new[b] PROVE a = b
    BY <1>4 DEF IsInjective
  <2>1. (a \in 1..n \/ a = n + 1) /\ (b \in 1..n \/ b = n + 1)
    BY <1>3
  <2>2. QED
    BY <1>4, <1>5, <1>6, <2>1
<1>9. ASSUME NEW k \in 2..n PROVE next'[new[k]] = new[k + 1]
  <2>1. n >= 2 /\ k \in 1..n
    BY <1>3
  <2>2. last = picked[n] /\ next' = [next EXCEPT ![last] = e]
    BY <1>1, <2>1 DEF last, Last, n
  <2>3. CASE k = n
    BY <1>3, <1>4, <2>1, <2>2, <2>3
  <2>4. CASE k < n
    <3>1. k \in 2..(n - 1) /\ k + 1 \in 1..n /\ n \in 1..n /\ k # n
      BY <1>3, <2>4
    <3>2. picked[k] # picked[n]
      BY <1>6, <2>1, <3>1
    <3>3. next'[picked[k]] = next[picked[k]]
      BY <1>3, <1>4, <2>1, <2>2, <3>2
    <3>4. QED
      BY <1>3, <1>4, <2>1, <3>1, <3>3
  <2>5. QED
    BY <1>3, <2>3, <2>4
<1>10. next' \in [Array -> Nat]
  BY <1>1, <1>3, <1>7
<1>11. QED
  <2>1. Len(picked') = n + 1 /\ n + 1 <= entries + 2 /\ (n + 1) - 1 = n
    BY <1>2, <1>3, <1>4 DEF n, new
  <2>2. \A k \in 2..(Len(picked') - 1) : next'[picked'[k]] = picked'[k + 1]
    BY <1>9, <2>1 DEF new
  <2>3. QED
    BY <1>2, <1>3, <1>4, <1>8, <1>10, <2>1, <2>2 DEF ListInv, Array, new

\* Where the chase is, while the list stays.
LEMMA ChaseStep ==
  ASSUME ListInv, ChaseInv, Chase
  PROVE  ChaseInv'
<1> DEFINE L == Len(followed)
<1>1. /\ pc = "chase" /\ entries' = entries /\ picked' = picked /\ hw' = hw
      /\ entries \in Nat /\ Len(picked) = entries + 2 /\ picked \in Seq(Array)
      /\ \A k \in 2..(Len(picked) - 1) : next[picked[k]] = picked[k + 1]
  BY DEF Chase, ListInv
<1>2. /\ followed \in Seq(Array) /\ L \in 1..(entries + 1)
      /\ \A k \in 1..L : followed[k] = picked[k + 1]
      /\ cached \subseteq PageHeads \union {picked[k] : k \in 2..L}
  BY <1>1 DEF ChaseInv
<1>3. Last(followed) = picked[L + 1] /\ picked[L + 1] \in Array
  <2>1. L \in 1..L /\ L + 1 \in 1..Len(picked)
    BY <1>1, <1>2
  <2>2. QED
    BY <1>1, <1>2, <2>1 DEF Last
<1>4. CASE L <= entries
  <2>1. /\ cached' = cached \union {picked[L + 1]} /\ pc' = "chase"
        /\ followed' = Append(followed, next[picked[L + 1]])
    BY <1>1, <1>3, <1>4 DEF Chase
  <2>2. L + 1 \in 2..(Len(picked) - 1) /\ L + 2 \in 1..Len(picked) /\ (L + 1) + 1 = L + 2
    BY <1>1, <1>2, <1>4
  <2>3. next[picked[L + 1]] = picked[L + 2] /\ picked[L + 2] \in Array
    <3>1. next[picked[L + 1]] = picked[(L + 1) + 1]
      BY <1>1, <2>2
    <3>2. QED
      BY <1>1, <2>2, <3>1
  <2>4. followed' \in Seq(Array) /\ Len(followed') = L + 1
    BY <1>2, <2>1, <2>3
  <2>5. ASSUME NEW k \in 1..(L + 1) PROVE followed'[k] = picked'[k + 1]
    <3>1. CASE k \in 1..L
      BY <1>1, <1>2, <2>1, <2>3, <3>1
    <3>2. CASE k = L + 1
      BY <1>1, <1>2, <2>1, <2>2, <2>3, <3>2
    <3>3. QED
      BY <1>2, <3>1, <3>2
  <2>6. cached' \subseteq PageHeads \union {picked[k] : k \in 2..(L + 1)}
    <3>1. \A k \in 2..L : k \in 2..(L + 1)
      BY <1>2
    <3>2. L + 1 \in 2..(L + 1)
      BY <1>2
    <3>3. QED
      BY <1>2, <2>1, <3>1, <3>2
  <2>7. PageHeads' = PageHeads /\ Array' = Array
    BY DEF PageHeads, Array
  <2> HIDE DEF L
  <2>8. L + 1 \in 1..(entries + 1)
    BY <1>1, <1>2, <1>4
  <2>9. QED
    BY <1>1, <2>1, <2>4, <2>5, <2>6, <2>7, <2>8 DEF ChaseInv
<1>5. CASE L = entries + 1
  <2>1. /\ cached' = IF hw = "next" /\ entries > 0 THEN cached \union {picked[L + 1]} ELSE cached
        /\ pc' = "measure" /\ followed' = followed
    BY <1>1, <1>3, <1>5 DEF Chase
  <2>2. last = picked[L + 1] /\ last' = last
    BY <1>1, <1>5 DEF last, Last
  <2>3. PageHeads' = PageHeads /\ Array' = Array
    BY DEF PageHeads, Array
  <2>4. QED
    BY <1>1, <1>2, <1>5, <2>1, <2>2, <2>3 DEF ChaseInv
<1>6. QED
  BY <1>1, <1>2, <1>4, <1>5

\* Half of the measurements, counted before and after one more.
LEMMA HalfStep ==
  ASSUME NEW k \in Nat
  PROVE  /\ k % 2 = 0 => (k + 2) \div 2 = ((k + 1) \div 2) + 1
         /\ k % 2 = 1 => (k + 2) \div 2 = (k + 1) \div 2
OBVIOUS

LEMMA HitsStep ==
  ASSUME ListInv, ChaseInv, CountInv, Measure
  PROVE  CountInv'
<1> DEFINE kind == IF IsRef THEN "ref" ELSE "mes"
           hit == IF pref \in cached THEN 1 ELSE 0
           E == 0..(MaxEntries - 1)
<1>1. /\ pc = "measure" /\ entries \in E /\ hw' = hw
      /\ m \in 0..(2 * Measurements - 1) /\ out \in [E -> [Kinds -> Nat]]
      /\ MaxEntries \in Nat \ {0} /\ Measurements \in Nat \ {0}
  BY PointerChaseAssumption DEF Measure, ListInv, CountInv
<1>2. out' = [out EXCEPT ![entries] = [out[entries] EXCEPT ![kind] = out[entries][kind] + hit]]
  BY DEF Measure
<1>3. kind \in Kinds /\ hit \in Nat
  BY DEF Kinds
<1>4. m' \in 0..(2 * Measurements - 1)
  BY <1>1 DEF Measure
<1>5. out' \in [E -> [Kinds -> Nat]]
  <2> HIDE DEF kind, hit, E
  <2>1. [out[entries] EXCEPT ![kind] = out[entries][kind] + hit] \in [Kinds -> Nat]
    BY <1>1, <1>3
  <2>2. QED
    BY <1>1, <1>2, <2>1
<1>6. ASSUME NEW n \in E
      PROVE  out'[n]["mes"] = out[n]["mes"] + IF n = entries /\ ~IsRef THEN hit ELSE 0
  <2>1. out[n]["mes"] \in Nat /\ "mes" \in Kinds
    BY <1>1 DEF Kinds
  <2> HIDE DEF hit, E
  <2>2. CASE n # entries
    BY <1>1, <1>2, <2>1, <2>2
  <2>3. CASE n = entries
    <3>1. out'[n] = [out[n] EXCEPT ![kind] = out[n][kind] + hit]
      BY <1>1, <1>2, <2>3
    <3>2. out[n] \in [Kinds -> Nat]
      BY <1>1
    <3>3. QED
      BY <1>3, <2>1, <2>3, <3>1, <3>2
  <2>4. QED
    BY <2>2, <2>3
<1>7. hw = "next" /\ entries > 0 /\ ~IsRef => hit = 1
  BY <1>1 DEF ListInv, ChaseInv
<1>8. ASSUME hw = "next", NEW n \in 1..(MaxEntries - 1)
      PROVE  out'[n]["mes"] = IF n < entries' THEN Measurements
                              ELSE IF n = entries' THEN (m' + 1) \div 2 ELSE 0
  <2> DEFINE before == out[n]["mes"]
             after == out'[n]["mes"]
  <2>1. n \in E /\ n > 0
    BY <1>1
  <2>2. before = IF n < entries THEN Measurements ELSE IF n = entries THEN (m + 1) \div 2 ELSE 0
    BY <1>8 DEF CountInv
  <2>3. after = before + IF n = entries /\ ~IsRef THEN hit ELSE 0
    BY <1>6, <2>1
  <2>4. n = entries /\ ~IsRef => hit = 1
    BY <1>7, <1>8, <2>1
  <2>5. \/ m + 1 < 2 * Measurements /\ m' = m + 1 /\ entries' = entries
        \/ m + 1 >= 2 * Measurements /\ m' = 0 /\ entries' = entries + 1
    BY <1>1 DEF Measure
  <2>6. IsRef <=> m % 2 = 1
    BY DEF IsRef
  <2> HIDE DEF before, after, hit, E
  <2>7. n # entries => after = before /\ before \in Nat
    BY <1>1, <2>2, <2>3
  <2>8. n = entries => after = (m + 2) \div 2
    <3>1. m \in Nat /\ (m % 2 = 0 \/ m % 2 = 1)
      BY <1>1
    <3>2. QED
      BY <2>2, <2>3, <2>4, <2>6, <3>1, HalfStep
  <2>9. m + 1 >= 2 * Measurements => (m + 2) \div 2 = Measurements
    BY <1>1
  <2>10. n \in Nat /\ entries \in Nat
    BY <1>1 DEF E
  <2>11. CASE m + 1 < 2 * Measurements
    <3>1. m' = m + 1 /\ entries' = entries /\ (m' + 1) \div 2 = (m + 2) \div 2
      BY <1>1, <2>5, <2>11
    <3>2. QED
      BY <2>2, <2>7, <2>8, <2>10, <3>1 DEF after
  <2>12. CASE m + 1 >= 2 * Measurements
    <3>1. m' = 0 /\ entries' = entries + 1 /\ (m' + 1) \div 2 = 0
      BY <1>1, <2>5, <2>12
    <3>2. QED
      BY <2>2, <2>7, <2>8, <2>9, <2>10, <2>12, <3>1 DEF after
  <2>13. QED
    BY <1>1, <2>11, <2>12
<1>9. QED
  BY <1>1, <1>4, <1>5, <1>8 DEF CountInv, Kinds

LEMMA NextInv == IInv /\ [Next]_vars => IInv'
<1> SUFFICES ASSUME ListInv, ChaseInv, CountInv, [Next]_vars PROVE IInv'
  BY DEF IInv
\* What the invariants speak of besides the variables does not change.
<1>1. /\ m' = m /\ picked' = picked => IsRef' = IsRef /\ ref' = ref /\ last' = last
      /\ Array' = Array /\ PageHeads' = PageHeads /\ Kinds' = Kinds
  BY DEF IsRef, ref, last, Array, PageHeads, Kinds
<1>2. m' = m /\ out' = out /\ entries' = entries /\ hw' = hw => CountInv'
  BY <1>1 DEF CountInv
<1>3. CASE SelectEntry
  <2>1. pc' = "select" /\ m' = m /\ out' = out /\ entries' = entries /\ hw' = hw
    BY <1>3 DEF SelectEntry
  <2>2. QED
    BY <1>2, <1>3, <2>1, SelectInv DEF IInv, ChaseInv
<1>4. CASE Listed
  <2>1. /\ pc' = "flush" /\ m' = m /\ out' = out /\ entries' = entries /\ hw' = hw
        /\ picked' = picked /\ next' = next /\ pc = "select" /\ Len(picked) = entries + 2
        /\ pref' = IF IsRef THEN ref ELSE last
    BY <1>4 DEF Listed
  <2>2. ListInv'
    BY <1>1, <2>1 DEF ListInv
  <2>3. QED
    BY <1>2, <2>1, <2>2 DEF IInv, ChaseInv
<1>5. CASE FlushAndTouch
  <2>1. /\ pc = "flush" /\ pc' = "chase" /\ m' = m /\ out' = out /\ entries' = entries
        /\ hw' = hw /\ picked' = picked /\ next' = next /\ pref' = pref
        /\ cached' = PageHeads /\ followed' = <<picked[2]>>
    BY <1>5 DEF FlushAndTouch, head
  <2>2. ListInv'
    BY <1>1, <2>1 DEF ListInv
  <2>3. picked[2] \in Array /\ entries \in Nat
    BY <2>1 DEF ListInv
  <2>4. /\ followed' \in Seq(Array) /\ Len(followed') = 1 /\ Len(followed') \in 1..(entries + 1)
        /\ \A k \in 1..Len(followed') : followed'[k] = picked'[k + 1]
    BY <2>1, <2>3
  <2>5. ChaseInv'
    BY <1>1, <2>1, <2>4 DEF ChaseInv
  <2>6. QED
    BY <1>2, <2>1, <2>2, <2>5 DEF IInv
<1>6. CASE Chase
  <2>1. /\ pc = "chase" /\ pc' \in {"chase", "measure"} /\ m' = m /\ out' = out
        /\ entries' = entries /\ hw' = hw /\ picked' = picked /\ next' = next /\ pref' = pref
    BY <1>6 DEF Chase
  <2>2. ListInv'
    BY <1>1, <2>1 DEF ListInv
  <2>3. QED
    BY <1>2, <1>6, <2>1, <2>2, ChaseStep DEF IInv
<1>7. CASE Measure
  <2>1. /\ picked' = <<>> /\ next' = [e \in Array |-> Nil] /\ pc = "measure"
        /\ \/ pc' = "select" /\ entries' = entries
           \/ entries' = entries + 1 /\ pc' = IF entries + 1 < MaxEntries THEN "select" ELSE "done"
    BY <1>7 DEF Measure
  <2>2. picked' \in Seq(Array) /\ Len(picked') = 0 /\ IsInjective(picked')
    BY <2>1 DEF IsInjective
  <2>3. next' \in [Array -> Nat]
    BY <2>1, PointerChaseAssumption DEF Nil
  <2>4. ListInv'
    <3>1. /\ entries \in Nat /\ entries' \in Nat /\ (pc' # "done" => entries' < MaxEntries)
          /\ pc' \in {"select", "done"}
      BY <2>1, PointerChaseAssumption DEF ListInv
    <3>2. \A k \in 2..(Len(picked') - 1) : next'[picked'[k]] = picked'[k + 1]
      BY <2>2
    <3>3. Len(picked') <= entries' + 2
      <4> DEFINE n == entries'
      <4>1. n \in Nat
        BY <3>1
      <4> HIDE DEF n
      <4>2. 0 <= n + 2
        BY <4>1
      <4>3. QED
        BY <2>2, <4>2 DEF n
    <3>4. QED
      BY <1>1, <2>2, <2>3, <3>1, <3>2, <3>3 DEF ListInv
  <2>5. ChaseInv'
    BY <2>1 DEF ChaseInv
  <2>6. QED
    BY <1>7, <2>4, <2>5, HitsStep DEF IInv
<1>8. CASE UNCHANGED vars
  <2>1. /\ pc' = pc /\ m' = m /\ out' = out /\ entries' = entries /\ hw' = hw
        /\ picked' = picked /\ next' = next /\ pref' = pref
        /\ cached' = cached /\ followed' = followed
    BY <1>8 DEF vars
  <2>2. ListInv'
    BY <1>1, <2>1 DEF ListInv
  <2>3. ChaseInv'
    BY <1>1, <2>1 DEF ChaseInv
  <2>4. QED
    BY <1>2, <2>1, <2>2, <2>3 DEF IInv
<1>9. QED
  BY <1>3, <1>4, <1>5, <1>6, <1>7, <1>8 DEF Next, SelectAgain, Ended

LEMMA Invariant == Spec => []IInv
BY InitInv, NextInv, PTL DEF Spec

\* pchase() loads the entries in the order in which init() selected them and
\* arrives at the last one; it never loads a null pointer.
THEOREM ChaseStaysInList == Spec => []ChaseFollowsList
<1>1. IInv => ChaseFollowsList
  <2> SUFFICES ASSUME IInv, pc \in {"chase", "measure"}
               PROVE  /\ IsPrefix(followed, Tail(picked))
                      /\ pc = "measure" => Last(followed) = last
    BY DEF ChaseFollowsList
  <2> DEFINE L == Len(followed)
             t == Tail(picked)
  <2>1. /\ entries \in Nat /\ picked \in Seq(Array) /\ Len(picked) = entries + 2
        /\ followed \in Seq(Array) /\ L \in 1..(entries + 1)
        /\ \A k \in 1..L : followed[k] = picked[k + 1]
        /\ pc = "measure" => L = entries + 1
    BY DEF IInv, ListInv, ChaseInv
  <2>2. t \in Seq(Array) /\ Len(t) = entries + 1 /\ \A k \in 1..(entries + 1) : t[k] = picked[k + 1]
    BY <2>1
  <2>3. \A k \in 1..L : followed[k] = t[k]
    BY <2>1, <2>2
  <2>4. SubSeq(followed, 1, L) = SubSeq(t, 1, L)
    <3>1. SubSeq(followed, 1, L) = [k \in 1..L |-> followed[k]]
      BY <2>1
    <3>2. SubSeq(t, 1, L) = [k \in 1..L |-> t[k]]
      BY <2>1, <2>2
    <3> HIDE DEF L, t
    <3>3. QED
      BY <2>3, <3>1, <3>2
  <2>5. IsPrefix(followed, t)
    BY <2>1, <2>2, <2>4 DEF IsPrefix
  <2>6. pc = "measure" => Last(followed) = last
    BY <2>1 DEF Last, last
  <2>7. QED
    BY <2>5, <2>6
<1>2. QED
  BY <1>1, Invariant, PTL

\* What is measured was not loaded by the chase: the list has no entry twice,
\* its last entry is only arrived at, and the reference is not in it.
THEOREM ChaseSparesMeasured == Spec => []HitMeansPrefetched
<1>1. IInv => HitMeansPrefetched
  <2> SUFFICES ASSUME IInv, pc = "measure", pref \in cached, pref \notin PageHeads
               PROVE  hw = "next" /\ ~IsRef /\ entries > 0
    BY DEF HitMeansPrefetched
  <2>1. /\ entries \in Nat /\ picked \in Seq(Array) /\ Len(picked) = entries + 2
        /\ IsInjective(picked) /\ pref = IF IsRef THEN picked[1] ELSE picked[entries + 2]
        /\ last = picked[entries + 2]
    BY DEF IInv, ListInv, ref, last, Last
  <2>2. \/ pref \in {picked[k] : k \in 2..(entries + 1)}
        \/ hw = "next" /\ entries > 0 /\ pref = last
    BY DEF IInv, ChaseInv
  <2>3. \A a, b \in 1..(entries + 2) : picked[a] = picked[b] => a = b
    BY <2>1 DEF IsInjective
  <2>4. pref \notin {picked[k] : k \in 2..(entries + 1)}
    <3>1. \A k \in 2..(entries + 1) : /\ k \in 1..(entries + 2) /\ 1 \in 1..(entries + 2)
                                      /\ entries + 2 \in 1..(entries + 2)
                                      /\ k # 1 /\ k # entries + 2
      BY <2>1
    <3>2. \A k \in 2..(entries + 1) : picked[k] # picked[1] /\ picked[k] # picked[entries + 2]
      BY <2>3, <3>1
    <3>3. QED
      BY <2>1, <3>2
  <2>5. IsRef => pref # last
    <3>1. 1 \in 1..(entries + 2) /\ entries + 2 \in 1..(entries + 2) /\ 1 # entries + 2
      BY <2>1
    <3>2. QED
      BY <2>1, <2>3, <3>1
  <2>6. QED
    BY <2>2, <2>4, <2>5
<1>2. QED
  BY <1>1, Invariant, PTL

\* A prefetcher that follows pointers is counted in every measurement of every
\* length that is done, but for the empty list.
THEOREM ChaseFindsPrefetcher == Spec => []PrefetcherFound
<1>1. IInv => PrefetcherFound
  BY DEF IInv, CountInv, PrefetcherFound
<1>2. QED
  BY <1>1, Invariant, PTL

===============================================================================
