---------------------------- MODULE PointerChase ----------------------------
(***************************************************************************)
(* The external program of the pchase testcase (pchase.c and its           *)
(* assembly): for each length, a linked list in random order is built,     *)
(* flushed and followed, and then either its last entry or, as reference,  *)
(* an entry outside of it is measured.                                     *)
(***************************************************************************)
EXTENDS Naturals, FiniteSets, SequencesExt

CONSTANTS
  Count,         (* ENTRIES_COUNT                                     *)
  MaxEntries,    (* the lengths are less than ENTRIES_COUNT / 10      *)
  Measurements,  (* measurements of each kind per length              *)
  PageEntries,   (* entries in a page: 32                             *)
  Hardware       (* prefetchers: "off", "next"                        *)

ASSUME PointerChaseAssumption ==
  /\ Count \in Nat /\ MaxEntries \in Nat \ {0} /\ Measurements \in Nat \ {0}
  /\ MaxEntries + 1 <= Count   (* a tenth of the entries, and there are many *)
  /\ PageEntries \in Nat \ {0}
  /\ Hardware \subseteq {"off", "next"}

VARIABLES
  hw,          (* the prefetcher of the machine                                 *)
  pc,          (* where the program is                                          *)
  entries,     (* length of the list                                            *)
  m,           (* measurement of this length; the odd ones are references       *)
  picked,      (* what select_entry() returned: ref, head, then the list        *)
  next,        (* the next pointers that are set                                *)
  pref,        (* the entry that is measured                                    *)
  cached,      (* entries in the cache                                          *)
  followed,    (* entries that the chase loaded, and where it arrived           *)
  out          (* per length and kind: hits                                     *)

vars == <<hw, pc, entries, m, picked, next, pref, cached, followed, out>>

Array == 0..(Count - 1)
Nil == Count
Kinds == {"mes", "ref"}
IsRef == m % 2 = 1

\* The local variables ref, head and last of init().
ref == picked[1]
head == picked[2]
last == Last(picked)

Init ==
  /\ hw \in Hardware
  /\ pc = "select"
  /\ entries = 0 /\ m = 0
  /\ picked = <<>>
  /\ next = [e \in Array |-> Nil]
  /\ pref = Nil
  /\ cached = {}
  /\ followed = <<>>
  /\ out = [n \in 0..(MaxEntries - 1) |-> [kind \in Kinds |-> 0]]

\* Faulty variant of SelectEntry: an entry may be selected again.
SelectEntryAgain ==
  /\ pc = "select" /\ Len(picked) < entries + 2
  /\ \E e \in Array :
       /\ picked' = Append(picked, e)
       /\ next' = IF Len(picked) >= 2 THEN [next EXCEPT ![last] = e] ELSE next
  /\ UNCHANGED <<hw, pc, entries, m, pref, cached, followed, out>>

\* select_entry() for the reference, the head and each entry of the list, which
\* the one before it points to.
SelectEntry ==
  /\ pc = "select" /\ Len(picked) < entries + 2
  /\ \E e \in Array \ ToSet(picked) :
       /\ picked' = Append(picked, e)
       /\ next' = IF Len(picked) >= 2 THEN [next EXCEPT ![last] = e] ELSE next
  /\ UNCHANGED <<hw, pc, entries, m, pref, cached, followed, out>>

\* rand() hits an entry that is selected.
SelectAgain ==
  /\ pc = "select" /\ Len(picked) < entries + 2
  /\ picked # <<>>
  /\ UNCHANGED vars

\* Faulty variant of Listed: the two kinds are swapped.
ListedSwapped ==
  /\ pc = "select" /\ Len(picked) = entries + 2
  /\ pref' = IF IsRef THEN last ELSE ref
  /\ pc' = "flush"
  /\ UNCHANGED <<hw, entries, m, picked, next, cached, followed, out>>

\* The rest of init().
Listed ==
  /\ pc = "select" /\ Len(picked) = entries + 2
  /\ pref' = IF IsRef THEN ref ELSE last
  /\ pc' = "flush"
  /\ UNCHANGED <<hw, entries, m, picked, next, cached, followed, out>>

PageHeads == {e \in Array : e % PageEntries = 0}

\* Faulty variant of FlushAndTouch: thrash_cache() is left out.
FlushForgotten ==
  /\ pc = "flush"
  /\ cached' = cached \union PageHeads
  /\ followed' = <<head>>
  /\ pc' = "chase"
  /\ UNCHANGED <<hw, entries, m, picked, next, pref, out>>

\* thrash_cache() and access_pages(); pchase() begins at the head.
FlushAndTouch ==
  /\ pc = "flush"
  /\ cached' = PageHeads
  /\ followed' = <<head>>
  /\ pc' = "chase"
  /\ UNCHANGED <<hw, entries, m, picked, next, pref, out>>

\* pchase() loads the next pointer of one entry after the other, `entries`
\* times; a prefetcher that recognises pointers may then fetch what the last one
\* points to.
Chase ==
  /\ pc = "chase"
  /\ IF Len(followed) <= entries
     THEN /\ cached' = cached \union {Last(followed)}
          /\ followed' = Append(followed, next[Last(followed)])
          /\ UNCHANGED pc
     ELSE /\ cached' = IF hw = "next" /\ entries > 0
                       THEN cached \union {Last(followed)} ELSE cached
          /\ pc' = "measure"
          /\ UNCHANGED followed
  /\ UNCHANGED <<hw, entries, m, picked, next, pref, out>>

\* One load is timed; the next measurement, or the next length, starts with a
\* cleared array.
Measure ==
  /\ pc = "measure"
  /\ LET kind == IF IsRef THEN "ref" ELSE "mes"
     IN  out' = [out EXCEPT ![entries][kind] = @ + IF pref \in cached THEN 1 ELSE 0]
  /\ picked' = <<>>
  /\ next' = [e \in Array |-> Nil]
  /\ IF m + 1 < 2 * Measurements
     THEN m' = m + 1 /\ pc' = "select" /\ UNCHANGED entries
     ELSE /\ m' = 0 /\ entries' = entries + 1
          /\ pc' = IF entries + 1 < MaxEntries THEN "select" ELSE "done"
  /\ UNCHANGED <<hw, pref, cached, followed>>

Ended == pc = "done" /\ UNCHANGED vars

Next ==
  \/ SelectEntry \/ SelectAgain \/ Listed \/ FlushAndTouch \/ Chase \/ Measure \/ Ended

Spec == Init /\ [][Next]_vars

------------------------------------------------------------------------------
\* Properties

\* The chase stays in the list: it loads the entries in the order in which they
\* were selected, never a null pointer, and arrives at the last one.
ChaseFollowsList ==
  pc \in {"chase", "measure"} =>
    /\ IsPrefix(followed, Tail(picked))
    /\ pc = "measure" => Last(followed) = last

\* A reference hits only at the beginning of a page, a measurement there or
\* because of the prefetcher: the chase itself never loads what is measured.
HitMeansPrefetched ==
  pc = "measure" /\ pref \in cached =>
    pref \in PageHeads \/ (hw = "next" /\ ~IsRef /\ entries > 0)

\* A prefetcher that follows pointers shows in every measurement of every
\* length but the empty one.
PrefetcherFound ==
  hw = "next" =>
    \A n \in 1..(MaxEntries - 1) :
      n < entries => out[n]["mes"] = Measurements
=============================================================================
