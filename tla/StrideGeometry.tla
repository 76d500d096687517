--------------------------- MODULE StrideGeometry ---------------------------
(***************************************************************************)
(* Which bytes and cache lines of a mapping a stride experiment accesses,  *)
(* and which ones a stride prefetcher could fetch after it (the helper     *)
(* functions at the top of testcase_stride_strideexperiment.cc).           *)
(*                                                                         *)
(* An experiment is a record: stride in bytes (negative: downwards), step  *)
(* (how many accesses), first (offset of the first one).  Offsets count    *)
(* from the beginning of the mapping.                                      *)
(*                                                                         *)
(* A pattern is an experiment with a second stride: each of its step       *)
(* periods has gap1 strides and gap2 strides that are delta longer.        *)
(***************************************************************************)
EXTENDS Integers

CONSTANT LineSize   (* CACHE_LINE_SIZE *)

ASSUME LineSizeAssumption == LineSize \in Nat \ {0}

\* Experiments as the testcases construct them.
IsExperiment(e) ==
  /\ e.stride \in Int \ {0}
  /\ e.step \in Nat \ {0}
  /\ e.first \in Nat

\* Integer division and remainder of C++: the quotient is truncated towards 0.
Magnitude(a) == IF a < 0 THEN -a ELSE a
CQuotient(a, b) ==
  LET q == Magnitude(a) \div Magnitude(b) IN IF (a < 0) <=> (b < 0) THEN q ELSE -q
CRemainder(a, b) == a - b * CQuotient(a, b)

\* Does the experiment access the byte at this offset?
offset_accessed(e, offset) ==
  LET normalized == offset - e.first
      at == CQuotient(normalized, e.stride)
  IN  CRemainder(normalized, e.stride) = 0 /\ at >= 0 /\ at < e.step

\* Would it, if it went on for ever?
offset_potential_prefetch(e, offset) ==
  LET normalized == offset - e.first
      at == CQuotient(normalized, e.stride)
  IN  CRemainder(normalized, e.stride) = 0 /\ at >= 0 /\ at >= e.step

\* The offsets in a cache line.
Bytes(cl) == (cl * LineSize)..((cl + 1) * LineSize - 1)

cl_accessed(e, cl) == \E offset \in Bytes(cl) : offset_accessed(e, offset)

\* Lines that the experiment accesses itself do not count, which needs a look
\* only when several accesses can fall into one line.
cl_potential_prefetch(e, cl) ==
  \E offset \in Bytes(cl) :
    /\ offset_potential_prefetch(e, offset)
    /\ e.stride >= LineSize \/ ~cl_accessed(e, cl)

\* Faulty variant of AssertsHold: only the first access is looked at.
AssertsHoldFirst(e, size) == 0 <= e.first /\ e.first < size

\* get_ptr_begin() and get_ptr_end() - stride, the first and the last access,
\* lie in a mapping of this size: what collect_cache_histogram() asserts.
AssertsHold(e, size) ==
  /\ 0 <= e.first /\ e.first < size
  /\ 0 <= e.first + e.stride * e.step - e.stride
  /\ e.first + e.stride * e.step - e.stride < size

\* workload_stride_loop(): from begin to end, in steps of stride.
Accesses(e) == {e.first + i * e.stride : i \in 0..(e.step - 1)}

\* The line of an offset.
LineOf(offset) == offset \div LineSize

------------------------------------------------------------------------------
\* Patterns: the overloads with delta, gap1 and gap2

\* The length of a period.
Period(e) == e.gap1 * e.stride + e.gap2 * (e.stride + e.delta)

IsPattern(e) ==
  /\ IsExperiment(e)
  /\ e.delta \in Int /\ e.gap1 \in Nat /\ e.gap2 \in Nat
  /\ Period(e) # 0

\* How far from its beginning the i-th access of a period is, for i up to
\* gap1 + gap2.
InPeriod(e, i) ==
  IF i <= e.gap1 THEN i * e.stride ELSE e.gap1 * e.stride + (i - e.gap1) * (e.stride + e.delta)

\* Is the distance from the first access one that a period has?
is_multiple_of_stride(e, normalized) ==
  \E i \in 0..(e.gap1 + e.gap2 - 1) :
    Magnitude(normalized) % Magnitude(Period(e)) = Magnitude(InPeriod(e, i))

\* The last access of a period belongs to it, hence the -1.
offset_accessed_2D(e, offset) ==
  LET normalized == offset - e.first
      at == CQuotient(IF normalized > 1 THEN normalized - 1 ELSE normalized, Period(e))
  IN  is_multiple_of_stride(e, normalized) /\ at >= 0 /\ at < e.step

offset_potential_prefetch_2D(e, offset) ==
  LET normalized == offset - e.first
      at == CQuotient(normalized, Period(e))
  IN  is_multiple_of_stride(e, normalized) /\ at >= 0 /\ at >= e.step

\* workload_2Dstride_loop(): the beginning and the accesses of each period; the
\* end of a period is the beginning of the next one.
PatternAccesses(e) ==
  {e.first + n * Period(e) + InPeriod(e, i) : n \in 0..(e.step - 1), i \in 0..(e.gap1 + e.gap2)}

\* workload_2Dstride_loop_plus(): plus more strides behind the last period.
PlusAccesses(e) ==
  PatternAccesses(e) \union {e.first + e.step * Period(e) + i * e.stride : i \in 1..e.plus}

\* workload_3Dstride_loop(): each period ends with a third stride (stride3).
Period3(e) == Period(e) + 3 * LineSize
Accesses3D(e) ==
  {e.first + n * Period3(e) + InPeriod(e, i) : n \in 0..(e.step - 1), i \in 0..(e.gap1 + e.gap2)}
    \union {e.first + e.step * Period3(e)}
==============================================================================
