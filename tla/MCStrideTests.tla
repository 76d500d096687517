---------------------------- MODULE MCStrideTests ----------------------------
(***************************************************************************)
(* Experiments and prefetchers for TLC: two pages of twelve lines of four  *)
(* bytes stand for mappings of pages of 64-byte lines.                     *)
(***************************************************************************)
EXTENDS StrideTests

\* Upwards from the beginning and downwards from the last line, as the
\* testcases do, with strides of one line and of seven; and from further in.
LineExperiments ==
  {[stride |-> s * LineSize, step |-> n, first |-> f * LineSize] :
     s \in {1, 7}, n \in {2, 4}, f \in {0, 2}}
  \union
  {[stride |-> -s * LineSize, step |-> n, first |-> f * LineSize] :
     s \in {1, 7}, n \in {2, 4}, f \in {Lines - 1, Lines - 3}}

\* Strides of a fraction of a line (test_stride_less_than_cl_size), one that is
\* no multiple of a line, and accesses that do not start at a line.
SubLineExperiments ==
  {[stride |-> s, step |-> n, first |-> f] : s \in {1, 2, 6, -2}, n \in {1, 5}, f \in {0, 5}}

\* Two strides of a line and one of two lines in a period, in both directions.
PatternExperiments ==
  {[stride |-> sign * LineSize, step |-> n, first |-> IF sign > 0 THEN 0 ELSE (Lines - 1) * LineSize,
    delta |-> sign * LineSize, gap1 |-> 2, gap2 |-> 1, plus |-> p] :
     sign \in {1, -1}, n \in {1, 2}, p \in {0, 2}}
PatternSetups ==
  [exp : {e \in PatternExperiments : e.plus = 0}, variant : {"2D"}, tail : {0}, hw : {"off", "stride"}]
  \union
  [exp : {e \in PatternExperiments : e.plus = 2 /\ e.step = 2}, variant : {"plus", "3D"}, tail : {0},
   hw : {"off", "stride"}]

\* Whole-line strides are collected in all ways, the other ones as in the test;
\* a prefetcher that fetches now and then does so in the one-mapping variants.
TestSetups ==
  PatternSetups
  \union
  [exp : LineExperiments, variant : {"full", "lazy"}, tail : {0}, hw : {"off", "stride"}]
  \union
  UNION {[exp : {e}, variant : {"two"}, tail : {1, 2} \intersect 1..e.step, hw : {"off", "stride"}] :
           e \in {x \in LineExperiments : x.stride > 0}}
  \union
  [exp : SubLineExperiments, variant : {"full"}, tail : {0}, hw : {"off", "stride", "any"}]
  \union
  [exp : {e \in LineExperiments : e.step = 2 /\ Magnitude(e.stride) < 7 * LineSize}, variant : {"full", "lazy"}, tail : {0}, hw : {"any"}]

\* What strides are filed under, and how soon they are followed; and which
\* strides are.
TestKinds ==
  [bits : {0, 2, 5}, area : {FALSE}, confirm : {2, 3}, resume : {1, 2},
   strides : {1..4}, bytes : {FALSE}, crosses : {FALSE}]
  \union
  [bits : {0, 2}, area : {TRUE}, confirm : {3}, resume : {1},
   strides : {1..4}, bytes : {FALSE}, crosses : {FALSE}]
  \union
  [bits : {2}, area : {FALSE}, confirm : {3}, resume : {1},
   strides : {1..4, {2, 3}}, bytes : BOOLEAN, crosses : BOOLEAN]
=============================================================================
