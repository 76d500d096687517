--------------------------- MODULE MCPointerArray ---------------------------
(***************************************************************************)
(* The experiments of main() in parr.c with shorter arrays.                *)
(***************************************************************************)
EXTENDS PointerArray

Experiment(p, t, n, from, by, m, b) ==
  [parr |-> p, tarr |-> t, iters |-> n, start |-> from, inc |-> by, measure |-> m, blind |-> b]

\* existence, existence-ref, pc-dependence (which measures two further on), and
\* pointer-array-offset.
Forward ==
  {Experiment(3, 5, 1, 0, 1, m, b) : m \in {1, 2}, b \in BOOLEAN} \union {Experiment(3, 4, 2, 0, 1, 2, FALSE)}

\* backwards: 120 pointers from 121 down, then index 0, which is not the next.
Backward == {Experiment(4, 5, 2, 3, -1, 0, FALSE)}

\* An array that the size check rejects.
TooSmall == {Experiment(3, 1, 1, 0, 1, 1, FALSE)}

\* Arrays that it accepts although they have no entry for the reference.
NoReference == {Experiment(3, t, 1, 0, 1, 1, FALSE) : t \in {2, 3}}

All == Forward \union Backward \union TooSmall \union NoReference
============================================================================
