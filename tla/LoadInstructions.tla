--------------------------- MODULE LoadInstructions ---------------------------
(***************************************************************************)
(* The pairs of load functions whose addresses agree in a given number of  *)
(* low bits (aligned_maccess.cc).  test_pc_collision of the stride and of  *)
(* the SMS testcase train with one of a pair and trigger with the other.   *)
(*                                                                         *)
(* The functions are placed in the order of the source, each one at the    *)
(* next multiple of its alignment; the loader then moves all of them.      *)
(***************************************************************************)
EXTENDS Naturals

CONSTANTS
  CodeSize,          (* bytes of each function's code                        *)
  LoadBase,          (* where the program is loaded                          *)
  MinBits, MaxBits   (* there are pairs for 5 to 24 bits                     *)

\* With -Os (CMakeLists.txt) a function takes 7 bytes on x86, 11 with endbr64.
ASSUME CodeAssumption ==
  /\ MinBits \in Nat \ {0} /\ MaxBits \in Nat /\ MinBits <= MaxBits /\ LoadBase \in Nat
  /\ CodeSize \in 1..(2 ^ MinBits)

\* The next multiple of the alignment.
Aligned(address, alignment) == ((address + alignment - 1) \div alignment) * alignment

\* The functions with this alignment, the first free address being given.
PairAt(free, alignment) ==
  LET first == Aligned(free, alignment)
  IN  [first |-> first, second |-> Aligned(first + CodeSize, alignment)]

\* maccess_<bits>_1 and maccess_<bits>_2 in the program.
Placed[bits \in MinBits..MaxBits] ==
  PairAt(IF bits = MinBits THEN 0 ELSE Placed[bits - 1].second + CodeSize, 2 ^ bits)

\* The same in memory.
Loaded(pair) == [first |-> LoadBase + pair.first, second |-> LoadBase + pair.second]

get_maccess_functions(bits) == Loaded(Placed[bits])

\* The assertions of get_maccess_functions(), for an alignment of 2^bits: the low
\* bits are equal, the other ones are not, and the lowest of these is not.
CoAligned(pair, alignment) ==
  /\ pair.first % alignment = pair.second % alignment
  /\ pair.first \div alignment # pair.second \div alignment
  /\ (pair.first \div alignment) % 2 # (pair.second \div alignment) % 2

\* In how many low bits do the addresses agree?
CollidingBits(pair) ==
  CHOOSE n \in 0..MaxBits :
    pair.first % 2 ^ n = pair.second % 2 ^ n /\ pair.first % 2 ^ (n + 1) # pair.second % 2 ^ (n + 1)
==============================================================================
