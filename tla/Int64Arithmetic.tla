-------------------------- MODULE Int64Arithmetic --------------------------
(***************************************************************************)
(* Go's int64, in which package money and the ledger count minor units:    *)
(* every result is cut off to the width of a word.  Int64Half is 2^63 in   *)
(* the program and small in a model.                                       *)
(***************************************************************************)
EXTENDS Integers

CONSTANT Int64Half  \* an int64 ranges over -Int64Half .. Int64Half - 1

ASSUME Int64Assumption == Int64Half \in Nat \ {0}

Int64 == -Int64Half .. (Int64Half - 1)

\* What int64 arithmetic leaves of the mathematical result n.
NoWrap(n) == n
Wrap(n) == ((n + Int64Half) % (2 * Int64Half)) - Int64Half
=============================================================================
