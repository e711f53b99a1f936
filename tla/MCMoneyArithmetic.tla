-------------------------- MODULE MCMoneyArithmetic --------------------------
(***************************************************************************)
(* Instances of MoneyArithmetic for TLC.                                   *)
(***************************************************************************)
EXTENDS MoneyArithmetic, SequencesExt

UpToFour == -1 .. 4
SmallDivisors == {-3, -2, -1, 0, 1, 2, 3, 4, 7, 33, 63}
Points == {0, 1, 3, 5, 9, 10, 13}
\* Some of their sums are zero, are cut off or have more digits than a double.
SmallRatios == SeqOf(0 .. 3, 3) \cup {<<-1, 2, 3>>, <<20, 17>>, <<40, 50>>, <<-60, 27>>}
LeastInt64 == -Int64Half
=============================================================================
