---------------------------- MODULE MCCardFunding ----------------------------
(***************************************************************************)
(* Instances of CardFunding for TLC.                                       *)
(***************************************************************************)
EXTENDS CardFunding, TLC

Symmetry == Permutations(Instances)
=============================================================================
