------------------------------ MODULE MCDeposits ------------------------------
(***************************************************************************)
(* Instances of Deposits for TLC; no symmetry, since liveness is checked.  *)
(***************************************************************************)
EXTENDS Deposits
=============================================================================
