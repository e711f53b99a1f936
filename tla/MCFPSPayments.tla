---------------------------- MODULE MCFPSPayments ----------------------------
(***************************************************************************)
(* Instances of FPSPayments for TLC.  The run checks a liveness property,  *)
(* so no symmetry is used.                                                 *)
(***************************************************************************)
EXTENDS FPSPayments
=============================================================================
