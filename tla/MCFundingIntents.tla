--------------------------- MODULE MCFundingIntents ---------------------------
(***************************************************************************)
(* Instances of FundingIntents for TLC.                                    *)
(***************************************************************************)
EXTENDS FundingIntents, TLC

Symmetry ==
  Permutations(Requests) \cup Permutations(Calls) \cup Permutations(Keys)
  \cup Permutations(Windows) \cup Permutations(Currencies)
=============================================================================
