--------------------------- MODULE MCLedgerAccounts ---------------------------
(***************************************************************************)
(* Instances of LedgerAccounts for TLC: two system codes, of which clients *)
(* may name either, a code that is no system account, and a code that has  *)
(* the path of the one system account below the other.                     *)
(***************************************************************************)
EXTENDS LedgerAccounts, TLC

CONSTANTS assets, revenue, branch

TwoSystemCodes == <<<<assets>>, <<revenue>>>>
FourCodes == {<<assets>>, <<revenue>>, <<branch>>, <<assets, revenue>>}

Symmetry ==
  Permutations(Creators) \cup Permutations(Initializers)
  \cup Permutations(Tenants) \cup Permutations(Currencies)
=============================================================================
