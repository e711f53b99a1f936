---------------------------- MODULE MCSEPAReports ----------------------------
(***************************************************************************)
(* Instances of SEPAReports for TLC.                                       *)
(***************************************************************************)
EXTENDS SEPAReports, TLC

CONSTANTS p1, accepted, rejected, statement

Pain(p, code) == [payment |-> p, code |-> code]
Camt(p, sts, ind) == [payment |-> p, sts |-> sts, ind |-> ind]

\* A status report with two lines on one payment, one that rejects, and a
\* statement that also has a payment of somebody else and mentions the other
\* type in its text.
ThreeFiles ==
  accepted :> [type |-> "pain.002", mentions |-> {"pain.002"}, readable |-> TRUE,
               lines |-> <<Pain(p1, "PDNG"), Pain(p1, "ACCP")>>]
  @@ rejected :> [type |-> "pain.002", mentions |-> {"pain.002"}, readable |-> TRUE,
                  lines |-> <<Pain(p1, "RJCT")>>]
  @@ statement :> [type |-> "camt.053", mentions |-> {"camt.053", "pain.002"},
                   readable |-> TRUE,
                   lines |-> <<Camt(Foreign, "BOOK", "DBIT"), Camt(p1, "PDNG", "DBIT"),
                               Camt(p1, "BOOK", "DBIT")>>]

Symmetry == Permutations(Ingesters)
=============================================================================
