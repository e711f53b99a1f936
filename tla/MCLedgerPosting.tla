--------------------------- MODULE MCLedgerPosting ---------------------------
(***************************************************************************)
(* Instances of LedgerPosting for TLC: a cash account on the debit side,   *)
(* three customer accounts on the credit side, an account id that no row   *)
(* has, and the line lists clients submit.                                 *)
(***************************************************************************)
EXTENDS LedgerPosting, TLC

CONSTANTS cash, alice, bob, carol, ghost

Dr(account, n) == [account |-> account, type |-> "debit", amount |-> n]
Cr(account, n) == [account |-> account, type |-> "credit", amount |-> n]

\* A deposit, payments between customers, and a split deposit that touches
\* one account twice.
Deposit == <<Dr(cash, 1), Cr(alice, 1)>>
Payout == <<Dr(carol, 1), Cr(bob, 1)>>
Transfer == <<Dr(alice, 2), Cr(bob, 2)>>
SplitDeposit == <<Dr(cash, 3), Cr(alice, 2), Cr(alice, 1)>>

\* Requests refused by the handler, by the builder and by a foreign key.
OneSided == <<Dr(cash, 1)>>
Unbalanced == <<Dr(cash, 2), Cr(alice, 1)>>
UnknownAccount == <<Dr(cash, 1), Cr(ghost, 1)>>

FaultyInputs == {Deposit, SplitDeposit, OneSided, Unbalanced, UnknownAccount}
ProgressInputs == {Deposit, Payout}
TwoInputs == {Deposit, Transfer}
DepositOnly == {Deposit}

RequestSymmetry == Permutations(Requests)
=============================================================================
