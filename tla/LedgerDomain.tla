---------------------------- MODULE LedgerDomain ----------------------------
(***************************************************************************)
(* The pure part of the ledger, internal/ledger/domain/entry.go: how a     *)
(* list of debit and credit lines becomes a balanced batch, what a line    *)
(* does to an account's running balance, and the reference computation of  *)
(* a balance from entries.  Amounts are int64 minor units, so every sum    *)
(* wraps.                                                                  *)
(***************************************************************************)
EXTENDS Int64Arithmetic, Sequences, FiniteSetsExt

CONSTANTS
  AccountIds,    \* account ids a client may name
  Accounts,      \* those that are rows of ledger_accounts
  DebitNormal    \* those whose normal_balance is debit (assets, expenses)

ASSUME AccountsAssumption == /\ Accounts \subseteq AccountIds
                             /\ IsFiniteSet(Accounts)
                             /\ DebitNormal \subseteq Accounts

EntryTypes == {"debit", "credit"}

\* An EntryRequest: one line of a batch.
Line == [account : AccountIds, type : EntryTypes, amount : Int64]

\* The mathematical and the int64 total of the lines of one type.
ExactTotal(lines, type) ==
  SumFunctionOnSet([i \in DOMAIN lines |-> lines[i].amount],
                   {i \in DOMAIN lines : lines[i].type = type})
Total(lines, type) == Wrap(ExactTotal(lines, type))

(***************************************************************************)
(* BatchBuilder: Debit and Credit accumulate lines and int64 totals, the   *)
(* first error sticks, Build refuses an empty or an unbalanced batch.      *)
(***************************************************************************)
BuildFails(lines) ==
  \/ lines = <<>>
  \/ \E i \in DOMAIN lines : lines[i].amount <= 0
  \/ Total(lines, "debit") # Total(lines, "credit")

Build(lines) ==
  [totalDebits  |-> Total(lines, "debit"),
   totalCredits |-> Total(lines, "credit"),
   entryCount   |-> Len(lines),
   entries      |-> lines]

\* Batch.Validate, called again by the store before it inserts the rows.
Validate(batch) ==
  /\ batch.totalDebits = batch.totalCredits
  /\ Len(batch.entries) = batch.entryCount
  /\ Total(batch.entries, "debit") = batch.totalDebits
  /\ Total(batch.entries, "credit") = batch.totalCredits

(***************************************************************************)
(* A line raises the balance of an account on its normal side and lowers   *)
(* it on the other; CalculateBalance folds that over an account's entries. *)
(***************************************************************************)
NormalBalance(account) == IF account \in DebitNormal THEN "debit" ELSE "credit"

DebitIncreases(line) ==
  IF line.type = "debit" THEN line.amount ELSE -line.amount
Delta(line) ==
  IF line.type = NormalBalance(line.account) THEN line.amount ELSE -line.amount

Apply(balance, line) == Wrap(balance + Delta(line))

\* entries: a set of <<id, line>> pairs, so that equal lines count twice.
CalculateBalance(account, entries) ==
  Wrap(SumFunction([e \in {f \in entries : f[2].account = account} |-> Delta(e[2])]))
=============================================================================
