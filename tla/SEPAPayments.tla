---------------------------- MODULE SEPAPayments ----------------------------
(***************************************************************************)
(* The SEPA provider without its report files: submission to the bank,     *)
(* recall and return.  The code is that of FPS with other columns, but     *)
(* there are no webhooks: what the bank does with a payment is learnt from *)
(* the answer of Submit and from the files that SEPAReports ingests.       *)
(*                                                                         *)
(* A recall may also be asked for a payment that is only accepted, and one *)
(* the bank leaves pending is recorded like one it accepts: the status     *)
(* RECALLED means that the bank has taken the recall on.  Time is left     *)
(* out: the ten days in which a recall is allowed may be over or not.      *)
(***************************************************************************)
EXTENDS Integers, Sequences, FiniteSets

CONSTANTS
  Payments,     \* calls of Submit, and the payments they create
  Recalls,      \* calls of Recall
  Returns,      \* calls of HandleReturn
  KeepsIntent,  \* does the store give back the intent's id with a row?
  Faults,       \* may statements, requests and publications fail?
  Null

ASSUME SwitchAssumption == KeepsIntent \in BOOLEAN /\ Faults \in BOOLEAN

VARIABLES
  row,       \* sepa_payments: the status of each payment, or "absent"
  submit,    \* the progress of each submission
  recall,    \* the progress of each recall
  return,    \* the progress of each return
  bank,      \* external: the bank's own status of each payment
  said,      \* external: what it has said of each payment
  reversed   \* payments whose chargeback reached the funding service

procVars == <<submit, recall, return>>
payVars == <<row, procVars, bank, said, reversed>>

SEPAStatus == {"SUBMITTED", "ACCEPTED", "REJECTED", "SETTLED", "RECALLED", "RETURNED"}
NotFound == "absent"

\* A statement of the database: its effect on the row, or an error with or
\* without that effect.
OrFails(changed) == {changed} \cup (IF Faults THEN {row} ELSE {})

PayInit ==
  /\ row = [p \in Payments |-> NotFound]
  /\ submit = [p \in Payments |-> [at |-> "idle"]]
  /\ recall = [c \in Recalls |-> [at |-> "idle"]]
  /\ return = [n \in Returns |-> [at |-> "idle"]]
  /\ bank = [p \in Payments |-> "none"]
  /\ said = [p \in Payments |-> {}]
  /\ reversed = {}

UpdateStatus(p, s) == [row EXCEPT ![p] = s]
MarkAsFailed(p) == UpdateStatus(p, "FAILED")
MarkRejected(p) == UpdateStatus(p, "REJECTED")
MarkRecalled(p) == UpdateStatus(p, "RECALLED")
MarkReturned(p) == UpdateStatus(p, "RETURNED")

-----------------------------------------------------------------------------
(***************************************************************************)
(* Submit.                                                                 *)
(***************************************************************************)
To(p, at) == submit' = [submit EXCEPT ![p] = [at |-> at]]

CreateIgnoringError(p) ==
  /\ submit[p].at = "idle"
  /\ row' \in OrFails(UpdateStatus(p, "SUBMITTED"))
  /\ To(p, "sending")
  /\ UNCHANGED <<recall, return, bank, said, reversed>>
Create(p) ==
  /\ submit[p].at = "idle"
  /\ \/ row' = UpdateStatus(p, "SUBMITTED") /\ To(p, "sending")
     \/ Faults /\ row' \in OrFails(UpdateStatus(p, "SUBMITTED")) /\ To(p, "done")
  /\ UNCHANGED <<recall, return, bank, said, reversed>>

Send(p) ==
  /\ submit[p].at = "sending"
  /\ bank' = [bank EXCEPT ![p] = "sent"]
  /\ To(p, "waiting")
  /\ UNCHANGED <<row, recall, return, said, reversed>>

Answered(p) ==
  /\ submit[p].at = "waiting"
  /\ bank[p] \in said[p]
  /\ submit' = [submit EXCEPT ![p] = [at |-> "updating", status |-> bank[p]]]
  /\ UNCHANGED <<row, recall, return, bank, said, reversed>>

\* The bank may have the payment, or get it yet.
SubmitFails(p) ==
  /\ Faults
  /\ submit[p].at = "waiting"
  /\ To(p, "failing")
  /\ UNCHANGED <<row, recall, return, bank, said, reversed>>

RecordAnswer(p) ==
  /\ submit[p].at = "updating"
  /\ row' \in OrFails(UpdateStatus(p, submit[p].status))
  /\ To(p, "done")
  /\ UNCHANGED <<recall, return, bank, said, reversed>>

RecordFailure(p) ==
  /\ submit[p].at = "failing"
  /\ \/ row' = MarkRejected(p) /\ To(p, "gaveUp")
     \/ Faults /\ To(p, "done") /\ UNCHANGED row
  /\ UNCHANGED <<recall, return, bank, said, reversed>>

-----------------------------------------------------------------------------
\* The bank.
Moves(s) ==
  CASE s = "sent" -> {"SUBMITTED", "REJECTED"}
    [] s = "SUBMITTED" -> {"ACCEPTED", "REJECTED"}
    [] s = "ACCEPTED" -> {"SETTLED", "REJECTED"}
    [] s \in {"SETTLED", "RECALLED"} -> {"RETURNED"}
    [] OTHER -> {}

BankMoves(p) ==
  /\ \E s \in Moves(bank[p]) :
       /\ bank' = [bank EXCEPT ![p] = s]
       /\ said' = [said EXCEPT ![p] = @ \cup {s}]
  /\ UNCHANGED <<row, procVars, reversed>>

-----------------------------------------------------------------------------
(***************************************************************************)
(* Recall and HandleReturn.                                                *)
(***************************************************************************)
Recallable(p) == row[p] \in {"SETTLED", "ACCEPTED"}

CheckRecall(c) ==
  /\ recall[c].at = "idle"
  /\ \E p \in Payments :
       /\ Recallable(p)
       /\ recall' = [recall EXCEPT ![c] = [at |-> "asking", payment |-> p]]
  /\ UNCHANGED <<row, submit, return, bank, said, reversed>>

\* The bank takes the recall on, at once or as pending, or refuses it.
AskRecall(c) ==
  /\ recall[c].at = "asking"
  /\ LET p == recall[c].payment
     IN  \/ /\ bank[p] \in {"ACCEPTED", "SETTLED"}
            /\ bank' \in {bank, [bank EXCEPT ![p] = "RECALLED"]}
            /\ said' = [said EXCEPT ![p] = @ \cup {"RECALLED"}]
            /\ \/ recall' = [recall EXCEPT ![c].at = "marking"]
               \/ Faults /\ recall' = [recall EXCEPT ![c] = [at |-> "done"]]
         \/ /\ recall' = [recall EXCEPT ![c] = [at |-> "done"]]
            /\ UNCHANGED <<bank, said>>
  /\ UNCHANGED <<row, submit, return, reversed>>

RecordRecall(c) ==
  /\ recall[c].at = "marking"
  /\ row' \in OrFails(MarkRecalled(recall[c].payment))
  /\ recall' = [recall EXCEPT ![c] = [at |-> "done"]]
  /\ UNCHANGED <<submit, return, bank, said, reversed>>

\* scanPayment knows no column for the intent.
KnowsIntent(p) == row[p] # NotFound /\ KeepsIntent

HandleReturn(n) ==
  /\ return[n].at = "idle"
  /\ \E p \in Payments :
       /\ "RETURNED" \in said[p]
       /\ \/ /\ row[p] # NotFound
             /\ row' = MarkReturned(p)
             /\ return' = [return EXCEPT ![n] =
                  IF KnowsIntent(p) THEN [at |-> "reversing", payment |-> p] ELSE [at |-> "done"]]
          \/ /\ Faults
             /\ row' \in {row} \cup (IF row[p] # NotFound THEN {MarkReturned(p)} ELSE {})
             /\ return' = [return EXCEPT ![n] = [at |-> "done"]]
  /\ UNCHANGED <<submit, recall, bank, said, reversed>>

NotifyFunding(n) ==
  /\ return[n].at = "reversing"
  /\ reversed' \in {reversed \cup {return[n].payment}} \cup (IF Faults THEN {reversed} ELSE {})
  /\ return' = [return EXCEPT ![n] = [at |-> "done"]]
  /\ UNCHANGED <<row, submit, recall, bank, said>>

-----------------------------------------------------------------------------
\* The process dies: these calls are lost.
PayCrash ==
  /\ submit' = [p \in Payments |->
       IF submit[p].at \in {"idle", "gaveUp"} THEN submit[p] ELSE [at |-> "done"]]
  /\ recall' = [c \in Recalls |->
       IF recall[c].at = "idle" THEN recall[c] ELSE [at |-> "done"]]
  /\ return' = [n \in Returns |->
       IF return[n].at = "idle" THEN return[n] ELSE [at |-> "done"]]
  /\ UNCHANGED <<row, bank, said, reversed>>

Submit(p) ==
  \/ Create(p) \/ Send(p) \/ Answered(p) \/ SubmitFails(p)
  \/ RecordAnswer(p) \/ RecordFailure(p)

PayNext ==
  \/ \E p \in Payments : Submit(p) \/ BankMoves(p)
  \/ \E c \in Recalls : CheckRecall(c) \/ AskRecall(c) \/ RecordRecall(c)
  \/ \E n \in Returns : HandleReturn(n) \/ NotifyFunding(n)

PayTypeOK ==
  /\ row \in [Payments -> SEPAStatus \cup {NotFound}]
  /\ submit \in [Payments ->
       [at : {"idle", "sending", "waiting", "failing", "done", "gaveUp"}]
       \cup [at : {"updating"}, status : SEPAStatus]]
  /\ recall \in [Recalls ->
       [at : {"idle", "done"}] \cup [at : {"asking", "marking"}, payment : Payments]]
  /\ return \in [Returns ->
       [at : {"idle", "done"}] \cup [at : {"reversing"}, payment : Payments]]
  /\ bank \in [Payments -> SEPAStatus \cup {"none", "sent"}]
  /\ said \in [Payments -> SUBSET SEPAStatus]
  /\ reversed \subseteq Payments
=============================================================================
