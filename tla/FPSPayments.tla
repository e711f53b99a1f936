----------------------------- MODULE FPSPayments -----------------------------
(***************************************************************************)
(* The FPS provider: a payment is submitted to the bank over HTTP, the     *)
(* bank reports its progress by webhooks, and a settled payment may be     *)
(* recalled or come back as a return.  Every call and webhook is served by *)
(* a goroutine of its own; they meet in the payment's row, which each      *)
(* statement updates without a condition on its present status.            *)
(*                                                                         *)
(* The bank is external.  Its webhooks are repeated until they are         *)
(* acknowledged, may also be repeated after that, and arrive in any order. *)
(* A request to it may take effect although its answer is lost or late.    *)
(* Payments share nothing, so a single one shows all behaviour.            *)
(***************************************************************************)
EXTENDS Integers, FiniteSets

CONSTANTS
  Payments,     \* calls of Submit, and the payments they create
  Hooks,        \* bound: webhooks being handled at one time
  Recalls,      \* calls of Recall
  Returns,      \* calls of HandleReturn
  Window,       \* fifteen minutes
  MaxClock,     \* bound: the wall clock, in steps of which Window has some
  KeepsIntent,  \* does the store give back the intent's id with a row?
  MarksAccepted, \* is the store the *PostgresStore that handleAccepted asks for?
  MaxCrashes,   \* bound: how often the process dies
  Faults,       \* may statements, requests and publications fail?
  Null

FPSStatus == {"SUBMITTED", "ACCEPTED", "SETTLED", "FAILED", "RECALLED", "RETURNED"}

ASSUME ClockAssumption == Window \in Nat /\ MaxClock \in Nat /\ MaxCrashes \in Nat
ASSUME NullAssumption ==
  Null \notin Int /\ Null \notin [status : FPSStatus, settledAt : Int \cup {Null}]
ASSUME SwitchAssumption ==
  KeepsIntent \in BOOLEAN /\ MarksAccepted \in BOOLEAN /\ Faults \in BOOLEAN

VARIABLES
  clock,
  crashes,
  row,        \* fps_payments: the row of each payment, or Null
  submit,     \* the progress of each submission
  hook,       \* the progress of each webhook handler
  recall,     \* the progress of each recall
  return,     \* the progress of each return
  bank,       \* external: the bank's own status of each payment
  said,       \* external: what it has said of each payment
  settled,    \* external: when it settled each payment
  unacked,    \* external: webhooks it has no answer to
  announced,  \* provider.settlement events that reached the broker
  dropped,    \* settlements that were acknowledged but never announced
  asked,      \* recalls the bank was asked for, with the time
  reversed    \* payments whose chargeback reached the funding service

procVars == <<submit, hook, recall, return>>
bankVars == <<bank, said, settled, unacked>>
outVars == <<announced, dropped, asked, reversed>>
vars == <<clock, crashes, row, procVars, bankVars, outVars>>

Hooked == {"ACCEPTED", "SETTLED", "FAILED"}
Known(p) == row[p] # Null

Init ==
  /\ clock = 0
  /\ crashes = 0
  /\ row = [p \in Payments |-> Null]
  /\ submit = [p \in Payments |-> [at |-> "idle"]]
  /\ hook = [h \in Hooks |-> [at |-> "idle"]]
  /\ recall = [c \in Recalls |-> [at |-> "idle"]]
  /\ return = [n \in Returns |-> [at |-> "idle"]]
  /\ bank = [p \in Payments |-> "none"]
  /\ said = [p \in Payments |-> {}]
  /\ settled = [p \in Payments |-> Null]
  /\ unacked = {}
  /\ announced = {}
  /\ dropped = {}
  /\ asked = {}
  /\ reversed = {}

-----------------------------------------------------------------------------
(***************************************************************************)
(* The updates of a row.  None looks at the status it replaces, and only   *)
(* MarkSettled sets settled_at.                                            *)
(***************************************************************************)
PendingPayment == [status |-> "PENDING", settledAt |-> Null]
NewPayment == [status |-> "SUBMITTED", settledAt |-> Null]
UpdateStatus(p, s) == [row EXCEPT ![p].status = s]
MarkAccepted(p) == UpdateStatus(p, "ACCEPTED")
MarkSettled(p, at) == [row EXCEPT ![p] = [status |-> "SETTLED", settledAt |-> at]]
MarkFailed(p) == UpdateStatus(p, "FAILED")
MarkRecalled(p) == UpdateStatus(p, "RECALLED")
MarkReturned(p) == UpdateStatus(p, "RETURNED")

-----------------------------------------------------------------------------
(***************************************************************************)
(* Submit.                                                                 *)
(***************************************************************************)
To(p, at) == submit' = [submit EXCEPT ![p] = [at |-> at]]

CreateIgnoringError(p) ==
  /\ submit[p].at = "idle"
  /\ row' \in {[row EXCEPT ![p] = NewPayment]} \cup (IF Faults THEN {row} ELSE {})
  /\ To(p, "sending")
  /\ UNCHANGED <<clock, crashes, hook, recall, return, bankVars, outVars>>

\* The record comes first; without it the bank is not called.
Create(p) ==
  /\ submit[p].at = "idle"
  /\ \/ row' = [row EXCEPT ![p] = NewPayment] /\ To(p, "sending")
     \/ /\ Faults
        /\ row' \in {row, [row EXCEPT ![p] = NewPayment]}
        /\ To(p, "refused")
  /\ UNCHANGED <<clock, crashes, hook, recall, return, bankVars, outVars>>

Send(p) ==
  /\ submit[p].at = "sending"
  /\ bank' = [bank EXCEPT ![p] = "sent"]
  /\ To(p, "waiting")
  /\ UNCHANGED <<clock, crashes, row, hook, recall, return, said, settled, unacked, outVars>>

\* The answer tells how far the bank is, which may be further than a webhook
\* that has not yet arrived.
Answered(p) ==
  /\ submit[p].at = "waiting"
  /\ bank[p] \in said[p]
  /\ submit' = [submit EXCEPT ![p] = [at |-> "updating", status |-> bank[p]]]
  /\ UNCHANGED <<clock, crashes, row, hook, recall, return, bankVars, outVars>>

\* A timeout, an HTTP error or an unreadable answer: the bank may or may not
\* have the payment, or get it yet.
SubmitFails(p) ==
  /\ Faults
  /\ submit[p].at = "waiting"
  /\ To(p, "failing")
  /\ UNCHANGED <<clock, crashes, row, hook, recall, return, bankVars, outVars>>

\* The errors of both updates are ignored.
RecordAnswer(p) ==
  /\ submit[p].at = "updating"
  /\ row' \in {UpdateStatus(p, submit[p].status)} \cup (IF Faults THEN {row} ELSE {})
  /\ To(p, "done")
  /\ UNCHANGED <<clock, crashes, hook, recall, return, bankVars, outVars>>

RecordFailure(p) ==
  /\ submit[p].at = "failing"
  /\ \/ row' = MarkFailed(p) /\ To(p, "gaveUp")
     \/ Faults /\ To(p, "done") /\ UNCHANGED row
  /\ UNCHANGED <<clock, crashes, hook, recall, return, bankVars, outVars>>

-----------------------------------------------------------------------------
(***************************************************************************)
(* The bank.                                                               *)
(***************************************************************************)
Moves(s) ==
  CASE s = "sent" -> {"SUBMITTED", "FAILED"}
    [] s = "SUBMITTED" -> {"ACCEPTED", "SETTLED", "FAILED"}
    [] s = "ACCEPTED" -> {"SETTLED", "FAILED"}
    [] s \in {"SETTLED", "RECALLED"} -> {"RETURNED"}
    [] OTHER -> {}

BankMoves(p) ==
  /\ \E s \in Moves(bank[p]) :
       /\ bank' = [bank EXCEPT ![p] = s]
       /\ said' = [said EXCEPT ![p] = @ \cup {s}]
       /\ settled' = IF s = "SETTLED" THEN [settled EXCEPT ![p] = clock] ELSE settled
       /\ unacked' = unacked \cup ({<<p, s>>} \cap (Payments \X Hooked))
  /\ UNCHANGED <<clock, crashes, row, procVars, outVars>>

-----------------------------------------------------------------------------
(***************************************************************************)
(* The webhook handler.  It looks the payment up only to see that it       *)
(* exists; rows are never deleted, so the lookup and the update that       *)
(* follows it are one action.  Whatever becomes of the update and of the   *)
(* event, the webhook is answered 200, and then the bank repeats it no     *)
(* more.                                                                   *)
(***************************************************************************)
Acknowledge(p, s) == unacked' = unacked \ {<<p, s>>}
Drop(p, s) == dropped' = dropped \cup {<<p, s>>}
HookOnTime(h, p, s) == hook[h].at = "idle" /\ s \in said[p] \cap Hooked /\ Known(p)

\* The store's own type decides whether an acceptance is recorded.
HandleAccepted(h, p) ==
  /\ HookOnTime(h, p, "ACCEPTED")
  /\ row' \in (IF MarksAccepted THEN {MarkAccepted(p)} ELSE {row})
              \cup (IF Faults THEN {row} ELSE {})
  /\ Acknowledge(p, "ACCEPTED")
  /\ UNCHANGED <<clock, crashes, procVars, bank, said, settled, outVars>>

\* settled_at is the bank's time, or ours where the payload has none.
Marked(p, s) ==
  IF s = "FAILED" THEN {MarkFailed(p)}
  ELSE {MarkSettled(p, at) : at \in {settled[p], clock}}

AcknowledgeFirst(h, p, s) ==
  /\ s \in {"SETTLED", "FAILED"}
  /\ HookOnTime(h, p, s)
  /\ row' \in Marked(p, s)
  /\ hook' = [hook EXCEPT ![h] = [at |-> "publishing", payment |-> p, status |-> s]]
  /\ Acknowledge(p, s)
  /\ UNCHANGED <<clock, crashes, submit, recall, return, bank, said, settled, outVars>>

HandleFinal(h, p, s) ==
  /\ s \in {"SETTLED", "FAILED"}
  /\ HookOnTime(h, p, s)
  /\ \/ /\ row' \in Marked(p, s)
        /\ hook' = [hook EXCEPT ![h] = [at |-> "publishing", payment |-> p, status |-> s]]
        /\ UNCHANGED <<unacked, dropped>>
     \/ /\ Faults
        /\ row' \in Marked(p, s) \cup {row}
        /\ Drop(p, s)
        /\ Acknowledge(p, s)
        /\ UNCHANGED hook
  /\ UNCHANGED <<clock, crashes, submit, recall, return, bank, said, settled,
                 announced, asked, reversed>>

PublishSettlement(h) ==
  /\ hook[h].at = "publishing"
  /\ LET p == hook[h].payment
         s == hook[h].status
     IN  /\ \/ announced' = announced \cup {<<p, s>>} /\ UNCHANGED dropped
            \/ Faults /\ Drop(p, s) /\ UNCHANGED announced
         /\ Acknowledge(p, s)
  /\ hook' = [hook EXCEPT ![h] = [at |-> "idle"]]
  /\ UNCHANGED <<clock, crashes, row, submit, recall, return, bank, said, settled,
                 asked, reversed>>

Deliver(p, s) ==
  \E h \in Hooks : HandleFinal(h, p, s) \/ (s = "ACCEPTED" /\ HandleAccepted(h, p))

-----------------------------------------------------------------------------
(***************************************************************************)
(* Recall and HandleReturn.                                                *)
(***************************************************************************)
AnyRecallable(p) == Known(p)
Recallable(p) == Known(p) /\ row[p].status = "SETTLED"
\* A row without settled_at, which the answer of Submit leaves when the bank
\* settles at once, has no window.
InWindow(p) == row[p].settledAt # Null => clock - row[p].settledAt <= Window

CheckRecall(c) ==
  /\ recall[c].at = "idle"
  /\ \E p \in Payments :
       /\ Recallable(p)
       /\ InWindow(p)
       /\ recall' = [recall EXCEPT ![c] = [at |-> "asking", payment |-> p]]
  /\ UNCHANGED <<clock, crashes, row, submit, hook, return, bankVars, outVars>>

\* The bank accepts the recall of a payment it has settled, or refuses it, or
\* leaves it pending, of which nothing is recorded.
AskRecall(c) ==
  /\ recall[c].at = "asking"
  /\ LET p == recall[c].payment
     IN  /\ asked' = asked \cup {<<p, clock>>}
         /\ \/ /\ bank[p] = "SETTLED"
               /\ bank' = [bank EXCEPT ![p] = "RECALLED"]
               /\ said' = [said EXCEPT ![p] = @ \cup {"RECALLED"}]
               /\ \/ recall' = [recall EXCEPT ![c].at = "marking"]
                  \/ Faults /\ recall' = [recall EXCEPT ![c] = [at |-> "done"]]
            \/ /\ recall' = [recall EXCEPT ![c] = [at |-> "done"]]
               /\ UNCHANGED <<bank, said>>
  /\ UNCHANGED <<clock, crashes, row, submit, hook, return, settled, unacked,
                 announced, dropped, reversed>>

RecordRecall(c) ==
  /\ recall[c].at = "marking"
  /\ row' \in {MarkRecalled(recall[c].payment)} \cup (IF Faults THEN {row} ELSE {})
  /\ recall' = [recall EXCEPT ![c] = [at |-> "done"]]
  /\ UNCHANGED <<clock, crashes, submit, hook, return, bankVars, outVars>>

\* scanPayment knows no column for the intent.
KnowsIntent(p) == Known(p) /\ KeepsIntent

\* An unexpected status is logged and no more.
HandleReturn(n) ==
  /\ return[n].at = "idle"
  /\ \E p \in Payments :
       /\ "RETURNED" \in said[p]
       /\ \/ /\ Known(p)
             /\ row' = MarkReturned(p)
             /\ return' = [return EXCEPT ![n] =
                  IF KnowsIntent(p) THEN [at |-> "reversing", payment |-> p] ELSE [at |-> "done"]]
          \/ /\ Faults
             /\ row' \in {row} \cup (IF Known(p) THEN {MarkReturned(p)} ELSE {})
             /\ return' = [return EXCEPT ![n] = [at |-> "done"]]
  /\ UNCHANGED <<clock, crashes, submit, hook, recall, bankVars, outVars>>

NotifyFunding(n) ==
  /\ return[n].at = "reversing"
  /\ reversed' \in {reversed \cup {return[n].payment}} \cup (IF Faults THEN {reversed} ELSE {})
  /\ return' = [return EXCEPT ![n] = [at |-> "done"]]
  /\ UNCHANGED <<clock, crashes, row, submit, hook, recall, bankVars,
                 announced, dropped, asked>>

-----------------------------------------------------------------------------
Tick ==
  /\ clock < MaxClock
  /\ clock' = clock + 1
  /\ UNCHANGED <<crashes, row, procVars, bankVars, outVars>>

\* The process dies.  What was sent to the bank stays sent.
Crash ==
  /\ crashes < MaxCrashes
  /\ crashes' = crashes + 1
  /\ submit' = [p \in Payments |->
       IF submit[p].at \in {"idle", "gaveUp"} THEN submit[p] ELSE [at |-> "done"]]
  /\ hook' = [h \in Hooks |-> [at |-> "idle"]]
  /\ recall' = [c \in Recalls |->
       IF recall[c].at = "idle" THEN recall[c] ELSE [at |-> "done"]]
  /\ return' = [n \in Returns |->
       IF return[n].at = "idle" THEN return[n] ELSE [at |-> "done"]]
  /\ UNCHANGED <<clock, row, bankVars, outVars>>

Submit(p) ==
  \/ Create(p) \/ Send(p) \/ Answered(p) \/ SubmitFails(p)
  \/ RecordAnswer(p) \/ RecordFailure(p)

Next ==
  \/ \E p \in Payments : Submit(p) \/ BankMoves(p)
  \/ \E h \in Hooks, p \in Payments :
       HandleAccepted(h, p) \/ \E s \in {"SETTLED", "FAILED"} : HandleFinal(h, p, s)
  \/ \E h \in Hooks : PublishSettlement(h)
  \/ \E c \in Recalls : CheckRecall(c) \/ AskRecall(c) \/ RecordRecall(c)
  \/ \E n \in Returns : HandleReturn(n) \/ NotifyFunding(n)
  \/ Tick
  \/ Crash

\* The bank repeats a webhook until it is answered, and a handler that runs
\* ends.  Hooks is a bound of the model and not of the server, so a webhook
\* that finds a handler free again and again is handled in the end.
Fairness ==
  /\ \A h \in Hooks : WF_vars(PublishSettlement(h))
  /\ \A p \in Payments, s \in {"SETTLED", "FAILED"} :
       SF_vars(<<p, s>> \in unacked /\ Deliver(p, s))

Spec == Init /\ [][Next]_vars
FairSpec == Spec /\ Fairness

-----------------------------------------------------------------------------
(***************************************************************************)
(* Properties.                                                             *)
(***************************************************************************)
\* The variables have the types of their Go and SQL counterparts.
TypeOK ==
  /\ clock \in 0 .. MaxClock
  /\ crashes \in 0 .. MaxCrashes
  /\ row \in [Payments ->
       [status : FPSStatus, settledAt : (0 .. MaxClock) \cup {Null}] \cup {Null}]
  /\ submit \in [Payments ->
       [at : {"idle", "sending", "waiting", "failing", "refused", "done", "gaveUp"}]
       \cup [at : {"updating"}, status : FPSStatus]]
  /\ hook \in [Hooks ->
       [at : {"idle"}]
       \cup [at : {"publishing"}, payment : Payments, status : {"SETTLED", "FAILED"}]]
  /\ recall \in [Recalls ->
       [at : {"idle", "done"}] \cup [at : {"asking", "marking"}, payment : Payments]]
  /\ return \in [Returns ->
       [at : {"idle", "done"}] \cup [at : {"reversing"}, payment : Payments]]
  /\ bank \in [Payments -> FPSStatus \cup {"none", "sent"}]
  /\ said \in [Payments -> SUBSET FPSStatus]
  /\ settled \in [Payments -> (0 .. MaxClock) \cup {Null}]
  /\ unacked \subseteq Payments \X Hooked
  /\ announced \subseteq Payments \X Hooked
  /\ dropped \subseteq Payments \X Hooked
  /\ asked \subseteq Payments \X (0 .. MaxClock)
  /\ reversed \subseteq Payments

\* The bank is never asked to recall a payment that it has not said to be
\* settled, although the row may have been set back or forth meanwhile.
RecallsAreOfSettled ==
  \A a \in asked : "SETTLED" \in said[a[1]]

\* What goroutines hold in their hands and rows show is what the bank has said:
\* the inductive strengthening of the promise below.
HeardFromBank ==
  \A p \in Payments :
    /\ Known(p) =>
         row[p].status \in said[p] \cup {"SUBMITTED"}
           \cup (IF submit[p].at = "gaveUp" THEN {"FAILED"} ELSE {})
    /\ submit[p].at = "updating" => submit[p].status \in said[p]
InHand ==
  /\ \A h \in Hooks : hook[h].at = "publishing" => hook[h].status \in said[hook[h].payment]
  /\ \A c \in Recalls :
       /\ recall[c].at \in {"asking", "marking"} => "SETTLED" \in said[recall[c].payment]
       /\ recall[c].at = "marking" => "RECALLED" \in said[recall[c].payment]
  /\ \A n \in Returns : return[n].at = "reversing" => "RETURNED" \in said[return[n].payment]
\* The bank hears of a payment after its record exists.
RecordedFirst ==
  \A p \in Payments :
    /\ submit[p].at = "idle" => ~Known(p)
    /\ submit[p].at \in {"sending", "waiting", "updating", "failing", "gaveUp"} => Known(p)
    /\ bank[p] # "none" => Known(p) /\ submit[p].at \notin {"idle", "sending"}
    /\ bank[p] = "none" => said[p] = {}
RecordInv == HeardFromBank /\ InHand /\ RecordedFirst /\ RecallsAreOfSettled

\* The provider keeps the promise of BankTransfers: it records before it sends,
\* records and announces only what the bank has said, and reverses only returns,
\* through reordered and repeated webhooks, lost answers and crashes.
Status(p) == IF Known(p) THEN row[p].status ELSE "absent"
Transfers == INSTANCE BankTransfers
               WITH Statuses <- FPSStatus, Failure <- "FAILED",
                    Final <- {"SETTLED", "FAILED"},
                    status <- [p \in Payments |-> Status(p)],
                    givenUp <- {p \in Payments : submit[p].at = "gaveUp"}
ImplementsBankTransfers == Transfers!Spec

\* A settlement or failure the bank reports is announced in the end, unless a
\* statement or a publication failed for it, even if the process dies while
\* handling it.
SettledIsAnnounced ==
  \A p \in Payments, s \in {"SETTLED", "FAILED"} :
    s \in said[p] ~> <<p, s>> \in announced \cup dropped
=============================================================================
