---------------------------- MODULE CardPayments ----------------------------
(***************************************************************************)
(* The card provider: charges, captures and refunds are requests to the    *)
(* acquirer over NATS, and what the acquirer does comes back as events.    *)
(* The row of a payment is written after the acquirer has answered the     *)
(* charge, and updated without a condition by whoever comes next.          *)
(*                                                                         *)
(* The acquirer is external.  It captures what it has authorised, refunds  *)
(* and charges back what it has captured, and publishes an event for each. *)
(* Events travel over core NATS without a queue group: every instance of   *)
(* the adapter gets every event, at most once, and one that is down misses *)
(* it.  Each subject has a goroutine of its own in each instance, so       *)
(* events of different kinds are handled in any order.  CardFunding adds   *)
(* what the handlers then call.                                            *)
(***************************************************************************)
EXTENDS Integers, FiniteSets

CONSTANTS
  Txns,         \* calls of Charge, each with a transaction id of its own
  Captures,     \* calls of Capture
  Refunds,      \* calls of Refund
  Instances,    \* running adapters
  AutoCapture,  \* config: capture with the authorisation
  CanFail,      \* may statements, requests and deliveries fail?
  None

ASSUME CardSwitches == AutoCapture \in BOOLEAN /\ CanFail \in BOOLEAN

VARIABLES
  row,        \* card_payments: [status, intent] of each transaction, or None
  charge,     \* the progress of each Charge
  capture,    \* the progress of each Capture
  refund,     \* the progress of each Refund
  delivery,   \* where each event is at each instance
  acquirer    \* external: what the acquirer has done with each transaction

cardVars == <<row, charge, capture, refund, delivery, acquirer>>

Status == {"FAILED", "AUTHORISED", "CAPTURED", "REFUNDED", "CHARGEBACK"}
Kinds == {"captured", "refunded", "chargeback"}
Deliveries == Instances \X Kinds \X Txns

CardInit ==
  /\ row = [t \in Txns |-> None]
  /\ charge = [t \in Txns |-> [at |-> "idle"]]
  /\ capture = [c \in Captures |-> [at |-> "idle"]]
  /\ refund = [r \in Refunds |-> [at |-> "idle"]]
  /\ delivery = [d \in Deliveries |-> "none"]
  /\ acquirer = [t \in Txns |-> {}]

-----------------------------------------------------------------------------
\* The updates of a row; where there is no row they change nothing.
Mark(t, status) ==
  IF row[t] = None THEN row ELSE [row EXCEPT ![t].status = status]
MarkCaptured(t) == Mark(t, "CAPTURED")
MarkRefunded(t) == Mark(t, "REFUNDED")
MarkDisputed(t) == Mark(t, "DISPUTED")
MarkChargeback(t) == Mark(t, "CHARGEBACK")

OrUnchanged(changed) == {changed} \cup (IF CanFail THEN {row} ELSE {})

\* What the acquirer does, with the event it publishes to all instances.
Does(t, kind) ==
  /\ acquirer' = [acquirer EXCEPT ![t] = @ \cup {kind}]
  /\ delivery' = [d \in Deliveries |->
       IF d[2] = kind /\ d[3] = t /\ delivery[d] = "none" THEN "pending" ELSE delivery[d]]

-----------------------------------------------------------------------------
(***************************************************************************)
(* Charge.                                                                 *)
(***************************************************************************)
Charge(t, intent) ==
  /\ charge[t].at = "idle"
  /\ charge' = [charge EXCEPT ![t] = [at |-> "requested", intent |-> intent]]
  /\ UNCHANGED <<row, capture, refund, delivery, acquirer>>

\* The acquirer decides; its event may be handled before its answer is read.
Authorize(t) ==
  /\ charge[t].at \in {"requested", "lost"}
  /\ acquirer[t] = {}
  /\ \/ /\ acquirer' = [acquirer EXCEPT ![t] = {"declined"}]
        /\ UNCHANGED delivery
     \/ /\ acquirer' = [acquirer EXCEPT ![t] = {"authorised"} \cup
                          (IF AutoCapture THEN {"captured"} ELSE {})]
        /\ delivery' = [d \in Deliveries |->
             IF AutoCapture /\ d[2] = "captured" /\ d[3] = t THEN "pending" ELSE delivery[d]]
  /\ UNCHANGED <<row, charge, capture, refund>>

\* Without an answer there will be no record, whatever the acquirer does.
ChargeTimesOut(t) ==
  /\ CanFail
  /\ charge[t].at = "requested"
  /\ charge' = [charge EXCEPT ![t] = [at |-> "lost"]]
  /\ UNCHANGED <<row, capture, refund, delivery, acquirer>>

ChargeStatus(t) ==
  IF "declined" \in acquirer[t] THEN "FAILED"
  ELSE IF AutoCapture THEN "CAPTURED" ELSE "AUTHORISED"

\* The error of the insert is logged, and the charge reported as it went.
StorePayment(t) ==
  /\ charge[t].at = "requested"
  /\ acquirer[t] # {}
  /\ row' \in OrUnchanged([row EXCEPT ![t] =
                [status |-> ChargeStatus(t), intent |-> charge[t].intent]])
  /\ charge' = [charge EXCEPT ![t] = [at |-> "done"]]
  /\ UNCHANGED <<capture, refund, delivery, acquirer>>

-----------------------------------------------------------------------------
(***************************************************************************)
(* Capture and Refund: check the row, ask the acquirer, update the row.    *)
(***************************************************************************)
IsKnown(t, status) == row[t] # None
HasStatus(t, status) == row[t] # None /\ row[t].status = status

CheckCapture(c, t) ==
  /\ capture[c].at = "idle"
  /\ HasStatus(t, "AUTHORISED")
  /\ capture' = [capture EXCEPT ![c] = [at |-> "asking", txn |-> t]]
  /\ UNCHANGED <<row, charge, refund, delivery, acquirer>>

AskCapture(c) ==
  /\ capture[c].at = "asking"
  /\ \/ /\ "captured" \notin acquirer[capture[c].txn]
        /\ Does(capture[c].txn, "captured")
        /\ \/ capture' = [capture EXCEPT ![c].at = "marking"]
           \/ CanFail /\ capture' = [capture EXCEPT ![c].at = "done"]
     \/ /\ "captured" \in acquirer[capture[c].txn] \/ CanFail
        /\ capture' = [capture EXCEPT ![c].at = "done"]
        /\ UNCHANGED <<delivery, acquirer>>
  /\ UNCHANGED <<row, charge, refund>>

RecordCapture(c) ==
  /\ capture[c].at = "marking"
  /\ row' \in OrUnchanged(MarkCaptured(capture[c].txn))
  /\ capture' = [capture EXCEPT ![c].at = "done"]
  /\ UNCHANGED <<charge, refund, delivery, acquirer>>

\* The amount is neither compared with the payment's nor summed up.
CheckRefund(r, t) ==
  /\ refund[r].at = "idle"
  /\ HasStatus(t, "CAPTURED")
  /\ refund' = [refund EXCEPT ![r] = [at |-> "asking", txn |-> t]]
  /\ UNCHANGED <<row, charge, capture, delivery, acquirer>>

\* The acquirer may refund in parts, or refuse.
AskRefund(r) ==
  /\ refund[r].at = "asking"
  /\ \/ /\ Does(refund[r].txn, "refunded")
        /\ \/ refund' = [refund EXCEPT ![r].at = "marking"]
           \/ CanFail /\ refund' = [refund EXCEPT ![r].at = "done"]
     \/ /\ refund' = [refund EXCEPT ![r].at = "done"]
        /\ UNCHANGED <<delivery, acquirer>>
  /\ UNCHANGED <<row, charge, capture>>

RecordRefund(r) ==
  /\ refund[r].at = "marking"
  /\ row' \in OrUnchanged(MarkRefunded(refund[r].txn))
  /\ refund' = [refund EXCEPT ![r].at = "done"]
  /\ UNCHANGED <<charge, capture, delivery, acquirer>>

-----------------------------------------------------------------------------
\* The acquirer on its own: a customer disputes a captured payment.
Dispute(t) ==
  /\ "captured" \in acquirer[t]
  /\ "chargeback" \notin acquirer[t]
  /\ Does(t, "chargeback")
  /\ UNCHANGED <<row, charge, capture, refund>>

(***************************************************************************)
(* The event handlers.  The lookup serves to find the intent, which a row  *)
(* keeps as long as it exists, so it is one action with the update.  A     *)
(* capture or chargeback of a payment without a record is logged and       *)
(* forgotten; the error of the update is ignored.                          *)
(***************************************************************************)
HandleUnknown(d) ==
  /\ delivery[d] = "pending"
  /\ row[d[3]] = None \/ CanFail
  /\ delivery' = [delivery EXCEPT ![d] = "done"]
  /\ UNCHANGED <<row, charge, capture, refund, acquirer>>

MarkAs(kind, t) ==
  IF kind = "captured" THEN MarkCaptured(t) ELSE MarkChargeback(t)

\* handleCaptured and handleChargeback, up to the call of the funding service.
HandleKnown(d) ==
  /\ delivery[d] = "pending"
  /\ d[2] # "refunded"
  /\ row[d[3]] # None
  /\ row' \in OrUnchanged(MarkAs(d[2], d[3]))
  /\ delivery' = [delivery EXCEPT ![d] = "notifying"]
  /\ UNCHANGED <<charge, capture, refund, acquirer>>

HandleRefunded(d) ==
  /\ delivery[d] = "pending"
  /\ d[2] = "refunded"
  /\ row' \in OrUnchanged(MarkRefunded(d[3]))
  /\ delivery' = [delivery EXCEPT ![d] = "done"]
  /\ UNCHANGED <<charge, capture, refund, acquirer>>

\* An instance that is down, or too slow, misses an event.
Miss(d) ==
  /\ CanFail
  /\ delivery[d] = "pending"
  /\ delivery' = [delivery EXCEPT ![d] = "done"]
  /\ UNCHANGED <<row, charge, capture, refund, acquirer>>

CardTypeOK(IntentIds) ==
  /\ row \in [Txns -> [status : Status, intent : IntentIds] \cup {None}]
  /\ charge \in [Txns ->
       [at : {"idle", "lost", "done"}] \cup [at : {"requested"}, intent : IntentIds]]
  /\ capture \in [Captures ->
       [at : {"idle"}] \cup [at : {"asking", "marking", "done"}, txn : Txns]]
  /\ refund \in [Refunds ->
       [at : {"idle"}] \cup [at : {"asking", "marking", "done"}, txn : Txns]]
  /\ delivery \in [Deliveries -> {"none", "pending", "notifying", "done"}]
  /\ acquirer \in [Txns -> SUBSET (Kinds \cup {"authorised", "declined"})]
=============================================================================
