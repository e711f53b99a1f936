----------------------------- MODULE CardFunding -----------------------------
(***************************************************************************)
(* The card provider together with the funding service: an intent is       *)
(* charged to a card, and the handlers of the acquirer's events report     *)
(* captures and chargebacks to the service, which runs in the same         *)
(* process.  A delivery of an event to an instance is thus a call of the   *)
(* funding service, and the calls of FundingIntents are these deliveries.  *)
(* Nothing in the repository calls Charge; it may be called for any intent *)
(* that is stored, which the foreign key of card_payments demands.  The    *)
(* intents are taken to be stored already, as FundingIntents creates them: *)
(* pending where a bank has initiated their payment, and else created.     *)
(*                                                                         *)
(* The death of an instance is not an action of its own: its calls end     *)
(* like calls that fail at their next step, and its events are missed.     *)
(***************************************************************************)
EXTENDS CardPayments, Sequences

CONSTANTS
  Requests,   \* the intents, by the request that created them
  Amounts, Currencies, Methods, Windows, Tenant

ASSUME NoneAssumption == None \notin [status : Status, intent : Requests]

VARIABLES intents, request, call, bank, postings, published
fundingVars == <<intents, request, call, bank, postings, published>>
vars == <<cardVars, fundingVars>>

ASSUME FiniteAssumption == IsFiniteSet(Instances) /\ IsFiniteSet(Txns)

Calls == {d \in Deliveries : d[2] # "refunded"}
Funding == INSTANCE FundingIntents
             WITH Tenants <- {Tenant}, DefaultTenant <- Tenant, Keys <- Requests,
                  Null <- None, Faults <- CanFail
\* What FundingIntents assumes of its constants, where it is not plain here.
ASSUME FundingAssumption ==
  /\ Amounts \subseteq Int
  /\ Methods \subseteq {"OPEN_BANKING", "SEPA", "FPS", "CARD"}
  /\ None \notin [id : Requests, tenant : {Tenant}, key : Requests, amount : Amounts,
                  currency : Currencies, method : Methods, status : Funding!Status,
                  batch : Nat, reference : Windows \cup {None}]
  /\ None \notin Funding!Credit

\* What CreateIntent leaves behind, each request having a key of its own.
Created(r, amount, currency, method, window) ==
  [Funding!NewFundingIntent(r, Tenant, r, amount, currency, method, window)
     EXCEPT !.status = IF method = "OPEN_BANKING" THEN "pending" ELSE "created"]

Init ==
  /\ CardInit
  /\ \E amount \in {a \in Amounts : Funding!ValidAmount(a)}, currency \in Currencies,
        method \in Methods, window \in Windows :
       intents = [r \in Requests |-> Created(r, amount, currency, method, window)]
  /\ request = [r \in Requests |->
       [at |-> "answered", tenant |-> Tenant, key |-> r, intent |-> r]]
  /\ bank = {r \in Requests : intents[r].method = "OPEN_BANKING"}
  /\ call = [d \in Calls |-> [at |-> "idle"]]
  /\ postings = <<>>
  /\ published = {}

\* A subject's goroutine handles one event at a time.
InHandler(d) ==
  \/ delivery[d] = "notifying"
  \/ d \in Calls /\ call[d].at \in {"settling", "saving", "failing", "announcing"}
Free(d) == \A e \in Deliveries : e[1] = d[1] /\ e[2] = d[2] => ~InHandler(e)

NotifyAsCaptured(d) ==
  /\ delivery[d] = "notifying"
  /\ delivery' = [delivery EXCEPT ![d] = "done"]
  /\ Funding!ProcessCardPayment(d, row[d[3]].intent, TRUE)
  /\ UNCHANGED <<row, charge, capture, refund, acquirer>>
NotifyAsChargeback(d) ==
  /\ delivery[d] = "notifying"
  /\ delivery' = [delivery EXCEPT ![d] = "done"]
  /\ \/ Funding!ProcessCardPayment(d, row[d[3]].intent, TRUE)
     \/ Funding!ProcessChargeback(d, row[d[3]].intent)
  /\ UNCHANGED <<row, charge, capture, refund, acquirer>>

\* The call of the funding service; its answer is only logged.
Notify(d) ==
  LET intent == row[d[3]].intent
  IN  /\ delivery[d] = "notifying"
      /\ delivery' = [delivery EXCEPT ![d] = "done"]
      /\ \/ d[2] = "captured" /\ Funding!ProcessCardPayment(d, intent, TRUE)
         \/ d[2] = "chargeback" /\ Funding!ProcessChargeback(d, intent)
      /\ UNCHANGED <<row, charge, capture, refund, acquirer>>

Acquire ==
  \/ \E t \in Txns : \/ \E i \in Funding!Stored : Charge(t, i)
                     \/ Authorize(t) \/ ChargeTimesOut(t) \/ StorePayment(t) \/ Dispute(t)
  \/ \E c \in Captures : (\E t \in Txns : CheckCapture(c, t)) \/ AskCapture(c) \/ RecordCapture(c)
  \/ \E r \in Refunds : (\E t \in Txns : CheckRefund(r, t)) \/ AskRefund(r) \/ RecordRefund(r)
  \/ \E d \in Deliveries :
       Free(d) /\ (HandleUnknown(d) \/ HandleKnown(d) \/ HandleRefunded(d) \/ Miss(d))

Settle(d) == Funding!Post(d) \/ Funding!Save(d) \/ Funding!Announce(d)

Next ==
  \/ Acquire /\ UNCHANGED fundingVars
  \/ \E d \in Calls : Notify(d)
  \/ (\E d \in Calls : Settle(d)) /\ UNCHANGED cardVars

Spec == Init /\ [][Next]_vars

-----------------------------------------------------------------------------
(***************************************************************************)
(* Properties.                                                             *)
(***************************************************************************)
\* The variables of both parts keep their types.
TypeOK == CardTypeOK(Requests) /\ Funding!TypeOK

\* What the acquirer did to the transactions of an intent.
Did(i, kind) == {t \in Txns : row[t] # None /\ row[t].intent = i /\ kind \in acquirer[t]}

\* Money is posted to an intent's wallet only for a card payment of that very
\* intent which the acquirer has captured, by the handler of that capture.
PostedIsCaptured ==
  \A p \in DOMAIN postings :
    /\ postings[p].by[2] = "captured"
    /\ postings[p].by[3] \in Did(postings[p].intent, "captured")

\* Funding is reversed only for a payment the acquirer has charged back.
ReversedIsChargedBack ==
  \A i \in Requests :
    (intents[i] # None /\ intents[i].status = "reversed") \/ <<"reversed", i>> \in published
      => Did(i, "chargeback") # {}

\* Captures are asked for authorised payments and refunds for captured ones,
\* although the row that is checked lags behind events that overtake each other.
RequestsAreBacked ==
  /\ \A c \in Captures : capture[c].at # "idle" => "authorised" \in acquirer[capture[c].txn]
  /\ \A r \in Refunds : refund[r].at # "idle" => "captured" \in acquirer[refund[r].txn]
=============================================================================
