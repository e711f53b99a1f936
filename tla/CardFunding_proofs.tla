-------------------------- MODULE CardFunding_proofs --------------------------
(***************************************************************************)
(* Proofs about CardFunding: the card provider composed with the funding   *)
(* service, for any number of charges, captures, refunds and instances,    *)
(* with and without faults and automatic capture.                          *)
(***************************************************************************)
EXTENDS CardFunding, FiniteSetTheorems, TLAPS

(***************************************************************************)
(* The inductive invariant of the card provider.                           *)
(***************************************************************************)
\* What the acquirer has done builds on its authorisation, and rows lag behind it.
TxnInv(t) ==
  /\ "authorised" \notin acquirer[t] => acquirer[t] \subseteq {"declined"}
  /\ AutoCapture /\ "authorised" \in acquirer[t] => "captured" \in acquirer[t]
  /\ charge[t].at \in {"idle", "requested"} => row[t] = None
  /\ row[t] # None =>
       /\ row[t].status = "AUTHORISED" => "authorised" \in acquirer[t]
       /\ row[t].status = "CAPTURED" => "captured" \in acquirer[t]
CaptureInv(c) ==
  /\ capture[c].at # "idle" => "authorised" \in acquirer[capture[c].txn]
  /\ capture[c].at = "marking" => "captured" \in acquirer[capture[c].txn]
RefundInv(r) == refund[r].at # "idle" => "captured" \in acquirer[refund[r].txn]
\* Events are of what the acquirer did; a handler calls the funding service only
\* with a record.
EventInv(d) ==
  /\ delivery[d] # "none" => d[2] \in acquirer[d[3]]
  /\ delivery[d] = "notifying" => row[d[3]] # None
CardInv ==
  /\ \A t \in Txns : TxnInv(t)
  /\ \A c \in Captures : CaptureInv(c)
  /\ \A r \in Refunds : RefundInv(r)
  /\ \A d \in Deliveries : EventInv(d)

(***************************************************************************)
(* The inductive invariant of the funding service.                         *)
(***************************************************************************)
Row ==
  [id : Requests, tenant : {Tenant}, key : Requests, amount : Amounts,
   currency : Currencies, method : Methods, status : Funding!Status, batch : Nat,
   reference : Windows \cup {None}]
MaybeCredit == Funding!Credit \cup {None}
Holding == {"settling", "saving", "announcing"}
CallType ==
  [at : {"idle", "done", "lost", "error"}]
  \cup [at : Holding, intent : Row, credit : MaybeCredit]
Posting == [intent : Requests, amount : Amounts, by : Calls, credit : MaybeCredit]
FundTypes ==
  /\ intents \in [Requests -> Row]
  /\ call \in [Calls -> CallType]
  /\ postings \in Seq(Posting)

\* An intent is reversed, on record, in a copy or in an event, for a chargeback, and
\* a call settles for the capture of its own intent's payment.
Reversible(i) == Did(i, "chargeback") # {}
CallInv(d) ==
  call[d].at \in Holding =>
    /\ call[d].intent.status = "reversed" => Reversible(call[d].intent.id)
    /\ call[d].at = "settling" =>
         d[2] = "captured" /\ d[3] \in Did(call[d].intent.id, "captured")
IntentInv(i) ==
  /\ intents[i].id = i
  /\ intents[i].status = "reversed" => Reversible(i)
  /\ <<"reversed", i>> \in published => Reversible(i)
FundInv ==
  /\ \A d \in Calls : CallInv(d)
  /\ \A i \in Requests : IntentInv(i)
  /\ PostedIsCaptured

Types == CardTypeOK(Requests) /\ FundTypes
IInv == CardInv /\ FundInv

-----------------------------------------------------------------------------
(***************************************************************************)
(* The card provider's steps.                                              *)
(***************************************************************************)
\* What was done stays done, and a record keeps its intent.
Grows ==
  \A t \in Txns :
    /\ acquirer[t] \subseteq acquirer'[t]
    /\ row[t] # None => row'[t] # None /\ row'[t].intent = row[t].intent
CardKept == CardTypeOK(Requests)' /\ CardInv' /\ Grows

LEMMA DeliveryParts ==
  ASSUME NEW d \in Deliveries
  PROVE  d[1] \in Instances /\ d[2] \in Kinds /\ d[3] \in Txns
BY DEF Deliveries

\* The acquirer does something with an authorised transaction.
LEMMA DoesKeeps ==
  ASSUME CardTypeOK(Requests), CardInv, NEW t \in Txns, NEW kind \in Kinds, Does(t, kind),
         "authorised" \in acquirer[t], UNCHANGED <<row, charge>>
  PROVE  /\ acquirer' \in [Txns -> SUBSET (Kinds \cup {"authorised", "declined"})]
         /\ delivery' \in [Deliveries -> {"none", "pending", "notifying", "done"}]
         /\ Grows /\ kind \in acquirer'[t]
         /\ \A u \in Txns : TxnInv(u)'
         /\ \A d \in Deliveries : EventInv(d)'
<1>1. /\ acquirer' = [acquirer EXCEPT ![t] = @ \cup {kind}]
      /\ delivery' = [d \in Deliveries |->
           IF d[2] = kind /\ d[3] = t /\ delivery[d] = "none" THEN "pending" ELSE delivery[d]]
  BY DEF Does
<1>2. /\ acquirer' \in [Txns -> SUBSET (Kinds \cup {"authorised", "declined"})]
      /\ acquirer'[t] = acquirer[t] \cup {kind}
      /\ \A u \in Txns : u # t => acquirer'[u] = acquirer[u]
  BY <1>1 DEF CardTypeOK
<1>3. delivery' \in [Deliveries -> {"none", "pending", "notifying", "done"}]
  BY <1>1 DEF CardTypeOK
<1>4. Grows BY <1>2 DEF Grows
<1>5. \A u \in Txns : TxnInv(u)' BY <1>2 DEF CardInv, TxnInv
<1>6. ASSUME NEW d \in Deliveries PROVE EventInv(d)'
  <2>1. EventInv(d) /\ d[3] \in Txns BY DeliveryParts DEF CardInv
  <2>2. delivery'[d] = delivery[d] \/ (delivery'[d] = "pending" /\ d[2] = kind /\ d[3] = t)
    BY <1>1
  <2>3. QED BY <1>2, <2>1, <2>2 DEF EventInv
<1>7. QED BY <1>2, <1>3, <1>4, <1>5, <1>6

\* A row is marked with what the acquirer did, or stays as it is.
LEMMA MarkKeeps ==
  ASSUME CardTypeOK(Requests), CardInv, NEW t \in Txns,
         NEW s \in {"CAPTURED", "REFUNDED", "CHARGEBACK"},
         s = "CAPTURED" => "captured" \in acquirer[t],
         row' \in {row, Mark(t, s)}, UNCHANGED <<charge, acquirer>>
  PROVE  /\ row' \in [Txns -> [status : Status, intent : Requests] \cup {None}]
         /\ Grows
         /\ \A u \in Txns : TxnInv(u)'
<1>1. CASE row' = row BY <1>1 DEF CardTypeOK, Grows, CardInv, TxnInv
<1>2. CASE row[t] # None /\ row' = [row EXCEPT ![t].status = s]
  <2> DEFINE new == [row[t] EXCEPT !.status = s]
  <2>1. row[t] \in [status : Status, intent : Requests] BY <1>2 DEF CardTypeOK
  <2>2. /\ new \in [status : Status, intent : Requests]
        /\ new.status = s /\ new.intent = row[t].intent
    BY <2>1 DEF Status
  <2>3. row' = [row EXCEPT ![t] = new] BY <1>2 DEF CardTypeOK
  <2> HIDE DEF new
  <2>4. new # None BY <2>2, NoneAssumption
  <2>5. row'[t] = new /\ \A u \in Txns : u # t => row'[u] = row[u]
    BY <2>3 DEF CardTypeOK
  <2>6. row' \in [Txns -> [status : Status, intent : Requests] \cup {None}]
    BY <2>2, <2>3 DEF CardTypeOK
  <2>7. Grows BY <2>2, <2>4, <2>5 DEF Grows
  <2>8. \A u \in Txns : TxnInv(u)' BY <1>2, <2>2, <2>4, <2>5 DEF CardInv, TxnInv
  <2>9. QED BY <2>6, <2>7, <2>8
<1>3. QED BY <1>1, <1>2 DEF Mark

LEMMA ChargeKeeps ==
  ASSUME CardTypeOK(Requests), CardInv, NEW t \in Txns,
         \/ \E i \in Requests : Charge(t, i)
         \/ Authorize(t) \/ ChargeTimesOut(t) \/ StorePayment(t)
  PROVE  CardKept
<1>1. UNCHANGED <<capture, refund>>
  BY DEF Charge, Authorize, ChargeTimesOut, StorePayment
<1>2. ASSUME NEW i \in Requests, Charge(t, i) PROVE CardKept
  <2>1. /\ charge' = [charge EXCEPT ![t] = [at |-> "requested", intent |-> i]]
        /\ charge[t].at = "idle" /\ UNCHANGED <<row, delivery, acquirer>>
    BY <1>2 DEF Charge
  <2>2. CardTypeOK(Requests)' BY <1>1, <2>1 DEF CardTypeOK
  <2>3. \A u \in Txns : TxnInv(u)' BY <2>1 DEF CardTypeOK, CardInv, TxnInv
  <2>4. CardInv' BY <1>1, <2>1, <2>3 DEF CardInv, CaptureInv, RefundInv, EventInv
  <2>5. QED BY <2>1, <2>2, <2>4 DEF CardKept, Grows
<1>3. CASE ChargeTimesOut(t)
  <2>1. /\ charge' = [charge EXCEPT ![t] = [at |-> "lost"]]
        /\ UNCHANGED <<row, delivery, acquirer>>
    BY <1>3 DEF ChargeTimesOut
  <2>2. CardTypeOK(Requests)' BY <1>1, <2>1 DEF CardTypeOK
  <2>3. \A u \in Txns : TxnInv(u)' BY <2>1 DEF CardTypeOK, CardInv, TxnInv
  <2>4. CardInv' BY <1>1, <2>1, <2>3 DEF CardInv, CaptureInv, RefundInv, EventInv
  <2>5. QED BY <2>1, <2>2, <2>4 DEF CardKept, Grows
<1>4. CASE StorePayment(t)
  <2> DEFINE new == [status |-> ChargeStatus(t), intent |-> charge[t].intent]
  <2>1. /\ charge[t].at = "requested" /\ acquirer[t] # {} /\ row[t] = None
        /\ charge' = [charge EXCEPT ![t] = [at |-> "done"]]
        /\ row' = row \/ row' = [row EXCEPT ![t] = new]
        /\ UNCHANGED <<delivery, acquirer>>
    BY <1>4 DEF StorePayment, OrUnchanged, CardInv, TxnInv
  <2>2. new \in [status : Status, intent : Requests]
    <3>1. charge[t].intent \in Requests BY <2>1 DEF CardTypeOK
    <3>2. ChargeStatus(t) \in Status BY DEF ChargeStatus, Status
    <3>3. QED BY <3>1, <3>2
  <2>3. /\ ChargeStatus(t) = "AUTHORISED" => "authorised" \in acquirer[t]
        /\ ChargeStatus(t) = "CAPTURED" => "captured" \in acquirer[t]
    BY <2>1 DEF ChargeStatus, CardInv, TxnInv
  <2>4. new.status = ChargeStatus(t) OBVIOUS
  <2> HIDE DEF new
  <2>5. /\ row' \in [Txns -> [status : Status, intent : Requests] \cup {None}]
        /\ \A u \in Txns : u # t => row'[u] = row[u]
        /\ row'[t] \in {None, new}
    BY <2>1, <2>2 DEF CardTypeOK
  <2>6. charge'[t].at = "done" /\ \A u \in Txns : u # t => charge'[u] = charge[u]
    BY <2>1 DEF CardTypeOK
  <2>7. Grows BY <2>1, <2>5 DEF Grows
  <2>8. \A u \in Txns : TxnInv(u)' BY <2>1, <2>3, <2>4, <2>5, <2>6 DEF CardInv, TxnInv
  <2>9. CardTypeOK(Requests)' BY <1>1, <2>1, <2>5 DEF CardTypeOK
  <2>10. \A d \in Deliveries : EventInv(d)'
    BY <2>1, <2>7, DeliveryParts DEF CardInv, EventInv, Grows
  <2>11. CardInv' BY <1>1, <2>1, <2>8, <2>10 DEF CardInv, CaptureInv, RefundInv
  <2>12. QED BY <2>7, <2>9, <2>11 DEF CardKept
<1>5. CASE Authorize(t)
  <2>1. PICK S \in {{"declined"}, {"authorised"}, {"authorised", "captured"}} :
          /\ acquirer' = [acquirer EXCEPT ![t] = S]
          /\ AutoCapture => S # {"authorised"}
          /\ \/ UNCHANGED delivery
             \/ /\ AutoCapture => S = {"authorised", "captured"}
                /\ delivery' = [d \in Deliveries |->
                     IF AutoCapture /\ d[2] = "captured" /\ d[3] = t
                     THEN "pending" ELSE delivery[d]]
    <3>1. {"authorised"} \cup {"captured"} = {"authorised", "captured"} OBVIOUS
    <3>2. {"authorised"} \cup {} = {"authorised"} OBVIOUS
    <3>3. CASE acquirer' = [acquirer EXCEPT ![t] = {"declined"}] /\ UNCHANGED delivery
      BY <3>3
    <3>4. QED BY <1>5, <3>1, <3>2, <3>3 DEF Authorize
  <2>2. acquirer[t] = {} /\ UNCHANGED <<row, charge>> BY <1>5 DEF Authorize
  <2>3. /\ acquirer' \in [Txns -> SUBSET (Kinds \cup {"authorised", "declined"})]
        /\ acquirer'[t] = S /\ \A u \in Txns : u # t => acquirer'[u] = acquirer[u]
    BY <2>1 DEF CardTypeOK, Kinds
  <2>4. delivery' \in [Deliveries -> {"none", "pending", "notifying", "done"}]
    BY <2>1 DEF CardTypeOK
  <2>5. Grows BY <2>2, <2>3 DEF Grows
  <2>6. row[t] # None =>
          row[t].status \notin {"AUTHORISED", "CAPTURED"}
    BY <2>2 DEF CardInv, TxnInv
  <2>7. \A u \in Txns : TxnInv(u)' BY <2>1, <2>2, <2>3, <2>6 DEF CardInv, TxnInv
  <2>8. ASSUME NEW d \in Deliveries PROVE EventInv(d)'
    <3>1. EventInv(d) /\ d[3] \in Txns BY DeliveryParts DEF CardInv
    <3>2. \/ delivery'[d] = delivery[d]
          \/ delivery'[d] = "pending" /\ d[2] = "captured" /\ d[3] = t
             /\ S = {"authorised", "captured"}
      BY <2>1
    <3>3. QED BY <2>2, <2>3, <3>1, <3>2 DEF EventInv
  <2>9. \A c \in Captures : CaptureInv(c)'
    BY <1>1, <2>5 DEF CardTypeOK, CardInv, CaptureInv, Grows
  <2>10. \A r \in Refunds : RefundInv(r)'
    BY <1>1, <2>5 DEF CardTypeOK, CardInv, RefundInv, Grows
  <2>11. CardTypeOK(Requests)' BY <1>1, <2>2, <2>3, <2>4 DEF CardTypeOK
  <2>12. QED BY <2>5, <2>7, <2>8, <2>9, <2>10, <2>11 DEF CardKept, CardInv
<1>6. QED BY <1>2, <1>3, <1>4, <1>5

LEMMA DisputeKeeps ==
  ASSUME CardTypeOK(Requests), CardInv, NEW t \in Txns, Dispute(t)
  PROVE  CardKept
<1>1. UNCHANGED <<row, charge, capture, refund>> /\ Does(t, "chargeback")
  BY DEF Dispute
<1>2. "authorised" \in acquirer[t] /\ "chargeback" \in Kinds
  BY DEF Dispute, CardInv, TxnInv, Kinds
<1>3. /\ acquirer' \in [Txns -> SUBSET (Kinds \cup {"authorised", "declined"})]
      /\ delivery' \in [Deliveries -> {"none", "pending", "notifying", "done"}]
      /\ Grows
      /\ \A u \in Txns : TxnInv(u)'
      /\ \A d \in Deliveries : EventInv(d)'
  BY <1>1, <1>2, DoesKeeps
<1>4. CardTypeOK(Requests)' BY <1>1, <1>3 DEF CardTypeOK
<1>5. \A c \in Captures : CaptureInv(c)'
  BY <1>1, <1>3 DEF CardTypeOK, CardInv, CaptureInv, Grows
<1>6. \A r \in Refunds : RefundInv(r)'
  BY <1>1, <1>3 DEF CardTypeOK, CardInv, RefundInv, Grows
<1>7. QED BY <1>3, <1>4, <1>5, <1>6 DEF CardKept, CardInv


\* What a step does not touch keeps its invariant while things only grow.
LEMMA UntouchedKept ==
  ASSUME CardTypeOK(Requests), CardInv, Grows
  PROVE  /\ \A c \in Captures : capture'[c] = capture[c] => CaptureInv(c)'
         /\ \A r \in Refunds : refund'[r] = refund[r] => RefundInv(r)'
         /\ \A d \in Deliveries :
              \/ delivery'[d] = delivery[d]
              \/ delivery[d] # "none" /\ delivery'[d] = "done"
              => EventInv(d)'
<1>1. ASSUME NEW c \in Captures, capture'[c] = capture[c] PROVE CaptureInv(c)'
  BY <1>1 DEF CardTypeOK, CardInv, CaptureInv, Grows
<1>2. ASSUME NEW r \in Refunds, refund'[r] = refund[r] PROVE RefundInv(r)'
  BY <1>2 DEF CardTypeOK, CardInv, RefundInv, Grows
<1>3. ASSUME NEW d \in Deliveries,
             \/ delivery'[d] = delivery[d]
             \/ delivery[d] # "none" /\ delivery'[d] = "done"
      PROVE  EventInv(d)'
  BY <1>3, DeliveryParts DEF CardInv, EventInv, Grows
<1>4. QED BY <1>1, <1>2, <1>3

CaptureType ==
  [Captures -> [at : {"idle"}] \cup [at : {"asking", "marking", "done"}, txn : Txns]]
RefundType ==
  [Refunds -> [at : {"idle"}] \cup [at : {"asking", "marking", "done"}, txn : Txns]]

LEMMA SetCapture ==
  ASSUME CardTypeOK(Requests), NEW c \in Captures, capture[c].at # "idle",
         NEW s \in {"marking", "done"}, capture' = [capture EXCEPT ![c].at = s]
  PROVE  /\ capture' \in CaptureType
         /\ capture'[c].at = s /\ capture'[c].txn = capture[c].txn
         /\ \A e \in Captures : e # c => capture'[e] = capture[e]
<1>1. capture \in CaptureType BY DEF CardTypeOK, CaptureType
<1>2. capture[c] \in [at : {"asking", "marking", "done"}, txn : Txns]
  BY <1>1 DEF CaptureType
<1> DEFINE new == [capture[c] EXCEPT !.at = s]
<1>3. /\ new \in [at : {"asking", "marking", "done"}, txn : Txns]
      /\ new.at = s /\ new.txn = capture[c].txn
  BY <1>2
<1>4. capture' = [capture EXCEPT ![c] = new] BY <1>1 DEF CaptureType
<1> HIDE DEF new
<1>5. QED BY <1>1, <1>3, <1>4 DEF CaptureType

LEMMA SetRefund ==
  ASSUME CardTypeOK(Requests), NEW r \in Refunds, refund[r].at # "idle",
         NEW s \in {"marking", "done"}, refund' = [refund EXCEPT ![r].at = s]
  PROVE  /\ refund' \in RefundType
         /\ refund'[r].at = s /\ refund'[r].txn = refund[r].txn
         /\ \A e \in Refunds : e # r => refund'[e] = refund[e]
<1>1. refund \in RefundType BY DEF CardTypeOK, RefundType
<1>2. refund[r] \in [at : {"asking", "marking", "done"}, txn : Txns]
  BY <1>1 DEF RefundType
<1> DEFINE new == [refund[r] EXCEPT !.at = s]
<1>3. /\ new \in [at : {"asking", "marking", "done"}, txn : Txns]
      /\ new.at = s /\ new.txn = refund[r].txn
  BY <1>2
<1>4. refund' = [refund EXCEPT ![r] = new] BY <1>1 DEF RefundType
<1> HIDE DEF new
<1>5. QED BY <1>1, <1>3, <1>4 DEF RefundType

LEMMA CaptureKeeps ==
  ASSUME CardTypeOK(Requests), CardInv, NEW c \in Captures,
         (\E t \in Txns : CheckCapture(c, t)) \/ AskCapture(c) \/ RecordCapture(c)
  PROVE  CardKept
<1>1. UNCHANGED <<charge, refund>> BY DEF CheckCapture, AskCapture, RecordCapture
<1>2. ASSUME NEW t \in Txns, CheckCapture(c, t) PROVE CardKept
  <2>1. /\ HasStatus(t, "AUTHORISED")
        /\ capture' = [capture EXCEPT ![c] = [at |-> "asking", txn |-> t]]
        /\ UNCHANGED <<row, delivery, acquirer>>
    BY <1>2 DEF CheckCapture
  <2>2. "authorised" \in acquirer[t] BY <2>1 DEF HasStatus, CardInv, TxnInv
  <2>3. Grows BY <2>1 DEF Grows
  <2>4. CardTypeOK(Requests)' BY <1>1, <2>1 DEF CardTypeOK
  <2>5. /\ capture'[c] = [at |-> "asking", txn |-> t]
        /\ \A e \in Captures : e # c => capture'[e] = capture[e]
    BY <2>1 DEF CardTypeOK
  <2>6. CaptureInv(c)' BY <2>1, <2>2, <2>5 DEF CaptureInv
  <2>7. \A e \in Captures : CaptureInv(e)' BY <2>3, <2>5, <2>6, UntouchedKept
  <2>8. CardInv' BY <1>1, <2>1, <2>7 DEF CardInv, TxnInv, RefundInv, EventInv
  <2>9. QED BY <2>3, <2>4, <2>8 DEF CardKept
<1>3. CASE AskCapture(c)
  <2>1. PICK t : t = capture[c].txn OBVIOUS
  <2>2. /\ t \in Txns /\ "authorised" \in acquirer[t] /\ capture[c].at = "asking"
        /\ UNCHANGED row
    BY <1>3, <2>1 DEF AskCapture, CardTypeOK, CardInv, CaptureInv
  <2>3. PICK s \in {"marking", "done"} :
          /\ capture' = [capture EXCEPT ![c].at = s]
          /\ Does(t, "captured") \/ (s = "done" /\ UNCHANGED <<delivery, acquirer>>)
    BY <1>3, <2>1 DEF AskCapture
  <2>4. /\ acquirer' \in [Txns -> SUBSET (Kinds \cup {"authorised", "declined"})]
        /\ delivery' \in [Deliveries -> {"none", "pending", "notifying", "done"}]
        /\ Grows
        /\ s = "marking" => "captured" \in acquirer'[t]
        /\ \A u \in Txns : TxnInv(u)'
        /\ \A d \in Deliveries : EventInv(d)'
    <3>1. CASE Does(t, "captured")
      <4>1. "captured" \in Kinds BY DEF Kinds
      <4>2. QED BY <1>1, <2>2, <3>1, <4>1, DoesKeeps
    <3>2. CASE s = "done" /\ UNCHANGED <<delivery, acquirer>>
      <4>1. Grows BY <2>2, <3>2 DEF Grows
      <4>2. QED BY <1>1, <2>2, <3>2, <4>1 DEF CardTypeOK, CardInv, TxnInv, EventInv
    <3>3. QED BY <2>3, <3>1, <3>2
  <2>5. /\ capture' \in CaptureType
        /\ capture'[c].at = s /\ capture'[c].txn = t
        /\ \A e \in Captures : e # c => capture'[e] = capture[e]
    BY <2>1, <2>2, <2>3, SetCapture
  <2>6. CaptureInv(c)' BY <2>2, <2>4, <2>5 DEF CaptureInv, Grows
  <2>7. \A e \in Captures : CaptureInv(e)' BY <2>4, <2>5, <2>6, UntouchedKept
  <2>8. \A r \in Refunds : RefundInv(r)' BY <1>1, <2>4, UntouchedKept
  <2>9. CardTypeOK(Requests)' BY <1>1, <2>2, <2>4, <2>5 DEF CardTypeOK, CaptureType
  <2>10. QED BY <2>4, <2>7, <2>8, <2>9 DEF CardKept, CardInv
<1>4. CASE RecordCapture(c)
  <2>1. PICK t : t = capture[c].txn OBVIOUS
  <2>2. /\ t \in Txns /\ "captured" \in acquirer[t] /\ "authorised" \in acquirer[t]
        /\ capture[c].at = "marking"
        /\ capture' = [capture EXCEPT ![c].at = "done"]
        /\ row' \in {row, Mark(t, "CAPTURED")}
        /\ UNCHANGED <<delivery, acquirer>>
    BY <1>4, <2>1
    DEF RecordCapture, OrUnchanged, MarkCaptured, CardTypeOK, CardInv, CaptureInv
  <2>3. /\ row' \in [Txns -> [status : Status, intent : Requests] \cup {None}]
        /\ Grows /\ \A u \in Txns : TxnInv(u)'
    BY <1>1, <2>2, MarkKeeps
  <2>4. /\ capture' \in CaptureType
        /\ capture'[c].at = "done" /\ capture'[c].txn = t
        /\ \A e \in Captures : e # c => capture'[e] = capture[e]
    BY <2>1, <2>2, SetCapture
  <2>5. CaptureInv(c)' BY <2>2, <2>4 DEF CaptureInv
  <2>6. \A e \in Captures : CaptureInv(e)' BY <2>3, <2>4, <2>5, UntouchedKept
  <2>7. \A r \in Refunds : RefundInv(r)' BY <1>1, <2>3, UntouchedKept
  <2>8. \A d \in Deliveries : EventInv(d)' BY <2>2, <2>3, UntouchedKept
  <2>9. CardTypeOK(Requests)' BY <1>1, <2>2, <2>3, <2>4 DEF CardTypeOK, CaptureType
  <2>10. QED BY <2>3, <2>6, <2>7, <2>8, <2>9 DEF CardKept, CardInv
<1>5. QED BY <1>2, <1>3, <1>4

LEMMA RefundKeeps ==
  ASSUME CardTypeOK(Requests), CardInv, NEW r \in Refunds,
         (\E t \in Txns : CheckRefund(r, t)) \/ AskRefund(r) \/ RecordRefund(r)
  PROVE  CardKept
<1>1. UNCHANGED <<charge, capture>> BY DEF CheckRefund, AskRefund, RecordRefund
<1>2. ASSUME NEW t \in Txns, CheckRefund(r, t) PROVE CardKept
  <2>1. /\ HasStatus(t, "CAPTURED")
        /\ refund' = [refund EXCEPT ![r] = [at |-> "asking", txn |-> t]]
        /\ UNCHANGED <<row, delivery, acquirer>>
    BY <1>2 DEF CheckRefund
  <2>2. "captured" \in acquirer[t] BY <2>1 DEF HasStatus, CardInv, TxnInv
  <2>3. Grows BY <2>1 DEF Grows
  <2>4. CardTypeOK(Requests)' BY <1>1, <2>1 DEF CardTypeOK
  <2>5. /\ refund'[r] = [at |-> "asking", txn |-> t]
        /\ \A e \in Refunds : e # r => refund'[e] = refund[e]
    BY <2>1 DEF CardTypeOK
  <2>6. RefundInv(r)' BY <2>1, <2>2, <2>5 DEF RefundInv
  <2>7. \A e \in Refunds : RefundInv(e)' BY <2>3, <2>5, <2>6, UntouchedKept
  <2>8. CardInv' BY <1>1, <2>1, <2>7 DEF CardInv, TxnInv, CaptureInv, EventInv
  <2>9. QED BY <2>3, <2>4, <2>8 DEF CardKept
<1>3. CASE AskRefund(r)
  <2>1. PICK t : t = refund[r].txn OBVIOUS
  <2>2. /\ t \in Txns /\ "captured" \in acquirer[t] /\ refund[r].at = "asking"
        /\ UNCHANGED row
    BY <1>3, <2>1 DEF AskRefund, CardTypeOK, CardInv, RefundInv
  <2>3. PICK s \in {"marking", "done"} :
          /\ refund' = [refund EXCEPT ![r].at = s]
          /\ Does(t, "refunded") \/ UNCHANGED <<delivery, acquirer>>
    BY <1>3, <2>1 DEF AskRefund
  <2>4. "authorised" \in acquirer[t] BY <2>2 DEF CardInv, TxnInv
  <2>5. /\ acquirer' \in [Txns -> SUBSET (Kinds \cup {"authorised", "declined"})]
        /\ delivery' \in [Deliveries -> {"none", "pending", "notifying", "done"}]
        /\ Grows
        /\ \A u \in Txns : TxnInv(u)'
        /\ \A d \in Deliveries : EventInv(d)'
    <3>1. CASE Does(t, "refunded")
      <4>1. "refunded" \in Kinds BY DEF Kinds
      <4>2. QED BY <1>1, <2>2, <2>4, <3>1, <4>1, DoesKeeps
    <3>2. CASE UNCHANGED <<delivery, acquirer>>
      <4>1. Grows BY <2>2, <3>2 DEF Grows
      <4>2. QED BY <1>1, <2>2, <3>2, <4>1 DEF CardTypeOK, CardInv, TxnInv, EventInv
    <3>3. QED BY <2>3, <3>1, <3>2
  <2>6. /\ refund' \in RefundType
        /\ refund'[r].at = s /\ refund'[r].txn = t
        /\ \A e \in Refunds : e # r => refund'[e] = refund[e]
    BY <2>1, <2>2, <2>3, SetRefund
  <2>7. RefundInv(r)' BY <2>2, <2>5, <2>6 DEF RefundInv, Grows
  <2>8. \A e \in Refunds : RefundInv(e)' BY <2>5, <2>6, <2>7, UntouchedKept
  <2>9. \A c \in Captures : CaptureInv(c)' BY <1>1, <2>5, UntouchedKept
  <2>10. CardTypeOK(Requests)' BY <1>1, <2>2, <2>5, <2>6 DEF CardTypeOK, RefundType
  <2>11. QED BY <2>5, <2>8, <2>9, <2>10 DEF CardKept, CardInv
<1>4. CASE RecordRefund(r)
  <2>1. PICK t : t = refund[r].txn OBVIOUS
  <2>2. /\ t \in Txns /\ "captured" \in acquirer[t] /\ refund[r].at = "marking"
        /\ refund' = [refund EXCEPT ![r].at = "done"]
        /\ row' \in {row, Mark(t, "REFUNDED")}
        /\ UNCHANGED <<delivery, acquirer>>
    BY <1>4, <2>1
    DEF RecordRefund, OrUnchanged, MarkRefunded, CardTypeOK, CardInv, RefundInv
  <2>3. /\ row' \in [Txns -> [status : Status, intent : Requests] \cup {None}]
        /\ Grows /\ \A u \in Txns : TxnInv(u)'
    BY <1>1, <2>2, MarkKeeps
  <2>4. /\ refund' \in RefundType
        /\ refund'[r].at = "done" /\ refund'[r].txn = t
        /\ \A e \in Refunds : e # r => refund'[e] = refund[e]
    BY <2>1, <2>2, SetRefund
  <2>5. RefundInv(r)' BY <2>2, <2>4 DEF RefundInv
  <2>6. \A e \in Refunds : RefundInv(e)' BY <2>3, <2>4, <2>5, UntouchedKept
  <2>7. \A c \in Captures : CaptureInv(c)' BY <1>1, <2>3, UntouchedKept
  <2>8. \A d \in Deliveries : EventInv(d)' BY <2>2, <2>3, UntouchedKept
  <2>9. CardTypeOK(Requests)' BY <1>1, <2>2, <2>3, <2>4 DEF CardTypeOK, RefundType
  <2>10. QED BY <2>3, <2>6, <2>7, <2>8, <2>9 DEF CardKept, CardInv
<1>5. QED BY <1>2, <1>3, <1>4

\* A delivery that is over.
LEMMA DoneKeeps ==
  ASSUME CardTypeOK(Requests), CardInv, NEW d \in Deliveries, delivery[d] # "none",
         delivery' = [delivery EXCEPT ![d] = "done"],
         UNCHANGED <<row, charge, capture, refund, acquirer>>
  PROVE  CardKept
<1>1. Grows BY DEF Grows
<1>2. \A e \in Deliveries : \/ delivery'[e] = delivery[e]
                            \/ delivery[e] # "none" /\ delivery'[e] = "done"
  BY DEF CardTypeOK
<1>3. \A e \in Deliveries : EventInv(e)' BY <1>1, <1>2, UntouchedKept
<1>4. CardTypeOK(Requests)' BY DEF CardTypeOK
<1>5. CardInv' BY <1>3 DEF CardInv, TxnInv, CaptureInv, RefundInv
<1>6. QED BY <1>1, <1>4, <1>5 DEF CardKept

LEMMA EventKeeps ==
  ASSUME CardTypeOK(Requests), CardInv, NEW d \in Deliveries,
         HandleUnknown(d) \/ HandleKnown(d) \/ HandleRefunded(d) \/ Miss(d)
  PROVE  CardKept
<1>1. CASE HandleUnknown(d) \/ Miss(d)
  BY <1>1, DoneKeeps DEF HandleUnknown, Miss
<1>2. CASE HandleKnown(d) \/ HandleRefunded(d)
  <2> DEFINE t == d[3]
  <2>1. t \in Txns /\ d[2] \in Kinds BY DeliveryParts
  <2>2. d[2] \in acquirer[t] BY <1>2 DEF HandleKnown, HandleRefunded, CardInv, EventInv
  <2>3. PICK s \in {"CAPTURED", "REFUNDED", "CHARGEBACK"} :
          /\ s = "CAPTURED" => d[2] = "captured"
          /\ row' \in {row, Mark(t, s)}
    BY <1>2, <2>1
    DEF HandleKnown, HandleRefunded, MarkAs, MarkCaptured, MarkRefunded, MarkChargeback,
        OrUnchanged
  <2>4. PICK at \in {"notifying", "done"} :
          /\ delivery' = [delivery EXCEPT ![d] = at] /\ delivery[d] # "none"
          /\ at = "notifying" => row[t] # None
    BY <1>2 DEF HandleKnown, HandleRefunded
  <2>5. UNCHANGED <<charge, capture, refund, acquirer>>
    BY <1>2 DEF HandleKnown, HandleRefunded
  <2> HIDE DEF t
  <2>6. /\ row' \in [Txns -> [status : Status, intent : Requests] \cup {None}]
        /\ Grows /\ \A u \in Txns : TxnInv(u)'
    BY <2>1, <2>2, <2>3, <2>5, MarkKeeps
  <2>7. delivery'[d] = at /\ \A e \in Deliveries : e # d => delivery'[e] = delivery[e]
    BY <2>4 DEF CardTypeOK
  <2>8. EventInv(d)' BY <2>1, <2>2, <2>4, <2>5, <2>6, <2>7 DEF EventInv, Grows, t
  <2>9. \A e \in Deliveries : EventInv(e)' BY <2>6, <2>7, <2>8, UntouchedKept
  <2>10. \A c \in Captures : CaptureInv(c)' BY <2>5, <2>6, UntouchedKept
  <2>11. \A r \in Refunds : RefundInv(r)' BY <2>5, <2>6, UntouchedKept
  <2>12. CardTypeOK(Requests)' BY <2>4, <2>5, <2>6 DEF CardTypeOK
  <2>13. QED BY <2>6, <2>9, <2>10, <2>11, <2>12 DEF CardKept, CardInv
<1>3. QED BY <1>1, <1>2

LEMMA AcquireKeeps ==
  ASSUME CardTypeOK(Requests), CardInv, Acquire
  PROVE  CardKept
<1>1. ASSUME NEW t \in Txns, \/ \E i \in Funding!Stored : Charge(t, i)
                             \/ Authorize(t) \/ ChargeTimesOut(t) \/ StorePayment(t)
      PROVE  CardKept
  <2>1. \A i \in Funding!Stored : i \in Requests BY DEF Funding!Stored
  <2>2. QED BY <1>1, <2>1, ChargeKeeps
<1>2. ASSUME NEW t \in Txns, Dispute(t) PROVE CardKept BY <1>2, DisputeKeeps
<1>3. QED BY <1>1, <1>2, CaptureKeeps, RefundKeeps, EventKeeps DEF Acquire


-----------------------------------------------------------------------------
(***************************************************************************)
(* The funding service's steps.                                            *)
(***************************************************************************)
LEMMA DidGrows ==
  ASSUME Grows, NEW i, NEW kind
  PROVE  Did(i, kind) \subseteq Did(i, kind)'
BY DEF Grows, Did

\* A step of one call at most, which may save one row, post one batch and announce.
LEMMA FundStep ==
  ASSUME FundTypes, FundInv, Grows,
         \A d \in Calls : call'[d] = call[d] \/ CallInv(d)',
         \A i \in Requests : \/ intents'[i] = intents[i]
                             \/ /\ intents'[i].id = i
                                /\ intents'[i].status = "reversed" => Reversible(i),
         \A i \in Requests : <<"reversed", i>> \in published' =>
           <<"reversed", i>> \in published \/ Reversible(i),
         \/ postings' = postings
         \/ \E e \in Posting : /\ postings' = Append(postings, e)
                               /\ e.by[2] = "captured"
                               /\ e.by[3] \in Did(e.intent, "captured")
  PROVE  FundInv'
<1>1. \A i : Reversible(i) => Reversible(i)' BY DidGrows DEF Reversible
<1>2. ASSUME NEW d \in Calls PROVE CallInv(d)'
  <2>1. CASE call'[d] = call[d]
    <3>1. CallInv(d) BY DEF FundInv
    <3>2. PICK i : i = call[d].intent.id OBVIOUS
    <3>3. Did(i, "captured") \subseteq Did(i, "captured")' BY DidGrows
    <3>4. PICK at : at = call[d].at OBVIOUS
    <3>5. CASE at \in Holding
      <4>1. call[d].intent.status = "reversed" => Reversible(i)'
        BY <1>1, <3>1, <3>2, <3>4, <3>5 DEF CallInv
      <4>2. at = "settling" => d[2] = "captured" /\ d[3] \in Did(i, "captured")'
        BY <3>1, <3>2, <3>3, <3>4, <3>5 DEF CallInv
      <4>3. call'[d].intent.id = i /\ call'[d].at = at BY <2>1, <3>2, <3>4
      <4>4. QED BY <2>1, <4>1, <4>2, <4>3 DEF CallInv, Reversible, Did
    <3>6. QED BY <2>1, <3>4, <3>5 DEF CallInv
  <2>2. QED BY <2>1
<1>3. \A i \in Requests : IntentInv(i)' BY <1>1 DEF FundInv, IntentInv
<1>4. PostedIsCaptured'
  <2>1. ASSUME NEW p \in DOMAIN postings'
        PROVE  /\ postings'[p].by[2] = "captured"
               /\ postings'[p].by[3] \in Did(postings[p].intent, "captured")'
    <3>1. PICK e : /\ e = postings'[p] /\ e.by[2] = "captured"
                   /\ e.by[3] \in Did(e.intent, "captured")
      <4>1. CASE postings' = postings BY <2>1, <4>1 DEF FundInv, PostedIsCaptured
      <4>2. ASSUME NEW e \in Posting, postings' = Append(postings, e),
                   e.by[2] = "captured", e.by[3] \in Did(e.intent, "captured")
            PROVE  /\ postings'[p].by[2] = "captured"
                   /\ postings'[p].by[3] \in Did(postings'[p].intent, "captured")
        <5>1. postings \in Seq(Posting) BY DEF FundTypes
        <5>2. postings'[p] = e \/ (p \in DOMAIN postings /\ postings'[p] = postings[p])
          BY <2>1, <4>2, <5>1
        <5>3. QED BY <4>2, <5>2 DEF FundInv, PostedIsCaptured
      <4>3. QED BY <4>1, <4>2
    <3>2. PICK i : i = e.intent OBVIOUS
    <3>3. Did(i, "captured") \subseteq Did(i, "captured")' BY DidGrows
    <3>4. QED BY <3>1, <3>2, <3>3 DEF Did
  <2>2. QED BY <2>1 DEF PostedIsCaptured
<1>5. QED BY <1>2, <1>3, <1>4 DEF FundInv

\* The card provider moves while the funding service rests.
LEMMA AcquireStep ==
  ASSUME Types, IInv, Acquire, UNCHANGED fundingVars
  PROVE  Types' /\ IInv'
<1>1. CardKept BY AcquireKeeps DEF Types, IInv
<1>2. FundTypes' BY DEF Types, FundTypes, fundingVars
<1>3. FundInv' BY <1>1, FundStep DEF CardKept, Types, IInv, fundingVars
<1>4. QED BY <1>1, <1>2, <1>3 DEF CardKept, Types, IInv

\* A call ends, or goes on with a copy of its row.
LEMMA FinishKeeps ==
  ASSUME FundTypes, NEW d \in Calls, NEW at \in {"done", "error"}, Funding!Finish(d, at)
  PROVE  /\ call' \in [Calls -> CallType]
         /\ \A e \in Calls : call'[e] = call[e] \/ CallInv(e)'
<1>1. call' = [call EXCEPT ![d] = [at |-> at]] BY DEF Funding!Finish
<1>2. [at |-> at] \in CallType BY DEF CallType
<1>3. call' \in [Calls -> CallType] BY <1>1, <1>2 DEF FundTypes
<1>4. call'[d] = [at |-> at] /\ \A e \in Calls : e # d => call'[e] = call[e]
  BY <1>1 DEF FundTypes
<1>5. CallInv(d)' BY <1>4 DEF CallInv, Holding
<1>6. QED BY <1>3, <1>4, <1>5

LEMMA CopyKeeps ==
  ASSUME FundTypes, NEW d \in Calls, NEW i \in Row, NEW at \in Holding,
         NEW credit \in MaybeCredit, Funding!Copy(d, i, at, credit), Grows,
         i.status = "reversed" => Reversible(i.id),
         at = "settling" => d[2] = "captured" /\ d[3] \in Did(i.id, "captured")
  PROVE  /\ call' \in [Calls -> CallType]
         /\ \A e \in Calls : call'[e] = call[e] \/ CallInv(e)'
<1> DEFINE new == [at |-> at, intent |-> i, credit |-> credit]
<1>1. call' = [call EXCEPT ![d] = new] BY DEF Funding!Copy
<1>2. new \in CallType BY DEF CallType
<1> HIDE DEF new
<1>3. call' \in [Calls -> CallType] BY <1>1, <1>2 DEF FundTypes
<1>4. call'[d] = new /\ \A e \in Calls : e # d => call'[e] = call[e]
  BY <1>1 DEF FundTypes
<1>5. PICK n : n = i.id OBVIOUS
<1>6. Did(n, "captured") \subseteq Did(n, "captured")'
      /\ Did(n, "chargeback") \subseteq Did(n, "chargeback")'
  BY DidGrows
<1>7. call'[d].at = at /\ call'[d].intent = i BY <1>4 DEF new
<1>8. CallInv(d)' BY <1>5, <1>6, <1>7 DEF CallInv, Reversible, Did
<1>9. QED BY <1>3, <1>4, <1>8

\* A handler calls the funding service.
LEMMA NotifyStep ==
  ASSUME Types, IInv, NEW d \in Calls, Notify(d)
  PROVE  Types' /\ IInv'
<1> DEFINE i == row[d[3]].intent
<1>1. d \in Deliveries /\ d[3] \in Txns BY DeliveryParts DEF Calls
<1>2. /\ delivery[d] = "notifying" /\ delivery' = [delivery EXCEPT ![d] = "done"]
      /\ UNCHANGED <<row, charge, capture, refund, acquirer>>
      /\ \/ d[2] = "captured" /\ Funding!ProcessCardPayment(d, i, TRUE)
         \/ d[2] = "chargeback" /\ Funding!ProcessChargeback(d, i)
  BY DEF Notify
<1>3. CardKept BY <1>1, <1>2, DoneKeeps DEF Types, IInv
<1>4. row[d[3]] # None /\ d[2] \in acquirer[d[3]]
  BY <1>1, <1>2 DEF IInv, CardInv, EventInv
<1>5. i \in Requests /\ d[3] \in Did(i, d[2])
  BY <1>1, <1>4 DEF Types, CardTypeOK, Did
<1> HIDE DEF i
<1>6. UNCHANGED <<intents, postings, published>>
  BY <1>2 DEF Funding!ProcessCardPayment, Funding!ProcessChargeback
<1>7. /\ intents[i] \in Row /\ intents[i].id = i
      /\ intents[i].status = "reversed" => Reversible(i)
  BY <1>5 DEF Types, FundTypes, IInv, FundInv, IntentInv
<1>8. FundTypes /\ Grows BY <1>3 DEF Types, CardKept
<1>9. /\ call' \in [Calls -> CallType]
      /\ \A e \in Calls : call'[e] = call[e] \/ CallInv(e)'
  <2>1. CASE Funding!Finish(d, "error") BY <1>8, <2>1, FinishKeeps
  <2>2. CASE d[2] = "captured" /\ Funding!Copy(d, intents[i], "settling", None)
    <3>1. None \in MaybeCredit BY DEF MaybeCredit
    <3>2. "settling" \in Holding BY DEF Holding
    <3>3. PICK copy : copy = intents[i] OBVIOUS
    <3>4. /\ copy \in Row
          /\ copy.status = "reversed" => Reversible(copy.id)
          /\ d[3] \in Did(copy.id, "captured")
          /\ Funding!Copy(d, copy, "settling", None)
      BY <1>5, <1>7, <2>2, <3>3
    <3>5. QED BY <1>8, <2>2, <3>1, <3>2, <3>4, CopyKeeps
  <2>3. CASE /\ d[2] = "chargeback"
             /\ Funding!Copy(d, [intents[i] EXCEPT !.status = "reversed"], "saving", None)
    <3> DEFINE new == [intents[i] EXCEPT !.status = "reversed"]
    <3>1. new \in Row /\ new.id = i BY <1>7 DEF Row, Funding!Status
    <3>2. Funding!Copy(d, new, "saving", None) BY <2>3
    <3> HIDE DEF new
    <3>3. Reversible(new.id) BY <1>5, <2>3, <3>1 DEF Reversible
    <3>4. "saving" \in Holding /\ None \in MaybeCredit BY DEF Holding, MaybeCredit
    <3>5. QED BY <1>8, <3>1, <3>2, <3>3, <3>4, CopyKeeps
  <2>4. QED
    BY <1>2, <2>1, <2>2, <2>3
    DEF Funding!ProcessCardPayment, Funding!ProcessChargeback, Funding!MarkReversed,
        Funding!Error
<1>10. FundTypes' BY <1>6, <1>8, <1>9 DEF FundTypes
<1>11. FundInv' BY <1>6, <1>8, <1>9, FundStep DEF IInv
<1>12. QED BY <1>3, <1>10, <1>11 DEF CardKept, Types, IInv

\* The ledger first: what is posted is what the call holds.
LEMMA PostKeeps ==
  ASSUME FundTypes, FundInv, Grows, NEW d \in Calls, Funding!Post(d)
  PROVE  FundTypes' /\ FundInv'
<1> DEFINE i == call[d].intent
           e == [intent |-> i.id, amount |-> i.amount, by |-> d,
                 credit |-> call[d].credit]
           post == Append(postings, e)
<1>1. call[d].at = "settling" /\ UNCHANGED <<intents, published>> BY DEF Funding!Post
<1>2. /\ i \in Row /\ call[d].credit \in MaybeCredit
      /\ postings \in Seq(Posting)
  BY <1>1 DEF FundTypes, CallType, Holding
<1>3. /\ i.status = "reversed" => Reversible(i.id)
      /\ d[2] = "captured" /\ d[3] \in Did(i.id, "captured")
  BY <1>1 DEF FundInv, CallInv, Holding
<1>4. e \in Posting BY <1>2 DEF Posting, Row
<1>5. /\ postings' = postings \/ postings' = post
      /\ \/ Funding!Finish(d, "error")
         \/ /\ postings' = post
            /\ Funding!MarkSettled(i, Len(post)) # None
            /\ Funding!Copy(d, Funding!MarkSettled(i, Len(post)), "saving", None)
  BY DEF Funding!Post, Funding!Error
<1>6. e.by = d /\ e.intent = i.id OBVIOUS
<1>7. post \in Seq(Posting) /\ Len(post) \in Nat BY <1>2, <1>4
<1> DEFINE settled == [[i EXCEPT !.status = "settled"] EXCEPT !.batch = Len(post)]
<1> HIDE DEF e
<1>8. \/ Funding!Finish(d, "error")
      \/ Funding!Copy(d, settled, "saving", None)
  BY <1>2, <1>5 DEF Funding!MarkSettled, Row
<1>9. settled \in Row /\ settled.status = "settled"
  <2>1. [i EXCEPT !.status = "settled"] \in Row BY <1>2 DEF Row, Funding!Status
  <2>2. [i EXCEPT !.status = "settled"].status = "settled" BY <1>2 DEF Row
  <2>3. PICK j : j = [i EXCEPT !.status = "settled"] OBVIOUS
  <2>4. PICK n \in Nat : n = Len(post) BY <1>7
  <2> HIDE DEF i, post
  <2>5. [j EXCEPT !.batch = n] \in Row /\ [j EXCEPT !.batch = n].status = "settled"
    BY <2>1, <2>2, <2>3 DEF Row
  <2>6. QED BY <2>3, <2>4, <2>5
<1>10. /\ call' \in [Calls -> CallType]
       /\ \A c \in Calls : call'[c] = call[c] \/ CallInv(c)'
  <2> HIDE DEF settled
  <2>1. CASE Funding!Finish(d, "error") BY <2>1, FinishKeeps
  <2>2. CASE Funding!Copy(d, settled, "saving", None)
    <3>1. "saving" \in Holding /\ None \in MaybeCredit /\ "saving" # "settling"
      BY DEF Holding, MaybeCredit
    <3>2. settled.status # "reversed" BY <1>9
    <3>3. QED BY <1>9, <2>2, <3>1, <3>2, CopyKeeps
  <2>3. QED BY <1>8, <2>1, <2>2
<1> HIDE DEF i
<1>11. FundTypes' BY <1>1, <1>5, <1>7, <1>10, <1>2 DEF FundTypes
<1>12. FundInv'
  <2>1. \/ postings' = postings
        \/ \E x \in Posting : /\ postings' = Append(postings, x)
                              /\ x.by[2] = "captured"
                              /\ x.by[3] \in Did(x.intent, "captured")
    BY <1>3, <1>4, <1>5, <1>6
  <2>2. QED BY <1>1, <1>10, <2>1, FundStep
<1>13. QED BY <1>11, <1>12

\* The row is overwritten with the call's copy.
LEMMA SaveKeeps ==
  ASSUME FundTypes, FundInv, Grows, NEW d \in Calls, Funding!Save(d)
  PROVE  FundTypes' /\ FundInv'
<1> DEFINE i == call[d].intent
<1>1. call[d].at = "saving" /\ UNCHANGED <<postings, published>> BY DEF Funding!Save
<1>2. call[d] \in [at : Holding, intent : Row, credit : MaybeCredit] /\ i \in Row
  BY <1>1 DEF FundTypes, CallType, Holding
<1>3. i.status = "reversed" => Reversible(i.id) BY <1>1 DEF FundInv, CallInv, Holding
<1>4. PICK n : n = i.id OBVIOUS
<1>5. /\ n \in Requests /\ intents[n] \in Row /\ intents[n].id = n
      /\ intents \in [Requests -> Row]
  BY <1>2, <1>4 DEF Row, FundTypes, FundInv, IntentInv
<1> DEFINE new == [[intents[n] EXCEPT !.status = i.status] EXCEPT !.batch = i.batch]
<1>6. /\ intents' = intents \/ intents' = [intents EXCEPT ![n] = new]
      /\ \/ call' = [call EXCEPT ![d].at = "announcing"]
         \/ Funding!Finish(d, "error")
  BY <1>4, <1>5 DEF Funding!Save, Funding!UpdateIntent, Funding!Error
<1>7. new \in Row /\ new.id = n /\ new.status = i.status
  <2>1. PICK s \in Funding!Status, b \in Nat : s = i.status /\ b = i.batch
    BY <1>2 DEF Row
  <2>2. PICK j : j = [intents[n] EXCEPT !.status = s] OBVIOUS
  <2>3. j \in Row /\ j.id = n /\ j.status = s BY <1>5, <2>2 DEF Row
  <2>4. [j EXCEPT !.batch = b] \in Row /\ [j EXCEPT !.batch = b].id = n
        /\ [j EXCEPT !.batch = b].status = s
    BY <2>3 DEF Row
  <2>5. QED BY <2>1, <2>2, <2>4
<1> HIDE DEF new
<1>8. intents' \in [Requests -> Row] BY <1>5, <1>6, <1>7
<1>9. \A r \in Requests : \/ intents'[r] = intents[r]
                          \/ /\ intents'[r].id = r
                             /\ intents'[r].status = "reversed" => Reversible(r)
  BY <1>3, <1>4, <1>5, <1>6, <1>7
<1>10. /\ call' \in [Calls -> CallType]
       /\ \A c \in Calls : call'[c] = call[c] \/ CallInv(c)'
  <2>1. CASE Funding!Finish(d, "error") BY <2>1, FinishKeeps
  <2>2. CASE call' = [call EXCEPT ![d].at = "announcing"]
    <3> DEFINE moved == [call[d] EXCEPT !.at = "announcing"]
    <3>1. /\ moved \in [at : Holding, intent : Row, credit : MaybeCredit]
          /\ moved = [at |-> "announcing", intent |-> i, credit |-> call[d].credit]
      BY <1>2 DEF Holding
    <3>2. call' = [call EXCEPT ![d] = moved] BY <2>2 DEF FundTypes
    <3>3. Funding!Copy(d, i, "announcing", call[d].credit)
      BY <3>1, <3>2 DEF Funding!Copy
    <3>4. PICK credit \in MaybeCredit : credit = call[d].credit BY <1>2
    <3> HIDE DEF moved
    <3>5. "announcing" \in Holding /\ "announcing" # "settling" BY DEF Holding
    <3>6. PICK copy : copy = i OBVIOUS
    <3>7. /\ copy \in Row
          /\ copy.status = "reversed" => Reversible(copy.id)
          /\ Funding!Copy(d, copy, "announcing", credit)
      BY <1>2, <1>3, <3>3, <3>4, <3>6
    <3>8. QED BY <3>4, <3>5, <3>7, CopyKeeps
  <2>3. QED BY <1>6, <2>1, <2>2
<1>11. FundTypes' BY <1>1, <1>8, <1>10 DEF FundTypes
<1>12. FundInv' BY <1>1, <1>9, <1>10, FundStep
<1>13. QED BY <1>11, <1>12

LEMMA AnnounceKeeps ==
  ASSUME FundTypes, FundInv, Grows, NEW d \in Calls, Funding!Announce(d)
  PROVE  FundTypes' /\ FundInv'
<1> DEFINE i == call[d].intent
<1>1. /\ call[d].at = "announcing" /\ UNCHANGED <<intents, postings>>
      /\ published' \subseteq published \cup {<<i.status, i.id>>}
      /\ Funding!Finish(d, "done")
  BY DEF Funding!Announce, Funding!OrFails
<1>2. i.status = "reversed" => Reversible(i.id) BY <1>1 DEF FundInv, CallInv, Holding
<1> HIDE DEF i
<1>3. \A r \in Requests : <<"reversed", r>> \in published' =>
        <<"reversed", r>> \in published \/ Reversible(r)
  BY <1>1, <1>2
<1>4. /\ call' \in [Calls -> CallType]
      /\ \A c \in Calls : call'[c] = call[c] \/ CallInv(c)'
  BY <1>1, FinishKeeps
<1>5. FundTypes' BY <1>1, <1>4 DEF FundTypes
<1>6. FundInv' BY <1>1, <1>3, <1>4, FundStep
<1>7. QED BY <1>5, <1>6

LEMMA SettleStep ==
  ASSUME Types, IInv, NEW d \in Calls, Settle(d), UNCHANGED cardVars
  PROVE  Types' /\ IInv'
<1>1. Grows BY DEF Grows, cardVars
<1>2. CardTypeOK(Requests)' BY DEF Types, CardTypeOK, cardVars
<1>3. CardInv'
  BY DEF IInv, CardInv, TxnInv, CaptureInv, RefundInv, EventInv, cardVars
<1>4. FundTypes' /\ FundInv'
  BY <1>1, PostKeeps, SaveKeeps, AnnounceKeeps DEF Types, IInv, Settle
<1>5. QED BY <1>2, <1>3, <1>4 DEF Types, IInv

-----------------------------------------------------------------------------
(***************************************************************************)
(* The theorems.                                                           *)
(***************************************************************************)
LEMMA InitHolds ==
  ASSUME Init
  PROVE  Types /\ IInv
<1>1. CardTypeOK(Requests) BY DEF Init, CardInit, CardTypeOK
<1>2. CardInv BY DEF Init, CardInit, CardInv, TxnInv, CaptureInv, RefundInv, EventInv
<1>3. PICK amount \in Amounts, currency \in Currencies, method \in Methods,
           window \in Windows :
        intents = [r \in Requests |-> Created(r, amount, currency, method, window)]
  BY DEF Init
<1>4. ASSUME NEW r \in Requests
      PROVE  /\ Created(r, amount, currency, method, window) \in Row
             /\ Created(r, amount, currency, method, window).id = r
             /\ Created(r, amount, currency, method, window).status # "reversed"
  BY <1>3 DEF Created, Funding!NewFundingIntent, Row, Funding!Status
<1>5. FundTypes
  <2>1. intents \in [Requests -> Row] BY <1>3, <1>4
  <2>2. call \in [Calls -> CallType] BY DEF Init, CallType
  <2>3. postings \in Seq(Posting) BY DEF Init
  <2>4. QED BY <2>1, <2>2, <2>3 DEF FundTypes
<1>6. FundInv
  <2>1. \A d \in Calls : CallInv(d) BY DEF Init, CallInv, Holding
  <2>2. \A i \in Requests : IntentInv(i) BY <1>3, <1>4 DEF Init, IntentInv
  <2>3. PostedIsCaptured BY DEF Init, PostedIsCaptured
  <2>4. QED BY <2>1, <2>2, <2>3 DEF FundInv
<1>7. QED BY <1>1, <1>2, <1>5, <1>6 DEF Types, IInv

LEMMA NextKeeps ==
  ASSUME Types, IInv, [Next]_vars
  PROVE  Types' /\ IInv'
<1>1. CASE Next BY <1>1, AcquireStep, NotifyStep, SettleStep DEF Next
<1>2. CASE UNCHANGED vars
  <2>1. UNCHANGED <<row, charge, capture, refund, delivery, acquirer>>
        /\ UNCHANGED <<intents, call, postings, published>>
    BY <1>2 DEF vars, cardVars, fundingVars
  <2>2. Grows BY <2>1 DEF Grows
  <2>3. CardTypeOK(Requests)' BY <2>1 DEF Types, CardTypeOK
  <2>4. CardInv' BY <2>1 DEF IInv, CardInv, TxnInv, CaptureInv, RefundInv, EventInv
  <2>5. FundTypes' BY <2>1 DEF Types, FundTypes
  <2>6. FundInv' BY <2>1, <2>2, FundStep DEF Types, IInv
  <2>7. QED BY <2>3, <2>4, <2>5, <2>6 DEF Types, IInv
<1>3. QED BY <1>1, <1>2

LEMMA Invariant == Spec => [](Types /\ IInv)
<1>1. Init => Types /\ IInv BY InitHolds
<1>2. Types /\ IInv /\ [Next]_vars => Types' /\ IInv' BY NextKeeps
<1>3. QED BY <1>1, <1>2, PTL DEF Spec

-----------------------------------------------------------------------------
(***************************************************************************)
(* The invariant of the funding service, proved of FundingIntents, also    *)
(* holds where the card provider makes the calls: what FundingIntents      *)
(* assumes of its constants holds here, the intents found at the start     *)
(* satisfy it, and every step of the composition is one of the service's   *)
(* or leaves its variables alone.                                          *)
(***************************************************************************)
Service == INSTANCE FundingIntents_proofs
             WITH Tenants <- {Tenant}, DefaultTenant <- Tenant, Keys <- Requests,
                  Null <- None, Faults <- CanFail

LEMMA ServiceAssumptions ==
  /\ Tenant \in {Tenant} /\ Amounts \subseteq Int
  /\ Methods \subseteq {"OPEN_BANKING", "SEPA", "FPS", "CARD"}
  /\ CanFail \in BOOLEAN
  /\ Service!IsFiniteSet(Calls)
  /\ /\ None \notin [id : Requests, tenant : {Tenant}, key : Requests, amount : Amounts,
                     currency : Currencies, method : Methods, status : Service!Status,
                     batch : Nat, reference : Windows \cup {None}]
     /\ None \notin Service!Credit
<1>1. IsFiniteSet(Kinds)
  <2>1. IsFiniteSet({"captured"}) BY FS_Singleton
  <2>2. IsFiniteSet({"captured"} \cup {"refunded"}) BY <2>1, FS_AddElement
  <2>3. IsFiniteSet(({"captured"} \cup {"refunded"}) \cup {"chargeback"})
    BY <2>2, FS_AddElement
  <2>4. Kinds = ({"captured"} \cup {"refunded"}) \cup {"chargeback"} BY DEF Kinds
  <2>5. QED BY <2>3, <2>4
<1>2. IsFiniteSet(Calls)
  <2>1. IsFiniteSet(Instances \X Txns) BY FiniteAssumption, FS_Product
  <2>2. IsFiniteSet((Instances \X Txns) \X Kinds) BY <1>1, <2>1, FS_Product
  <2> DEFINE swap == [e \in (Instances \X Txns) \X Kinds |-> <<e[1][1], e[2], e[1][2]>>]
  <2>3. swap \in Surjection((Instances \X Txns) \X Kinds, Deliveries)
    <3>1. ASSUME NEW e \in (Instances \X Txns) \X Kinds PROVE swap[e] \in Deliveries
      BY DEF Deliveries
    <3>2. ASSUME NEW d \in Deliveries
          PROVE  \E e \in (Instances \X Txns) \X Kinds : swap[e] = d
      <4>1. PICK e : e = << <<d[1], d[3]>>, d[2] >> OBVIOUS
      <4>2. d = <<d[1], d[2], d[3]>> BY DEF Deliveries
      <4>3. e \in (Instances \X Txns) \X Kinds BY <4>1, DeliveryParts
      <4>4. QED BY <4>1, <4>2, <4>3
    <3> HIDE DEF swap
    <3>3. QED BY <3>1, <3>2 DEF swap, Surjection
  <2>4. IsFiniteSet(Deliveries) BY <2>2, <2>3, FS_Surjection
  <2>5. Calls \in SUBSET Deliveries BY DEF Calls
  <2>6. QED BY <2>4, <2>5, FS_Subset
<1>3. Service!IsFiniteSet(Calls) BY <1>2 DEF Service!IsFiniteSet, IsFiniteSet
<1>4. QED 
  BY <1>3, FundingAssumption, CardSwitches
  DEF Service!Status, Funding!Status, Service!Credit, Funding!Credit

\* The steps, and the properties, of the two instances are the same.
LEMMA SameSteps ==
  ASSUME NEW d \in Calls
  PROVE  /\ Funding!Post(d) => Service!Post(d)
         /\ Funding!Save(d) => Service!Save(d)
         /\ Funding!Announce(d) => Service!Announce(d)
         /\ \A i \in Requests : /\ Funding!ProcessCardPayment(d, i, TRUE)
                                   => Service!ProcessCardPayment(d, i, TRUE)
                                /\ Funding!ProcessChargeback(d, i)
                                   => Service!ProcessChargeback(d, i)
<1>1. Funding!Post(d) => Service!Post(d)
  BY DEF Funding!Post, Service!Post, Funding!MarkSettled, Service!MarkSettled,
         Funding!Copy, Service!Copy, Funding!Finish, Service!Finish,
         Funding!Error, Service!Error
<1>2. Funding!Save(d) => Service!Save(d)
  BY DEF Funding!Save, Service!Save, Funding!UpdateIntent, Service!UpdateIntent,
         Funding!Finish, Service!Finish, Funding!Error, Service!Error
<1>3. Funding!Announce(d) => Service!Announce(d)
  BY DEF Funding!Announce, Service!Announce, Funding!OrFails, Service!OrFails,
         Funding!Finish, Service!Finish
<1>4. ASSUME NEW i \in Requests
      PROVE  /\ Funding!ProcessCardPayment(d, i, TRUE) => Service!ProcessCardPayment(d, i, TRUE)
             /\ Funding!ProcessChargeback(d, i) => Service!ProcessChargeback(d, i)
  <2>1. Funding!Stored = Service!Stored BY DEF Funding!Stored, Service!Stored
  <2>2. Funding!ProcessCardPayment(d, i, TRUE) => Service!ProcessCardPayment(d, i, TRUE)
    BY <2>1 DEF Funding!ProcessCardPayment, Service!ProcessCardPayment,
         Funding!MarkFailed, Service!MarkFailed, Funding!Copy, Service!Copy,
         Funding!Finish, Service!Finish, Funding!Error, Service!Error
  <2>3. Funding!ProcessChargeback(d, i) => Service!ProcessChargeback(d, i)
    BY <2>1 DEF Funding!ProcessChargeback, Service!ProcessChargeback,
         Funding!MarkReversed, Service!MarkReversed, Funding!Copy, Service!Copy,
         Funding!Finish, Service!Finish, Funding!Error, Service!Error
  <2>4. QED BY <2>2, <2>3
<1>5. QED BY <1>1, <1>2, <1>3, <1>4

LEMMA ServiceInit ==
  ASSUME Init
  PROVE  Service!Types /\ Service!IInv /\ Service!BankInv
<1>1. PICK amount \in {a \in Amounts : a > 0}, currency \in Currencies, method \in Methods,
           window \in Windows :
        intents = [r \in Requests |-> Created(r, amount, currency, method, window)]
  BY DEF Init, Funding!ValidAmount
<1>2. /\ request = [r \in Requests |->
           [at |-> "answered", tenant |-> Tenant, key |-> r, intent |-> r]]
      /\ bank = {r \in Requests : intents[r].method = "OPEN_BANKING"}
      /\ call = [d \in Calls |-> [at |-> "idle"]]
      /\ postings = <<>> /\ published = {}
  BY DEF Init
<1>3. ASSUME NEW r \in Requests
      PROVE  /\ intents[r] \in Service!Intent /\ intents[r].id = r
             /\ intents[r].tenant = Tenant /\ intents[r].key = r
             /\ intents[r].status \notin Service!Paid
  <2>1. 0 \in Service!Batches BY ServiceAssumptions, Service!BatchesAreBounded
  <2>2. QED
    BY <1>1, <2>1 DEF Created, Funding!NewFundingIntent, Service!Intent, Service!Status,
                      Service!Paid, Service!Batches
<1>4. Service!Types
  <2>1. intents \in [Requests -> Service!Intent] BY <1>1, <1>3
  <2>2. request \in [Requests -> [at : {"answered"}, tenant : {Tenant}, key : Requests,
                                  intent : Requests]]
    BY <1>2
  <2>3. call \in [Calls -> [at : {"idle", "done", "lost", Service!Error}]] BY <1>2
  <2>4. postings \in Seq(Service!Posting) BY <1>2
  <2>5. bank \subseteq Requests /\ published \subseteq Service!Event BY <1>2
  <2>6. QED
    BY <2>1, <2>2, <2>3, <2>4, <2>5
    DEF Service!Types, Service!RequestType, Service!CallType
<1>5. \A r \in Requests : r \in Service!Stored
  <2>1. \A i \in Service!Intent : i # None
    BY ServiceAssumptions, Service!IntentIsNotNull
  <2>2. QED BY <1>3, <2>1 DEF Service!Stored
<1>6. Service!Stored = Requests BY <1>5 DEF Service!Stored
<1>7. Service!RowsInv BY <1>3, <1>6 DEF Service!RowsInv, Service!SameKey
<1>8. \A r \in Requests : Service!RequestInv(r)
  BY <1>2, <1>3, <1>6 DEF Service!RequestInv, Service!SameKey
<1>9. \A d \in Calls : Service!CallInv(d)
  BY <1>2 DEF Service!CallInv, Service!Holding
<1>10. Service!PublishedInv /\ Service!PostedOnce
  BY <1>2 DEF Service!PublishedInv, Service!PostedOnce
<1>11. Service!IInv BY <1>7, <1>8, <1>9, <1>10 DEF Service!IInv
<1>12. Service!BankInv
  <2>1. ASSUME NEW r \in Requests, intents[r].status \in Service!Started PROVE r \in bank
    BY <1>1, <1>2, <2>1 DEF Created, Funding!NewFundingIntent, Service!Started, Service!Paid
  <2>2. QED
    BY <1>2, <1>6, <2>1 DEF Service!BankInv, Service!DraftOk, Service!HeldOk, Service!Holding
<1>13. QED BY <1>4, <1>11, <1>12

\* A handler that calls the funding service has the payment's row.
LEMMA NotifiesService ==
  ASSUME Types, IInv, NEW d \in Calls, Notify(d)
  PROVE  \E i \in Requests : \/ Funding!ProcessCardPayment(d, i, TRUE)
                             \/ Funding!ProcessChargeback(d, i)
<1>1. delivery[d] = "notifying" /\ d \in Deliveries BY DEF Notify, Calls
<1>2. row[d[3]] # None /\ d[3] \in Txns
  BY <1>1, DeliveryParts DEF IInv, CardInv, EventInv
<1>3. row[d[3]].intent \in Requests BY <1>2 DEF Types, CardTypeOK
<1>4. QED BY <1>3 DEF Notify

ServiceInv == Service!Types /\ Service!IInv /\ Service!BankInv

LEMMA ServiceStep ==
  ASSUME ServiceInv, [Service!Next]_Service!vars
  PROVE  ServiceInv'
BY ServiceAssumptions, Service!NextKeeps, Service!BankKept DEF ServiceInv

LEMMA ServiceKept ==
  ASSUME Types, IInv, ServiceInv, [Next]_vars
  PROVE  ServiceInv'
<1>1. CASE UNCHANGED fundingVars
  <2>1. [Service!Next]_Service!vars BY <1>1 DEF fundingVars, Service!vars
  <2>2. QED BY <2>1, ServiceStep
<1>2. ASSUME NEW d \in Calls, Notify(d) PROVE ServiceInv'
  <2>1. PICK i \in Requests : \/ Funding!ProcessCardPayment(d, i, TRUE)
                              \/ Funding!ProcessChargeback(d, i)
    BY <1>2, NotifiesService
  <2>2. \/ Service!ProcessCardPayment(d, i, TRUE)
        \/ Service!ProcessChargeback(d, i)
    BY <2>1, SameSteps
  <2>3. Service!Next BY <2>2 DEF Service!Next
  <2>4. QED BY <2>3, ServiceStep
<1>3. ASSUME NEW d \in Calls, Settle(d) PROVE ServiceInv'
  <2>1. Service!Next BY <1>3, SameSteps DEF Settle, Service!Next
  <2>2. QED BY <2>1, ServiceStep
<1>4. QED BY <1>1, <1>2, <1>3 DEF Next, vars

LEMMA ServiceInvariant == Spec => [](ServiceInv)
<1>1. Init => ServiceInv BY ServiceInit DEF ServiceInv
<1>2. /\ Types /\ IInv /\ ServiceInv /\ [Next]_vars
      => ServiceInv'
  BY ServiceKept
<1>3. QED BY Invariant, <1>1, <1>2, PTL DEF Spec

-----------------------------------------------------------------------------
(***************************************************************************)
(* The theorems.                                                           *)
(***************************************************************************)
\* Both parts keep their types when they are put together: every row, charge and
\* delivery of the card provider, and every copy of an intent the service holds.
THEOREM TypesAreKept == Spec => []TypeOK
<1>1. Service!Types => Funding!TypeOK
  BY DEF Service!Types, Service!Intent, Service!Status, Service!Error, Service!RequestType,
         Service!CallType, Service!Holding, Service!MaybeCredit, Service!Credit, Service!Posting, Service!Event,
         Service!Cardinality, Funding!TypeOK, Funding!Intent, Funding!Credit, Funding!Status, Funding!Error,
         Funding!Cardinality
<1>2. Types => CardTypeOK(Requests) BY DEF Types
<1>3. QED BY Invariant, ServiceInvariant, <1>1, <1>2, PTL DEF TypeOK, ServiceInv

\* What the funding service promises of its settlements it also promises when the
\* calls are the deliveries of card events, several instances hearing each of them:
\* a settled or reversed intent was posted to the ledger and initiated at the bank.
THEOREM ServiceKeepsItsPromises == Spec => []Funding!SettlementIsBacked
<1>1. ServiceInv => Service!SettlementIsBacked
  BY ServiceAssumptions, Service!InvariantsSay DEF ServiceInv
<1>2. Service!SettlementIsBacked => Funding!SettlementIsBacked
  BY DEF Service!SettlementIsBacked, Service!Stored, Service!PostedBy,
         Funding!SettlementIsBacked, Funding!Stored, Funding!PostedBy
<1>3. QED BY ServiceInvariant, <1>1, <1>2, PTL

\* The card provider uses the funding service as it is meant to be used: every step
\* of the composition is a step of the funding service, or leaves it alone.
THEOREM ImplementsFundingSteps == Spec => [][Funding!Next]_fundingVars
<1>1. Types /\ IInv /\ [Next]_vars => [Funding!Next]_fundingVars
  <2>1. ASSUME Types, IInv, NEW d \in Calls, Notify(d) PROVE Funding!Next
    <3>1. PICK i \in Requests : \/ Funding!ProcessCardPayment(d, i, TRUE)
                                \/ Funding!ProcessChargeback(d, i)
      BY <2>1, NotifiesService
    <3>2. QED BY <3>1 DEF Funding!Next
  <2>2. ASSUME NEW d \in Calls, Settle(d) PROVE Funding!Next
    BY <2>2 DEF Settle, Funding!Next
  <2>3. QED BY <2>1, <2>2 DEF Next, vars
<1>2. QED BY Invariant, <1>1, PTL DEF Spec

\* Money is posted to an intent's wallet only for a card payment of that very intent
\* which the acquirer has captured, by the handler of that capture, however many
\* instances hear of it and whatever fails on the way.
THEOREM PostedAreCaptured == Spec => []PostedIsCaptured
<1>1. IInv => PostedIsCaptured BY DEF IInv, FundInv
<1>2. QED BY Invariant, <1>1, PTL

\* Funding is reversed, on record or in an event, only for a payment the acquirer
\* has charged back.
THEOREM ReversedAreChargedBack == Spec => []ReversedIsChargedBack
<1>1. IInv => ReversedIsChargedBack
  BY DEF IInv, FundInv, IntentInv, Reversible, ReversedIsChargedBack
<1>2. QED BY Invariant, <1>1, PTL

\* Captures are asked for authorised payments and refunds for captured ones,
\* although rows lag behind events that overtake each other.
THEOREM RequestsBacked == Spec => []RequestsAreBacked
<1>1. IInv => RequestsAreBacked BY DEF IInv, CardInv, CaptureInv, RefundInv, RequestsAreBacked
<1>2. QED BY Invariant, <1>1, PTL
=============================================================================
