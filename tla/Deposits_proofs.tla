--------------------------- MODULE Deposits_proofs ---------------------------
(***************************************************************************)
(* Proofs about Deposits, for any number of payments, callbacks,           *)
(* subscribers, deliveries and crashes, with and without faults.           *)
(***************************************************************************)
EXTENDS Deposits, FiniteSetTheorems, TLAPS

(***************************************************************************)
(* The inductive invariant.                                                *)
(***************************************************************************)
Types ==
  /\ row \in [Payments -> [status : Status, deposit : Callbacks \cup {None}] \cup {None}]
  /\ initiate \in [Payments -> {"idle", "storing", "done", "failed"}]
  /\ callback \in [Callbacks ->
       [at : {"idle", "done"}]
       \cup [at : Busy, payment : Payments, status : Status \cup {"none"}]]
  /\ provider \in [Payments -> Status \cup {"none"}]
  /\ stream \subseteq Callbacks
  /\ acked \subseteq stream
  /\ sub \in [Subscribers ->
       {Bus!Next_} \cup [at : {"handling", "acking", "naking"}, msg : Callbacks]]
  /\ handled \in [Callbacks -> Nat]

\* The provider has once said s of p.
Told(p, s) ==
  \/ s = provider[p]
  \/ s = "PENDING" /\ provider[p] # "none"
  \/ s = "AUTHORISED" /\ provider[p] \in {"COMPLETED", "FAILED"}

\* Rows hold what the provider has once said, and a deposit only when completed.
RowInv(p) ==
  /\ initiate[p] = "idle" => provider[p] = "none"
  /\ initiate[p] = "storing" => provider[p] # "none"
  /\ row[p] # None =>
       /\ Told(p, row[p].status)
       /\ row[p].deposit # None => provider[p] = "COMPLETED"

\* So do the copies of the callbacks.
CopyInv(c) ==
  LET p == callback[c].payment
      s == callback[c].status
  IN  /\ callback[c].at \in Busy => row[p] # None
      /\ callback[c].at = "updating" => Told(p, s) /\ s # "none"
      /\ callback[c].at \in {"linking", "publishing", "announced"} =>
           s = "COMPLETED" /\ provider[p] = "COMPLETED"

\* Only announced deposits are in the stream and reach a handler.
BusInv ==
  /\ \A c \in Callbacks : c \in stream => callback[c].at = "announced"
  /\ \A c \in Callbacks : handled[c] > 0 => c \in stream
  /\ \A s \in Subscribers :
       /\ sub[s].at \in {"handling", "acking", "naking"} => sub[s].msg \in stream
       /\ sub[s].at = "acking" => handled[sub[s].msg] > 0
  /\ AckedIsHandled

\* What waits in an iterator is in the stream.
FetchInv ==
  /\ stream \subseteq Callbacks
  /\ deliveries \in [Callbacks -> 0 .. MaxDeliver]
  /\ fetched \in [Subscribers -> SUBSET (stream \X (1 .. MaxDeliver))]

IInv ==
  /\ \A p \in Payments : RowInv(p)
  /\ \A c \in Callbacks : CopyInv(c)
  /\ BusInv

-----------------------------------------------------------------------------
\* A delivery numbers itself and waits in an iterator; other steps only take from
\* there.
LEMMA FetchKept == ASSUME FetchInv, [Next]_vars PROVE FetchInv'
<1>1. ASSUME deliveries' = deliveries, stream \subseteq stream', stream' \subseteq Callbacks,
             \/ fetched' = fetched
             \/ \E s \in Subscribers : \E less \in SUBSET fetched[s] :
                  fetched' = [fetched EXCEPT ![s] = less]
      PROVE  FetchInv'
  BY <1>1 DEF FetchInv
<1>2. CASE UNCHANGED busVars BY <1>1, <1>2 DEF busVars, FetchInv
<1>3. ASSUME NEW c \in Callbacks, PublishDepositDetected(c) \/ Bus!AckWaitExpires(c)
      PROVE  FetchInv'
  BY <1>1, <1>3 DEF PublishDepositDetected, Bus!Publish, Bus!AckWaitExpires, FetchInv
<1>4. ASSUME NEW s \in Subscribers, NEW m \in Callbacks, Bus!Deliver(s, m)
      PROVE  FetchInv'
  <2>1. /\ m \in stream /\ deliveries[m] \in 0 .. MaxDeliver /\ deliveries[m] < MaxDeliver
        /\ deliveries' = [deliveries EXCEPT ![m] = @ + 1] /\ stream' = stream
        /\ fetched' = [fetched EXCEPT ![s] = @ \cup {<<m, deliveries'[m]>>}]
    BY <1>4 DEF Bus!Deliver, Bus!Deliverable, FetchInv
  <2>2. deliveries' \in [Callbacks -> 0 .. MaxDeliver] /\ deliveries'[m] \in 1 .. MaxDeliver
    BY <2>1, DeliverAssumption DEF FetchInv
  <2>3. QED BY <2>1, <2>2 DEF FetchInv
<1>5. ASSUME NEW s \in Subscribers, Bus!Start(s) \/ Bus!Crash(s)
      PROVE  FetchInv'
  <2>1. /\ UNCHANGED <<stream, deliveries>>
        /\ \E less \in SUBSET fetched[s] :
             fetched' = fetched \/ fetched' = [fetched EXCEPT ![s] = less]
    BY <1>5 DEF Bus!Start, Bus!Receive, Bus!Handle, Bus!Ack, Bus!Nak, Bus!Crash
  <2>2. QED BY <1>1, <2>1 DEF FetchInv
<1>6. QED BY <1>2, <1>3, <1>4, <1>5 DEF Next, vars

LEMMA FetchInvariant == Spec => []FetchInv
<1>1. Init => FetchInv BY DeliverAssumption DEF Init, Bus!Init, FetchInv
<1>2. QED BY <1>1, FetchKept, PTL DEF Spec

-----------------------------------------------------------------------------
\* What is on record the provider knows of.
LEMMA RecordedIsTold ==
  ASSUME Types, IInv, NEW p \in Payments, row[p] # None
  PROVE  provider[p] # "none" /\ row[p].status \in Status
<1>1. row[p].status \in Status BY DEF Types
<1>2. QED BY <1>1 DEF IInv, RowInv, Told, Status

\* Steps of one payment that leave the others, the callbacks and the bus alone.
LEMMA PaymentStep ==
  ASSUME Types, IInv, NEW p \in Payments,
         UNCHANGED <<callback, stream, acked, sub, handled>>,
         row' \in [Payments -> [status : Status, deposit : Callbacks \cup {None}] \cup {None}],
         initiate' \in [Payments -> {"idle", "storing", "done", "failed"}],
         provider' \in [Payments -> Status \cup {"none"}],
         \A q \in Payments : q # p =>
           row'[q] = row[q] /\ initiate'[q] = initiate[q] /\ provider'[q] = provider[q],
         RowInv(p)', row[p] # None => row'[p] # None,
         \A s \in Status : Told(p, s) => Told(p, s)'
  PROVE  Types' /\ IInv'
<1>1. Types' BY DEF Types
<1>2. \A q \in Payments : RowInv(q)' BY DEF IInv, RowInv, Told
<1>3. ASSUME NEW c \in Callbacks PROVE CopyInv(c)'
  <2>1. callback[c] \in [at : {"idle", "done"}]
          \cup [at : Busy, payment : Payments, status : Status \cup {"none"}]
    BY DEF Types
  <2>2. CASE callback[c].at \notin Busy BY <2>2 DEF CopyInv, Busy
  <2>3. CASE callback[c].at \in Busy
    <3> DEFINE q == callback[c].payment
               s == callback[c].status
    <3>1. q \in Payments /\ s \in Status \cup {"none"} BY <2>1, <2>3 DEF Busy
    <3>2. CopyInv(c) BY DEF IInv
    <3>3. CASE q # p BY <3>1, <3>2, <3>3 DEF CopyInv, Told
    <3>4. CASE q = p
      <4>1. row'[p] # None BY <2>3, <3>2, <3>4 DEF CopyInv
      <4>2. provider[p] = "COMPLETED" => provider'[p] = "COMPLETED"
        BY DEF Told, Status
      <4>3. callback[c].at = "updating" => Told(p, s)' /\ s # "none"
        BY <3>1, <3>2, <3>4 DEF CopyInv
      <4>4. QED BY <3>2, <3>4, <4>1, <4>2, <4>3 DEF CopyInv
    <3>5. QED BY <3>3, <3>4
  <2>4. QED BY <2>2, <2>3
<1>4. BusInv' BY DEF IInv, BusInv, AckedIsHandled, Bus!AckedIsHandled
<1>5. QED BY <1>1, <1>2, <1>3, <1>4 DEF IInv

LEMMA PaymentKeeps ==
  ASSUME Types, IInv, NEW p \in Payments,
         Initiate(p) \/ StorePayment(p) \/ ProviderMoves(p), UNCHANGED busVars
  PROVE  Types' /\ IInv'
<1>1. UNCHANGED <<callback, stream, acked, sub, handled>>
  BY DEF Initiate, StorePayment, ProviderMoves, busVars
<1>2. CASE Initiate(p)
  <2>1. provider[p] = "none" /\ row[p] = None /\ row' = row
    BY <1>2, RecordedIsTold DEF Initiate, IInv, RowInv
  <2>2. /\ provider' \in [Payments -> Status \cup {"none"}]
        /\ initiate' \in [Payments -> {"idle", "storing", "done", "failed"}]
        /\ \A q \in Payments : q # p =>
             initiate'[q] = initiate[q] /\ provider'[q] = provider[q]
        /\ \/ initiate'[p] = "storing" /\ provider'[p] = "PENDING"
           \/ initiate'[p] = "failed" /\ provider'[p] \in {"none", "PENDING"}
    BY <1>2, <2>1 DEF Initiate, Types, Status
  <2>3. RowInv(p)' BY <2>1, <2>2 DEF RowInv
  <2>4. \A s \in Status : ~Told(p, s) BY <2>1 DEF Told, Status
  <2>5. QED BY <1>1, <2>1, <2>2, <2>3, <2>4, PaymentStep DEF Types
<1>3. CASE StorePayment(p)
  <2> DEFINE new == [status |-> "PENDING", deposit |-> None]
  <2>1. new \in [status : Status, deposit : Callbacks \cup {None}] /\ new # None
    BY NoneAssumption DEF Status
  <2>2. /\ provider' = provider /\ provider[p] # "none"
        /\ row' = row \/ row' = [row EXCEPT ![p] = new]
        /\ \A q \in Payments : q # p => initiate'[q] = initiate[q]
        /\ initiate'[p] \in {"done", "failed"}
        /\ initiate' \in [Payments -> {"idle", "storing", "done", "failed"}]
    BY <1>3 DEF StorePayment, IInv, RowInv, Types
  <2>3. new.status = "PENDING" /\ new.deposit = None OBVIOUS
  <2> HIDE DEF new
  <2>4. /\ row' \in [Payments -> [status : Status, deposit : Callbacks \cup {None}] \cup {None}]
        /\ \A q \in Payments : q # p => row'[q] = row[q]
        /\ row'[p] \in {row[p], new}
    BY <2>1, <2>2 DEF Types
  <2>5. RowInv(p)' BY <2>2, <2>3, <2>4 DEF RowInv, Told, IInv
  <2>6. \A s \in Status : Told(p, s) => Told(p, s)' BY <2>2 DEF Told
  <2>7. QED BY <1>1, <2>1, <2>2, <2>4, <2>5, <2>6, PaymentStep DEF Types
<1>4. CASE ProviderMoves(p)
  <2>1. PICK s \in Moves(provider[p]) : provider' = [provider EXCEPT ![p] = s]
    BY <1>4 DEF ProviderMoves
  <2>2. row' = row /\ initiate' = initiate BY <1>4 DEF ProviderMoves
  <2>3. \/ provider[p] = "PENDING" /\ s \in {"AUTHORISED", "FAILED"}
        \/ provider[p] = "AUTHORISED" /\ s \in {"COMPLETED", "FAILED"}
    BY DEF Moves
  <2>4. /\ provider'[p] = s /\ \A q \in Payments : q # p => provider'[q] = provider[q]
        /\ provider' \in [Payments -> Status \cup {"none"}]
    BY <2>1, <2>3 DEF Types, Status
  <2>5. \A t \in Status : Told(p, t) => Told(p, t)' BY <2>3, <2>4 DEF Told
  <2>6. RowInv(p)'
    <3>1. CASE row[p] = None BY <2>2, <2>3, <2>4, <3>1 DEF IInv, RowInv
    <3>2. CASE row[p] # None
      <4>1. PICK t \in Status : t = row[p].status BY <3>2, RecordedIsTold
      <4>2. Told(p, t)' BY <2>5, <3>2, <4>1 DEF IInv, RowInv
      <4>3. row[p].deposit = None BY <2>3, <3>2 DEF IInv, RowInv
      <4>4. QED BY <2>2, <2>3, <2>4, <3>2, <4>1, <4>2, <4>3 DEF IInv, RowInv
    <3>3. QED BY <3>1, <3>2
  <2>7. QED BY <1>1, <2>2, <2>4, <2>5, <2>6, PaymentStep DEF Types
<1>5. QED BY <1>2, <1>3, <1>4

-----------------------------------------------------------------------------
\* Steps of one callback, which has not announced, over rows that stay told.
LEMMA CallbackStep ==
  ASSUME Types, IInv, NEW c \in Callbacks, c \notin stream, NEW p \in Payments,
         UNCHANGED <<initiate, provider, stream, acked, sub, handled>>,
         callback' \in [Callbacks -> [at : {"idle", "done"}]
           \cup [at : Busy, payment : Payments, status : Status \cup {"none"}]],
         \A d \in Callbacks : d # c => callback'[d] = callback[d],
         CopyInv(c)',
         \/ row' = row
         \/ /\ row[p] # None
            /\ \E new \in [status : Status, deposit : Callbacks \cup {None}] :
                 /\ row' = [row EXCEPT ![p] = new]
                 /\ Told(p, new.status)
                 /\ new.deposit # None => provider[p] = "COMPLETED"
  PROVE  Types' /\ IInv'
<1>1. /\ row' \in [Payments -> [status : Status, deposit : Callbacks \cup {None}] \cup {None}]
      /\ \A q \in Payments : row[q] # None => row'[q] # None
  BY NoneAssumption DEF Types
<1>2. Types' BY <1>1 DEF Types
<1>3. ASSUME NEW q \in Payments PROVE RowInv(q)'
  <2>1. CASE row'[q] = row[q] BY <2>1 DEF IInv, RowInv, Told
  <2>2. CASE row'[q] # row[q]
    <3>1. q = p /\ \E new \in [status : Status, deposit : Callbacks \cup {None}] :
                 /\ row'[p] = new
                 /\ Told(p, new.status)
                 /\ new.deposit # None => provider[p] = "COMPLETED"
      BY <2>2 DEF Types
    <3>2. QED BY <3>1 DEF IInv, RowInv, Told
  <2>3. QED BY <2>1, <2>2
<1>4. ASSUME NEW d \in Callbacks PROVE CopyInv(d)'
  <2>1. CASE d = c BY <2>1
  <2>2. CASE d # c
    <3>1. callback[d].at \in Busy => callback[d].payment \in Payments
      BY DEF Types, Busy
    <3>2. CopyInv(d) BY DEF IInv
    <3>3. QED BY <1>1, <2>2, <3>1, <3>2 DEF CopyInv, Told, Busy
  <2>3. QED BY <2>1, <2>2
<1>5. BusInv' BY DEF IInv, BusInv, AckedIsHandled, Bus!AckedIsHandled
<1>6. QED BY <1>2, <1>3, <1>4, <1>5 DEF IInv

LEMMA CallbackKeeps ==
  ASSUME Types, IInv, NEW c \in Callbacks, HandleCallback(c), UNCHANGED busVars
  PROVE  Types' /\ IInv'
<1>1. UNCHANGED <<initiate, provider, stream, acked, sub, handled>>
  BY DEF HandleCallback, GetPayment, CheckStatus, Update, LinkDeposit, AbandonCallback, busVars
<1>2. callback[c].at # "announced"
  BY DEF HandleCallback, GetPayment, CheckStatus, Update, LinkDeposit, AbandonCallback
<1>3. c \notin stream BY <1>2 DEF IInv, BusInv
<1>4. ASSUME Return(c)
      PROVE  /\ callback' \in [Callbacks -> [at : {"idle", "done"}]
                  \cup [at : Busy, payment : Payments, status : Status \cup {"none"}]]
             /\ \A d \in Callbacks : d # c => callback'[d] = callback[d]
             /\ CopyInv(c)'
  BY <1>4 DEF Return, Types, CopyInv, Busy
<1>5. ASSUME NEW at \in Busy, NEW p \in Payments, NEW s \in Status \cup {"none"}, Go(c, at, p, s)
      PROVE  /\ callback' \in [Callbacks -> [at : {"idle", "done"}]
                  \cup [at : Busy, payment : Payments, status : Status \cup {"none"}]]
             /\ \A d \in Callbacks : d # c => callback'[d] = callback[d]
             /\ callback'[c] = [at |-> at, payment |-> p, status |-> s]
  <2>1. [at |-> at, payment |-> p, status |-> s]
          \in [at : Busy, payment : Payments, status : Status \cup {"none"}]
    OBVIOUS
  <2>2. QED BY <1>5, <2>1 DEF Go, Types
<1>6. ASSUME NEW q \in Payments, GetPayment(c, q) PROVE Types' /\ IInv'
  <2>1. row' = row BY <1>6 DEF GetPayment
  <2>2. CASE Return(c) BY <1>1, <1>3, <1>4, <2>1, <2>2, CallbackStep
  <2>3. CASE row[q] # None /\ Go(c, "checking", q, "none")
    <3>1. CopyInv(c)'
      <4>1. callback'[c] = [at |-> "checking", payment |-> q, status |-> "none"]
        BY <1>5, <2>3 DEF Busy
      <4>2. QED BY <2>1, <2>3, <4>1 DEF CopyInv
    <3>2. QED BY <1>1, <1>3, <1>5, <2>1, <2>3, <3>1, CallbackStep DEF Busy
  <2>4. QED BY <1>6, <2>2, <2>3 DEF GetPayment
<1> DEFINE p == callback[c].payment
           s == callback[c].status
<1>7. ASSUME callback[c].at \in Busy
      PROVE  p \in Payments /\ s \in Status \cup {"none"} /\ row[p] # None
  BY <1>7 DEF Types, Busy, IInv, CopyInv
<1>8. CASE CheckStatus(c)
  <2>1. p \in Payments /\ row[p] # None /\ row' = row
    BY <1>7, <1>8 DEF CheckStatus, Busy
  <2>2. provider[p] \in Status BY <2>1, RecordedIsTold DEF Types
  <2> HIDE DEF p, s
  <2>3. CASE Return(c) BY <1>1, <1>3, <1>4, <2>1, <2>3, CallbackStep
  <2>4. CASE Go(c, "updating", p, provider[p])
    <3>1. CopyInv(c)'
      <4>1. callback'[c] = [at |-> "updating", payment |-> p, status |-> provider[p]]
        BY <1>5, <2>1, <2>2, <2>4 DEF Busy
      <4>2. QED BY <1>1, <2>1, <2>2, <4>1 DEF CopyInv, Told, Status
    <3>2. QED BY <1>1, <1>3, <1>5, <2>1, <2>2, <2>4, <3>1, CallbackStep DEF Busy
  <2>5. QED BY <1>8, <2>3, <2>4 DEF CheckStatus, p
<1>9. CASE Update(c)
  <2>1. p \in Payments /\ row[p] # None /\ Told(p, s) /\ s \in Status
    BY <1>7, <1>9 DEF Update, Busy, IInv, CopyInv
  <2> DEFINE new == [row[p] EXCEPT !.status = s]
  <2>2. row' = row \/ row' = [row EXCEPT ![p] = new]
    BY <1>9 DEF Update, OrUnchanged
  <2>3. /\ new \in [status : Status, deposit : Callbacks \cup {None}]
        /\ new.status = s /\ new.deposit = row[p].deposit
    BY <2>1 DEF Types
  <2>4. new.deposit # None => provider[p] = "COMPLETED" BY <2>1, <2>3 DEF IInv, RowInv
  <2>5. row' = row \/ \E r \in [status : Status, deposit : Callbacks \cup {None}] :
                        /\ row' = [row EXCEPT ![p] = r] /\ Told(p, r.status)
                        /\ r.deposit # None => provider[p] = "COMPLETED"
    BY <2>1, <2>2, <2>3, <2>4
  <2>6. CASE Return(c)
    <3> HIDE DEF p, s, new
    <3>1. QED BY <1>1, <1>3, <1>4, <2>1, <2>5, <2>6, CallbackStep
  <2>7. CASE s = "COMPLETED" /\ Go(c, "linking", p, s)
    <3>1. row'[p] # None BY <2>1, <2>2, <2>3, NoneAssumption DEF Types
    <3>2. provider[p] = "COMPLETED" BY <2>1, <2>7 DEF Told
    <3> HIDE DEF p, s, new
    <3>3. CopyInv(c)'
      <4>1. callback'[c] = [at |-> "linking", payment |-> p, status |-> s]
        BY <1>5, <2>1, <2>7 DEF Busy
      <4>2. QED BY <1>1, <2>7, <3>1, <3>2, <4>1 DEF CopyInv
    <3>4. QED BY <1>1, <1>3, <1>5, <2>1, <2>5, <2>7, <3>3, CallbackStep DEF Busy
  <2>8. QED BY <1>9, <2>6, <2>7 DEF Update
<1>10. CASE LinkDeposit(c)
  <2>1. p \in Payments /\ row[p] # None /\ s = "COMPLETED" /\ provider[p] = "COMPLETED"
    BY <1>7, <1>10 DEF LinkDeposit, Busy, IInv, CopyInv
  <2> DEFINE new == [row[p] EXCEPT !.deposit = c]
  <2>2. row' = row \/ row' = [row EXCEPT ![p] = new]
    BY <1>10 DEF LinkDeposit, OrUnchanged
  <2>3. new \in [status : Status, deposit : Callbacks \cup {None}] /\ new.status = row[p].status
    BY <2>1 DEF Types
  <2>4. Told(p, new.status) BY <2>1, <2>3 DEF IInv, RowInv
  <2>5. row'[p] # None BY <2>1, <2>2, <2>3, NoneAssumption DEF Types
  <2>6. Go(c, "publishing", p, s) BY <1>10 DEF LinkDeposit
  <2> HIDE DEF p, s, new
  <2>7. CopyInv(c)'
    <3>1. s \in Status \cup {"none"} /\ "publishing" \in Busy BY <2>1 DEF Status, Busy
    <3>2. callback'[c] = [at |-> "publishing", payment |-> p, status |-> s]
      BY <1>5, <2>1, <2>6, <3>1
    <3>3. QED BY <1>1, <2>1, <2>5, <3>2 DEF CopyInv
  <2>8. QED
    BY <1>1, <1>3, <1>5, <2>1, <2>2, <2>3, <2>4, <2>6, <2>7, CallbackStep DEF Busy, Status
<1>11. CASE AbandonCallback(c)
  <2>1. p \in Payments /\ row' = row BY <1>7, <1>11 DEF AbandonCallback, Busy
  <2> HIDE DEF p, s
  <2>2. QED BY <1>1, <1>3, <1>4, <1>11, <2>1, CallbackStep DEF AbandonCallback
<1>12. QED BY <1>6, <1>8, <1>9, <1>10, <1>11 DEF HandleCallback

LEMMA PublishKeeps ==
  ASSUME Types, IInv, NEW c \in Callbacks, PublishDepositDetected(c)
  PROVE  Types' /\ IInv'
<1> DEFINE p == callback[c].payment
           s == callback[c].status
<1>1. /\ callback[c].at = "publishing"
      /\ UNCHANGED <<row, initiate, provider, acked, sub, handled>>
      /\ stream' \subseteq stream \cup {c} /\ stream \subseteq stream'
      /\ Go(c, "announced", p, s)
  BY DEF PublishDepositDetected, Bus!Publish
<1>2. /\ p \in Payments /\ row[p] # None
      /\ s = "COMPLETED" /\ provider[p] = "COMPLETED"
  BY <1>1 DEF Types, Busy, IInv, CopyInv
<1> HIDE DEF p, s
<1>3. [at |-> "announced", payment |-> p, status |-> s]
        \in [at : Busy, payment : Payments, status : Status \cup {"none"}]
  BY <1>2 DEF Busy, Status
<1>4. /\ callback'[c] = [at |-> "announced", payment |-> p, status |-> s]
      /\ \A d \in Callbacks : d # c => callback'[d] = callback[d]
      /\ callback' \in [Callbacks -> [at : {"idle", "done"}]
           \cup [at : Busy, payment : Payments, status : Status \cup {"none"}]]
  BY <1>1, <1>3 DEF Go, Types
<1>5. Types' BY <1>1, <1>4 DEF Types
<1>6. \A q \in Payments : RowInv(q)' BY <1>1 DEF IInv, RowInv, Told
<1>7. ASSUME NEW d \in Callbacks PROVE CopyInv(d)'
  <2>1. CASE d = c BY <1>1, <1>2, <1>4, <2>1 DEF CopyInv
  <2>2. CASE d # c
    <3>1. CopyInv(d) BY DEF IInv
    <3>2. QED BY <1>1, <1>4, <2>2, <3>1 DEF CopyInv, Told
  <2>3. QED BY <2>1, <2>2
<1>8. BusInv'
  <2>1. \A d \in Callbacks : d \in stream' => callback'[d].at = "announced"
    BY <1>1, <1>4 DEF IInv, BusInv
  <2>2. \A t \in Subscribers :
          /\ sub'[t].at \in {"handling", "acking", "naking"} => sub'[t].msg \in stream'
          /\ sub'[t].at = "acking" => handled'[sub'[t].msg] > 0
    BY <1>1 DEF IInv, BusInv
  <2>3. QED BY <1>1, <2>1, <2>2 DEF IInv, BusInv, AckedIsHandled, Bus!AckedIsHandled
<1>9. QED BY <1>5, <1>6, <1>7, <1>8 DEF IInv

-----------------------------------------------------------------------------
\* Steps of the bus keep what was handled within what was announced.
LEMMA BusKeeps ==
  ASSUME FetchInv, Types, IInv, UNCHANGED obVars,
         \/ \E c \in Callbacks : Bus!AckWaitExpires(c)
         \/ \E s \in Subscribers, c \in Callbacks : Bus!Deliver(s, c)
         \/ \E s \in Subscribers : Bus!Start(s) \/ Bus!Crash(s)
  PROVE  Types' /\ IInv'
<1>1. UNCHANGED <<row, initiate, callback, provider>> BY DEF obVars
<1>2. ASSUME stream' = stream, acked' \subseteq stream,
             sub' \in [Subscribers ->
               {Bus!Next_} \cup [at : {"handling", "acking", "naking"}, msg : Callbacks]],
             handled' \in [Callbacks -> Nat], BusInv'
      PROVE  Types' /\ IInv'
  <2>1. Types' BY <1>1, <1>2 DEF Types
  <2>2. \A p \in Payments : RowInv(p)' BY <1>1 DEF IInv, RowInv, Told
  <2>3. \A c \in Callbacks : CopyInv(c)' BY <1>1 DEF IInv, CopyInv, Told
  <2>4. QED BY <1>2, <2>1, <2>2, <2>3 DEF IInv
<1>3. ASSUME NEW c \in Callbacks,
             Bus!AckWaitExpires(c) \/ \E s \in Subscribers : Bus!Deliver(s, c)
      PROVE  Types' /\ IInv'
  <2>1. UNCHANGED <<stream, acked, sub, handled>>
    BY <1>3 DEF Bus!AckWaitExpires, Bus!Deliver
  <2>2. BusInv' BY <1>1, <2>1 DEF IInv, BusInv, AckedIsHandled, Bus!AckedIsHandled
  <2>3. QED BY <1>2, <2>1, <2>2 DEF Types
<1>4. ASSUME NEW s \in Subscribers, NEW new,
             new = Bus!Next_ \/
               /\ new \in [at : {"handling", "acking", "naking"}, msg : Callbacks]
               /\ new.msg \in stream
               /\ new.at = "acking" => handled'[new.msg] > 0,
             sub' = [sub EXCEPT ![s] = new], stream' = stream,
             handled' \in [Callbacks -> Nat],
             \A c \in Callbacks : handled'[c] > 0 => c \in stream,
             \A c \in Callbacks : handled[c] > 0 => handled'[c] > 0,
             acked' \subseteq stream, \A c \in acked' : handled'[c] > 0
      PROVE  Types' /\ IInv'
  <2>1. /\ sub'[s] = new /\ \A t \in Subscribers : t # s => sub'[t] = sub[t]
        /\ sub' \in [Subscribers ->
               {Bus!Next_} \cup [at : {"handling", "acking", "naking"}, msg : Callbacks]]
    BY <1>4 DEF Types
  <2>2. ASSUME NEW t \in Subscribers
        PROVE  /\ sub'[t].at \in {"handling", "acking", "naking"} => sub'[t].msg \in stream
               /\ sub'[t].at = "acking" => handled'[sub'[t].msg] > 0
    <3>1. CASE t = s BY <1>4, <2>1, <3>1 DEF Bus!Next_
    <3>2. CASE t # s
      <4>1. sub[t].at = "acking" => sub[t].msg \in Callbacks BY DEF Types, Bus!Next_
      <4>2. QED BY <1>4, <2>1, <3>2, <4>1 DEF IInv, BusInv
    <3>3. QED BY <3>1, <3>2
  <2>3. BusInv'
    BY <1>1, <1>4, <2>2 DEF IInv, BusInv, AckedIsHandled, Bus!AckedIsHandled
  <2>4. QED BY <1>2, <1>4, <2>1, <2>3
<1>5. ASSUME NEW s \in Subscribers, Bus!Receive(s) PROVE Types' /\ IInv'
  <2>1. PICK m \in stream : sub' = [sub EXCEPT ![s] = [at |-> "handling", msg |-> m]]
    <3>1. PICK d \in fetched[s] :
            sub' = [sub EXCEPT ![s] = [at |-> "handling", msg |-> d[1]]]
      BY <1>5 DEF Bus!Receive, Bus!Loop
    <3>2. d[1] \in stream BY DEF FetchInv
    <3>3. QED BY <3>1, <3>2
  <2>4. UNCHANGED <<stream, acked, handled>> BY <1>5 DEF Bus!Receive
  <2>2. \A c \in acked : handled[c] > 0 BY DEF IInv, BusInv, AckedIsHandled, Bus!AckedIsHandled
  <2>3. QED BY <1>4, <2>1, <2>2, <2>4 DEF Types, IInv, BusInv
<1>6. ASSUME NEW s \in Subscribers, Bus!Handle(s) PROVE Types' /\ IInv'
  <2> DEFINE m == sub[s].msg
             done == [handled EXCEPT ![m] = @ + 1]
  <2>1. m \in stream /\ m \in Callbacks BY <1>6 DEF Bus!Handle, IInv, BusInv, Types
  <2>2. UNCHANGED <<stream, acked>> BY <1>6 DEF Bus!Handle
  <2>3. PICK at \in {"acking", "naking"} :
          /\ sub' = [sub EXCEPT ![s] = [at |-> at, msg |-> m]]
          /\ handled' = done \/ (handled' = handled /\ at = "naking")
    BY <1>6 DEF Bus!Handle, Bus!Loop
  <2>4. /\ handled' \in [Callbacks -> Nat]
        /\ \A c \in Callbacks : handled'[c] = handled[c] \/ c = m
        /\ \A c \in Callbacks : handled[c] > 0 => handled'[c] > 0
        /\ at = "acking" => handled'[m] > 0
    BY <2>1, <2>3 DEF Types
  <2>5. \A c \in acked : handled[c] > 0 BY DEF IInv, BusInv, AckedIsHandled, Bus!AckedIsHandled
  <2>6. \A c \in Callbacks : handled'[c] > 0 => c \in stream
    BY <2>1, <2>4 DEF IInv, BusInv
  <2>7. acked' \subseteq stream /\ \A c \in acked' : handled'[c] > 0
    BY <2>2, <2>4, <2>5 DEF Types
  <2> HIDE DEF m
  <2>8. QED BY <1>4, <2>1, <2>2, <2>3, <2>4, <2>6, <2>7
<1>7. ASSUME NEW s \in Subscribers, Bus!Ack(s) \/ Bus!Nak(s) \/ Bus!Crash(s)
      PROVE  Types' /\ IInv'
  <2>1. sub' = [sub EXCEPT ![s] = Bus!Next_] /\ UNCHANGED <<stream, handled>>
    BY <1>7 DEF Bus!Ack, Bus!Nak, Bus!Crash, Bus!Loop
  <2>2. \A c \in acked : handled[c] > 0 BY DEF IInv, BusInv, AckedIsHandled, Bus!AckedIsHandled
  <2>3. acked' = acked \/
          (acked' = acked \cup {sub[s].msg} /\ sub[s].at = "acking")
    BY <1>7 DEF Bus!Ack, Bus!Nak, Bus!Crash
  <2>4. acked' \subseteq stream /\ \A c \in acked' : handled[c] > 0
    BY <2>2, <2>3 DEF IInv, BusInv, Types
  <2>5. QED BY <1>4, <2>1, <2>4 DEF Types, IInv, BusInv
<1>8. QED BY <1>3, <1>5, <1>6, <1>7 DEF Bus!Start

-----------------------------------------------------------------------------
LEMMA InitHolds == ASSUME Init PROVE Types /\ IInv
<1>1. Types
  <2>1. row \in [Payments -> {None}] BY DEF Init
  <2>2. callback \in [Callbacks -> [at : {"idle", "done"}]] BY DEF Init
  <2>3. sub \in [Subscribers -> {Bus!Next_}] BY DEF Init, Bus!Init, Bus!Next_
  <2>4. handled \in [Callbacks -> Nat] /\ stream = {} /\ acked = {} BY DEF Init, Bus!Init
  <2>5. initiate \in [Payments -> {"idle"}] /\ provider \in [Payments -> {"none"}] BY DEF Init
  <2>6. QED BY <2>1, <2>2, <2>3, <2>4, <2>5 DEF Types
<1>2. \A p \in Payments : RowInv(p) BY DEF Init, RowInv
<1>3. \A c \in Callbacks : CopyInv(c) BY DEF Init, CopyInv, Busy
<1>4. BusInv BY DEF Init, Bus!Init, BusInv, Bus!Next_, AckedIsHandled, Bus!AckedIsHandled
<1>5. QED BY <1>1, <1>2, <1>3, <1>4 DEF IInv

LEMMA NextKeeps == ASSUME FetchInv, Types, IInv, [Next]_vars PROVE Types' /\ IInv'
<1>1. CASE UNCHANGED vars
  <2>1. UNCHANGED <<row, initiate, callback, provider, stream, acked, sub, handled>>
    BY <1>1 DEF vars, obVars, busVars
  <2>2. Types' BY <2>1 DEF Types
  <2>3. \A p \in Payments : RowInv(p)' BY <2>1 DEF IInv, RowInv, Told
  <2>4. \A c \in Callbacks : CopyInv(c)' BY <2>1 DEF IInv, CopyInv, Told
  <2>5. BusInv' BY <2>1 DEF IInv, BusInv, AckedIsHandled, Bus!AckedIsHandled
  <2>6. QED BY <2>2, <2>3, <2>4, <2>5 DEF IInv
<1>2. QED BY <1>1, PaymentKeeps, CallbackKeeps, PublishKeeps, BusKeeps DEF Next

LEMMA Invariant == Spec => [](Types /\ IInv)
BY FetchInvariant, InitHolds, NextKeeps, PTL DEF Spec

-----------------------------------------------------------------------------
(***************************************************************************)
(* How often a deposit is handled: every handler that runs, or has run to  *)
(* its end, took a delivery of its own out of an iterator.                 *)
(***************************************************************************)
Handling(m) == {s \in Subscribers : sub[s].at = "handling" /\ sub[s].msg = m}
Waiting(m) == {w \in Subscribers \X (1 .. MaxDeliver) : <<m, w[2]>> \in fetched[w[1]]}
Held(m) == Cardinality(Handling(m)) + Cardinality(Waiting(m))
CountInv ==
  /\ pending \subseteq stream
  /\ crashes \in 0 .. MaxCrashes
  /\ \A m \in Callbacks : handled[m] + Held(m) <= deliveries[m]

LEMMA HandlingIsFinite ==
  \A m : IsFiniteSet(Handling(m)) /\ Cardinality(Handling(m)) \in Nat
<1>1. \A m : Handling(m) \in SUBSET Subscribers BY DEF Handling
<1>2. \A m : IsFiniteSet(Handling(m)) BY <1>1, SubscribersAssumption, FS_Subset
<1>3. QED BY <1>2, FS_CardinalityType

LEMMA WaitingIsFinite ==
  \A m : IsFiniteSet(Waiting(m)) /\ Cardinality(Waiting(m)) \in Nat
<1>1. \A m : Waiting(m) \in SUBSET (Subscribers \X (1 .. MaxDeliver)) BY DEF Waiting
<1>2. IsFiniteSet(Subscribers \X (1 .. MaxDeliver))
  <2>1. IsFiniteSet(1 .. MaxDeliver) BY DeliverAssumption, FS_Interval
  <2>2. QED BY <2>1, SubscribersAssumption, FS_Product
<1>3. \A m : IsFiniteSet(Waiting(m)) BY <1>1, <1>2, FS_Subset
<1>4. QED BY <1>3, FS_CardinalityType

\* A subscriber that moves on leaves the handlers of its message, and joins those
\* of another only with a delivery that waited for it.
LEMMA CountStep ==
  ASSUME FetchInv, Types, CountInv, NEW s \in Subscribers, NEW m \in Callbacks, NEW new,
         sub' = [sub EXCEPT ![s] = new], deliveries' = deliveries,
         \A c \in Callbacks \ {m} : handled'[c] = handled[c],
         handled' \in [Callbacks -> Nat],
         \A c \in Callbacks : Waiting(c)' \subseteq Waiting(c),
         sub[s].at = "handling" => sub[s].msg = m,
         new.at = "handling" => new.msg = m,
         \/ /\ sub[s].at # "handling" /\ new.at = "handling" /\ handled'[m] = handled[m]
            /\ \E w \in Waiting(m) : w \notin Waiting(m)'
         \/ /\ sub[s].at = "handling" /\ new.at # "handling"
            /\ handled'[m] <= handled[m] + 1
         \/ sub[s].at # "handling" /\ new.at # "handling" /\ handled'[m] = handled[m]
  PROVE  \A c \in Callbacks : handled'[c] + Held(c)' <= deliveries'[c]
<1>1. sub'[s] = new /\ \A t \in Subscribers : t # s => sub'[t] = sub[t] BY DEF Types
<1>2. ASSUME NEW c \in Callbacks
      PROVE  /\ handled[c] \in Nat /\ handled'[c] \in Nat /\ deliveries[c] \in Nat
             /\ Cardinality(Handling(c)) \in Nat /\ Cardinality(Handling(c)') \in Nat
             /\ Cardinality(Waiting(c)) \in Nat /\ Cardinality(Waiting(c)') \in Nat
             /\ Cardinality(Waiting(c)') <= Cardinality(Waiting(c))
             /\ handled[c] + Cardinality(Handling(c)) + Cardinality(Waiting(c)) <= deliveries[c]
  <2>1. Waiting(c)' \in SUBSET Waiting(c) OBVIOUS
  <2>2. /\ IsFiniteSet(Waiting(c)') /\ Cardinality(Waiting(c)') \in Nat
        /\ Cardinality(Waiting(c)') <= Cardinality(Waiting(c))
    BY <2>1, WaitingIsFinite, FS_Subset, FS_CardinalityType
  <2>3. Handling(c)' \in SUBSET Subscribers BY DEF Handling
  <2>4. Cardinality(Handling(c)') \in Nat
    BY <2>3, SubscribersAssumption, FS_Subset, FS_CardinalityType
  <2>5. Cardinality(Handling(c)) \in Nat /\ Cardinality(Waiting(c)) \in Nat
    BY HandlingIsFinite, WaitingIsFinite
  <2>6. handled[c] \in Nat /\ handled'[c] \in Nat /\ deliveries[c] \in Nat
    BY DeliverAssumption DEF Types, FetchInv
  <2>7. handled[c] + Held(c) <= deliveries[c] BY DEF CountInv
  <2>8. QED BY <2>2, <2>4, <2>5, <2>6, <2>7 DEF Held
<1>3. ASSUME NEW c \in Callbacks, c # m
      PROVE  handled'[c] + Held(c)' <= deliveries'[c]
  <2>1. Handling(c)' = Handling(c) BY <1>1, <1>3 DEF Handling
  <2>2. QED BY <1>2, <1>3, <2>1 DEF Held
<1>4. handled'[m] + Held(m)' <= deliveries'[m]
  <2>1. CASE /\ sub[s].at # "handling" /\ new.at = "handling" /\ handled'[m] = handled[m]
             /\ \E w \in Waiting(m) : w \notin Waiting(m)'
    <3>1. Handling(m)' = Handling(m) \cup {s} /\ s \notin Handling(m)
      BY <1>1, <2>1 DEF Handling
    <3>2. Cardinality(Handling(m) \cup {s}) = Cardinality(Handling(m)) + 1
      BY <3>1, HandlingIsFinite, FS_AddElement
    <3>3. PICK w \in Waiting(m) : w \notin Waiting(m)' BY <2>1
    <3>4. Waiting(m)' \in SUBSET (Waiting(m) \ {w}) BY <3>3
    <3>5. /\ IsFiniteSet(Waiting(m) \ {w})
          /\ Cardinality(Waiting(m) \ {w}) = Cardinality(Waiting(m)) - 1
      BY <3>3, WaitingIsFinite, FS_RemoveElement
    <3>6. Cardinality(Waiting(m)') <= Cardinality(Waiting(m)) - 1
      BY <3>4, <3>5, FS_Subset
    <3>7. QED BY <1>2, <2>1, <3>1, <3>2, <3>6 DEF Held
  <2>2. CASE /\ sub[s].at = "handling" /\ new.at # "handling"
             /\ handled'[m] <= handled[m] + 1
    <3>1. Handling(m)' = Handling(m) \ {s} /\ s \in Handling(m)
      BY <1>1, <2>2 DEF Handling
    <3>2. Cardinality(Handling(m) \ {s}) = Cardinality(Handling(m)) - 1
      BY <3>1, HandlingIsFinite, FS_RemoveElement
    <3>3. QED BY <1>2, <2>2, <3>1, <3>2 DEF Held
  <2>3. CASE sub[s].at # "handling" /\ new.at # "handling" /\ handled'[m] = handled[m]
    <3>1. Handling(m)' = Handling(m) BY <1>1, <2>3 DEF Handling
    <3>2. QED BY <1>2, <2>3, <3>1 DEF Held
  <2>4. QED BY <2>1, <2>2, <2>3
<1>5. QED BY <1>3, <1>4

LEMMA CountKept ==
  ASSUME FetchInv, FetchInv', Types, IInv, CountInv, [Next]_vars
  PROVE  CountInv'
<1>1. ASSUME UNCHANGED <<deliveries, crashes, sub, handled, fetched>>, pending' \subseteq stream'
      PROVE  CountInv'
  BY <1>1 DEF CountInv, Held, Handling, Waiting
<1>2. CASE UNCHANGED busVars BY <1>1, <1>2 DEF busVars, CountInv
<1>3. ASSUME NEW c \in Callbacks, PublishDepositDetected(c) \/ Bus!AckWaitExpires(c)
      PROVE  CountInv'
  <2>1. UNCHANGED <<deliveries, crashes, sub, handled, fetched>> /\ pending' \subseteq stream'
    BY <1>3 DEF PublishDepositDetected, Bus!Publish, Bus!AckWaitExpires, CountInv
  <2>2. QED BY <1>1, <2>1
<1>4. ASSUME NEW s \in Subscribers, NEW m \in Callbacks, Bus!Deliver(s, m)
      PROVE  CountInv'
  <2>1. /\ m \in stream /\ UNCHANGED <<stream, sub, handled, crashes>>
        /\ deliveries' = [deliveries EXCEPT ![m] = @ + 1]
        /\ fetched' = [fetched EXCEPT ![s] = @ \cup {<<m, deliveries'[m]>>}]
        /\ pending' = pending \cup {m}
    BY <1>4 DEF Bus!Deliver, Bus!Deliverable
  <2> DEFINE w == <<s, deliveries'[m]>>
  <2>2. \A c \in Callbacks : Handling(c)' = Handling(c) BY <2>1 DEF Handling
  <2>3. \A c \in Callbacks \ {m} : Waiting(c)' = Waiting(c) /\ deliveries'[c] = deliveries[c]
    <3>1. ASSUME NEW c \in Callbacks \ {m}, NEW t \in Subscribers, NEW k
          PROVE  <<c, k>> \in fetched'[t] <=> <<c, k>> \in fetched[t]
      BY <2>1 DEF FetchInv
    <3>2. QED BY <2>1, <3>1 DEF Waiting, FetchInv
  <2>4. deliveries[m] \in Nat /\ deliveries'[m] = deliveries[m] + 1
    BY <2>1, DeliverAssumption DEF FetchInv
  <2>5. Waiting(m)' \in SUBSET (Waiting(m) \cup {w})
    <3>1. ASSUME NEW x \in Waiting(m)', x \notin Waiting(m) PROVE x = w
      <4>1. /\ x \in Subscribers \X (1 .. MaxDeliver)
            /\ <<m, x[2]>> \in fetched'[x[1]] /\ <<m, x[2]>> \notin fetched[x[1]]
        BY <3>1 DEF Waiting
      <4>2. x[1] = s /\ <<m, x[2]>> = <<m, deliveries'[m]>>
        BY <2>1, <4>1 DEF FetchInv
      <4>3. QED BY <4>1, <4>2
    <3>2. QED BY <3>1
  <2> HIDE DEF w
  <2>6. Cardinality(Waiting(m)') \in Nat /\ Cardinality(Waiting(m)') <= Cardinality(Waiting(m)) + 1
    <3>1. /\ IsFiniteSet(Waiting(m) \cup {w})
          /\ Cardinality(Waiting(m) \cup {w}) \in Nat
          /\ Cardinality(Waiting(m) \cup {w}) <= Cardinality(Waiting(m)) + 1
      <4>1. CASE w \in Waiting(m)
        <5>1. Waiting(m) \cup {w} = Waiting(m) BY <4>1
        <5>2. IsFiniteSet(Waiting(m)) /\ Cardinality(Waiting(m)) \in Nat
          BY WaitingIsFinite
        <5>3. Cardinality(Waiting(m)) <= Cardinality(Waiting(m)) + 1 BY <5>2
        <5>4. QED BY <5>1, <5>2, <5>3
      <4>2. CASE w \notin Waiting(m)
        <5>1. /\ IsFiniteSet(Waiting(m) \cup {w})
              /\ Cardinality(Waiting(m) \cup {w}) = Cardinality(Waiting(m)) + 1
          BY <4>2, WaitingIsFinite, FS_AddElement
        <5>2. Cardinality(Waiting(m)) \in Nat BY WaitingIsFinite
        <5>3. QED BY <5>1, <5>2
      <4>3. QED BY <4>1, <4>2
    <3>2. /\ IsFiniteSet(Waiting(m)')
          /\ Cardinality(Waiting(m)') <= Cardinality(Waiting(m) \cup {w})
      BY <2>5, <3>1, FS_Subset
    <3>3. Cardinality(Waiting(m)') \in Nat BY <3>2, FS_CardinalityType
    <3>4. QED BY <3>1, <3>2, <3>3, WaitingIsFinite
  <2>7. handled'[m] + Held(m)' <= deliveries'[m]
    <3>1. handled[m] + Held(m) <= deliveries[m] /\ handled[m] \in Nat BY DEF CountInv, Types
    <3>2. QED BY <2>1, <2>2, <2>4, <2>6, <3>1, HandlingIsFinite, WaitingIsFinite DEF Held
  <2>8. QED BY <2>1, <2>2, <2>3, <2>7 DEF CountInv, Held
<1>5. ASSUME NEW s \in Subscribers, Bus!Receive(s) PROVE CountInv'
  <2>1. PICK d \in fetched[s] :
          /\ fetched' = [fetched EXCEPT ![s] = @ \ {d}]
          /\ sub' = [sub EXCEPT ![s] = [at |-> "handling", msg |-> d[1]]]
    BY <1>5 DEF Bus!Receive, Bus!Loop
  <2>2. /\ sub[s] = Bus!Next_ /\ UNCHANGED <<stream, deliveries, pending, handled, crashes>>
    BY <1>5 DEF Bus!Receive
  <2>3. PICK m \in Callbacks, k \in 1 .. MaxDeliver : d = <<m, k>> /\ d[1] = m
    BY DEF FetchInv
  <2>4. PICK new : new = [at |-> "handling", msg |-> m] OBVIOUS
  <2>5. \A c \in Callbacks : Waiting(c)' \subseteq Waiting(c) BY <2>1 DEF Waiting, FetchInv
  <2>6. <<s, k>> \in Waiting(m) /\ <<s, k>> \notin Waiting(m)'
    BY <2>1, <2>3 DEF Waiting, FetchInv
  <2>7. sub[s].at # "handling" /\ new.at = "handling" /\ new.msg = m
    BY <2>2, <2>4 DEF Bus!Next_
  <2>8. handled' \in [Callbacks -> Nat] BY <2>2 DEF Types
  <2>9. \A c \in Callbacks : handled'[c] + Held(c)' <= deliveries'[c]
    BY <2>1, <2>2, <2>3, <2>4, <2>5, <2>6, <2>7, <2>8, CountStep
  <2>10. QED BY <2>2, <2>9 DEF CountInv
<1>6. ASSUME NEW s \in Subscribers, Bus!Handle(s) PROVE CountInv'
  <2>1. PICK m \in Callbacks : m = sub[s].msg BY <1>6 DEF Bus!Handle, Types, Bus!Next_
  <2>2. PICK at \in {"acking", "naking"} :
             /\ sub' = [sub EXCEPT ![s] = [at |-> at, msg |-> m]]
             /\ handled' = [handled EXCEPT ![m] = @ + 1] \/ handled' = handled
    BY <1>6, <2>1 DEF Bus!Handle, Bus!Loop
  <2>3. PICK new : new = [at |-> at, msg |-> m] OBVIOUS
  <2>4. /\ sub[s].at = "handling" /\ new.at # "handling"
        /\ UNCHANGED <<stream, deliveries, pending, crashes, fetched>>
    BY <1>6, <2>3 DEF Bus!Handle
  <2>5. /\ handled' \in [Callbacks -> Nat] /\ handled'[m] <= handled[m] + 1
        /\ \A c \in Callbacks \ {m} : handled'[c] = handled[c]
    BY <2>2 DEF Types
  <2>6. \A c \in Callbacks : Waiting(c)' \subseteq Waiting(c) BY <2>4 DEF Waiting
  <2>7. \A c \in Callbacks : handled'[c] + Held(c)' <= deliveries'[c]
    BY <2>1, <2>2, <2>3, <2>4, <2>5, <2>6, CountStep
  <2>8. QED BY <2>4, <2>7 DEF CountInv
<1>7. ASSUME NEW s \in Subscribers, Bus!Ack(s) \/ Bus!Nak(s) \/ Bus!Crash(s)
      PROVE  CountInv'
  <2>1. /\ sub' = [sub EXCEPT ![s] = Bus!Next_] /\ pending' \subseteq pending
        /\ UNCHANGED <<stream, deliveries, handled>>
        /\ sub[s] # Bus!Next_ \/ fetched[s] # {}
        /\ crashes' \in 0 .. MaxCrashes
        /\ fetched' = fetched \/ fetched' = [fetched EXCEPT ![s] = {}]
    BY <1>7, DeliverAssumption DEF Bus!Ack, Bus!Nak, Bus!Crash, Bus!Loop, CountInv, Bus!Next_
  <2>2. PICK m \in Callbacks : sub[s].at = "handling" => sub[s].msg = m
    BY <2>1 DEF Types, Bus!Next_, FetchInv
  <2>3. PICK new : new = Bus!Next_ OBVIOUS
  <2>4. /\ handled'[m] <= handled[m] + 1 /\ handled' \in [Callbacks -> Nat]
        /\ new.at # "handling"
    BY <2>1, <2>3 DEF Types, Bus!Next_
  <2>5. \A c \in Callbacks : Waiting(c)' \subseteq Waiting(c) BY <2>1 DEF Waiting, FetchInv
  <2>6. \A c \in Callbacks : handled'[c] + Held(c)' <= deliveries'[c]
    BY <2>1, <2>2, <2>3, <2>4, <2>5, CountStep
  <2>7. QED BY <2>1, <2>6 DEF CountInv
<1>8. QED BY <1>2, <1>3, <1>4, <1>5, <1>6, <1>7 DEF Next, vars, Bus!Start

LEMMA CountInvariant == Spec => []CountInv
<1>1. Init => CountInv
  <2>1. SUFFICES ASSUME Init PROVE CountInv OBVIOUS
  <2>2. ASSUME NEW m \in Callbacks PROVE handled[m] + Held(m) <= deliveries[m]
    <3>1. Handling(m) = {} /\ Waiting(m) = {}
      BY <2>1 DEF Init, Bus!Init, Handling, Waiting
    <3>2. Held(m) = 0 BY <3>1, FS_EmptySet DEF Held
    <3>3. QED BY <2>1, <3>2 DEF Init, Bus!Init
  <2>3. QED BY <2>1, <2>2, DeliverAssumption DEF Init, Bus!Init, CountInv
<1>2. FetchInv /\ FetchInv' /\ Types /\ IInv /\ CountInv /\ [Next]_vars => CountInv'
  BY CountKept
<1>3. QED BY FetchInvariant, Invariant, <1>1, <1>2, PTL DEF Spec

-----------------------------------------------------------------------------
(***************************************************************************)
(* Theorems.                                                               *)
(***************************************************************************)
\* Both parts keep their types; in particular no deposit is delivered, or handled,
\* more than MaxDeliver times, however handlers, expiries and crashes interleave.
THEOREM TypesAreKept == Spec => []TypeOK
<1>1. ASSUME FetchInv, Types, CountInv PROVE TypeOK
  <2>1. handled \in [Callbacks -> 0 .. MaxDeliver]
    <3>1. ASSUME NEW m \in Callbacks PROVE handled[m] \in 0 .. MaxDeliver
      BY <1>1, HandlingIsFinite, WaitingIsFinite, DeliverAssumption
         DEF Types, FetchInv, CountInv, Held
    <3>2. QED BY <1>1, <3>1 DEF Types
  <2>2. fetched \in [Subscribers -> SUBSET (Callbacks \X (1 .. MaxDeliver))]
    BY <1>1 DEF FetchInv
  <2>3. QED BY <1>1, <2>1, <2>2 DEF Types, FetchInv, CountInv, TypeOK, Bus!TypeOK
<1>2. QED BY <1>1, FetchInvariant, Invariant, CountInvariant, PTL

\* A deposit reaches its handler only when the provider has completed a payment
\* that is on record.
THEOREM HandledAreCompleted == Spec => []HandledIsCompleted
<1>1. Types /\ IInv => HandledIsCompleted
  BY DEF Types, IInv, BusInv, CopyInv, HandledIsCompleted, Busy
<1>2. QED BY <1>1, Invariant, PTL

\* However slow a callback was with what it read, a payment it wrote down as failed
\* never had a deposit.
THEOREM FailedHaveNoDeposit == Spec => []FailedHasNoDeposit
<1>1. ASSUME Types, IInv PROVE FailedHasNoDeposit
  <2>1. ASSUME NEW p \in Payments, row[p] # None, row[p].status = "FAILED"
        PROVE  row[p].deposit = None /\ \A c \in stream : callback[c].payment # p
    <3>1. provider[p] = "FAILED" BY <1>1, <2>1 DEF IInv, RowInv, Told
    <3>2. row[p].deposit = None BY <1>1, <2>1, <3>1 DEF IInv, RowInv
    <3>3. \A c \in stream : provider[callback[c].payment] = "COMPLETED"
      BY <1>1 DEF Types, IInv, BusInv, CopyInv
    <3>4. QED BY <3>1, <3>2, <3>3
  <2>2. QED BY <2>1 DEF FailedHasNoDeposit
<1>2. QED BY <1>1, Invariant, PTL

\* Crashes and repeated deliveries never make an event count as done that no handler
\* has handled.
THEOREM AckedAreHandled == Spec => []AckedIsHandled
<1>1. IInv => AckedIsHandled BY DEF IInv, BusInv
<1>2. QED BY <1>1, Invariant, PTL

\* The provider and its callbacks touch the bus only as publishers do: the whole
\* refines EventDelivery, so what is published stays published, whatever happens to
\* the callback that announced it.
THEOREM ImplementsEventDelivery == Spec => Bus!Init /\ [][Bus!Next]_(Bus!vars)
<1>1. Init => Bus!Init BY DEF Init
<1>2. [Next]_vars => [Bus!Next]_(Bus!vars)
  <2>1. SUFFICES ASSUME [Next]_vars PROVE Bus!Next \/ UNCHANGED Bus!vars
    OBVIOUS
  <2>2. CASE UNCHANGED busVars BY <2>2 DEF busVars, Bus!vars
  <2>3. ASSUME NEW c \in Callbacks, PublishDepositDetected(c) \/ Bus!AckWaitExpires(c)
        PROVE  Bus!Next
    BY <2>3 DEF PublishDepositDetected, Bus!Next
  <2>4. ASSUME NEW s \in Subscribers,
               Bus!Start(s) \/ Bus!Crash(s) \/ \E c \in Callbacks : Bus!Deliver(s, c)
        PROVE  Bus!Next
    BY <2>4 DEF Bus!Next
  <2>5. QED BY <2>1, <2>2, <2>3, <2>4 DEF Next, vars
<1>3. QED BY <1>1, <1>2, PTL DEF Spec

\* What the bus has done it does not undo: events stay published and acknowledged,
\* deliveries and handled events only add up, through crashes and lost
\* acknowledgements, and an event that is acknowledged is not delivered again.
BusOnlyAdds ==
  [][/\ stream \subseteq stream' /\ acked \subseteq acked'
     /\ \A c \in Callbacks :
          /\ handled[c] <= handled'[c]
          /\ deliveries[c] <= deliveries'[c]
          /\ c \in acked => deliveries'[c] = deliveries[c]]_vars
THEOREM BusForgetsNothing == Spec => BusOnlyAdds
<1>1. Types /\ FetchInv /\ [Next]_vars =>
        [/\ stream \subseteq stream' /\ acked \subseteq acked'
         /\ \A c \in Callbacks :
              /\ handled[c] <= handled'[c]
              /\ deliveries[c] <= deliveries'[c]
              /\ c \in acked => deliveries'[c] = deliveries[c]]_vars
  <2>1. SUFFICES ASSUME Types, FetchInv, Next
        PROVE  /\ stream \subseteq stream' /\ acked \subseteq acked'
               /\ \A c \in Callbacks :
                    /\ handled[c] <= handled'[c]
                    /\ deliveries[c] <= deliveries'[c]
                    /\ c \in acked => deliveries'[c] = deliveries[c]
    OBVIOUS
  <2>2. \A c \in Callbacks : handled[c] \in Int /\ deliveries[c] \in Int
    BY <2>1, DeliverAssumption DEF Types, FetchInv
  <2>3. CASE UNCHANGED busVars BY <2>2, <2>3 DEF busVars
  <2>4. ASSUME NEW c \in Callbacks, PublishDepositDetected(c) \/ Bus!AckWaitExpires(c)
        PROVE  stream \subseteq stream' /\ UNCHANGED <<acked, handled, deliveries>>
    BY <2>4 DEF PublishDepositDetected, Bus!Publish, Bus!AckWaitExpires
  <2>5. ASSUME NEW s \in Subscribers, NEW m \in Callbacks, Bus!Deliver(s, m)
        PROVE  /\ UNCHANGED <<stream, acked, handled>> /\ m \notin acked
               /\ deliveries' = [deliveries EXCEPT ![m] = @ + 1]
    BY <2>5 DEF Bus!Deliver, Bus!Deliverable
  <2>6. ASSUME NEW s \in Subscribers, Bus!Handle(s)
        PROVE  /\ UNCHANGED <<stream, acked, deliveries>>
               /\ \/ handled' = handled
                  \/ \E m : handled' = [handled EXCEPT ![m] = @ + 1]
    BY <2>6 DEF Bus!Handle
  <2>7. ASSUME NEW s \in Subscribers, Bus!Receive(s) \/ Bus!Ack(s) \/ Bus!Nak(s) \/ Bus!Crash(s)
        PROVE  acked \subseteq acked' /\ UNCHANGED <<stream, handled, deliveries>>
    BY <2>7 DEF Bus!Receive, Bus!Ack, Bus!Nak, Bus!Crash
  <2>8. CASE \E c \in Callbacks : PublishDepositDetected(c) \/ Bus!AckWaitExpires(c)
    BY <2>2, <2>4, <2>8
  <2>9. CASE \E s \in Subscribers, m \in Callbacks : Bus!Deliver(s, m)
    BY <2>1, <2>2, <2>5, <2>9 DEF Types, FetchInv
  <2>10. CASE \E s \in Subscribers : Bus!Handle(s)
    BY <2>1, <2>2, <2>6, <2>10 DEF Types
  <2>11. CASE \E s \in Subscribers : Bus!Receive(s) \/ Bus!Ack(s) \/ Bus!Nak(s) \/ Bus!Crash(s)
    BY <2>2, <2>7, <2>11
  <2>12. QED BY <2>1, <2>3, <2>8, <2>9, <2>10, <2>11 DEF Next, Bus!Start
<1>2. QED BY <1>1, Invariant, FetchInvariant, PTL DEF Spec, BusOnlyAdds
=============================================================================
