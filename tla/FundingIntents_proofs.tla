------------------------ MODULE FundingIntents_proofs ------------------------
(***************************************************************************)
(* Proofs about FundingIntents, for any requests, calls, tenants, keys and *)
(* amounts, with and without faults and crashes.                           *)
(***************************************************************************)
EXTENDS FundingIntents, FiniteSetTheorems, TLAPS

(***************************************************************************)
(* The inductive invariant.                                                *)
(***************************************************************************)
Batches == 0 .. Cardinality(Calls)
RequestType ==
  [at : {"idle", "lost", Error}]
  \cup [at : {"initiating", "storing", "publishing"}, draft : Intent]
  \cup [at : {"answered"}, tenant : Tenants, key : Keys, intent : Requests]
Holding == {"settling", "saving", "failing", "announcing"}
MaybeCredit == Credit \cup {Null}
CallType ==
  [at : {"idle", "done", "lost", Error}]
  \cup [at : Holding, intent : Intent, credit : MaybeCredit]
Posting == [intent : Requests, amount : Amounts, by : Calls, credit : MaybeCredit]
Event == {"created", "settled", "reversed", "mismatch"} \X Requests
Types ==
  /\ intents \in [Requests -> Intent \cup {Null}]
  /\ request \in [Requests -> RequestType]
  /\ call \in [Calls -> CallType]
  /\ bank \subseteq Requests
  /\ postings \in Seq(Posting)
  /\ published \subseteq Event

Paid == {"settled", "reversed"}
SameKey(i, j) == i.tenant = j.tenant /\ i.key = j.key

\* Rows bear the name of their request and a key of their own, and what they call
\* paid was posted.
RowsInv ==
  /\ \A i \in Stored : intents[i].id = i
  /\ \A i, j \in Stored : SameKey(intents[i], intents[j]) => i = j
  /\ \A i \in Stored : intents[i].status \in Paid => PostedBy(intents[i].batch, i)

\* A request has stored nothing until it publishes, and answers with a row of the
\* key it was asked for.
RequestInv(r) ==
  /\ request[r].at \in {"idle", "initiating", "storing"} => r \notin Stored
  /\ request[r].at \in {"initiating", "storing", "publishing"} =>
       request[r].draft.id = r /\ request[r].draft.status \notin Paid
  /\ request[r].at = "publishing" => r \in Stored /\ SameKey(intents[r], request[r].draft)
  /\ request[r].at = "answered" =>
       /\ request[r].intent \in Stored
       /\ SameKey(intents[request[r].intent], request[r])

\* However stale, the copy of a call agrees with its row on what it is paid for,
\* and if it calls it paid it was posted.
CallInv(c) ==
  LET i == call[c].intent
  IN  /\ call[c].at \in Holding =>
           /\ i.id \in Stored
           /\ i.amount = intents[i.id].amount
           /\ i.status \in Paid => PostedBy(i.batch, i.id)
      /\ call[c].at \in {"saving", "announcing"} => i.status \in Paid
      /\ call[c].at \in {"idle", "settling"} =>
           \A p \in DOMAIN postings : postings[p].by # c

PublishedInv ==
  \A i \in Requests, s \in Paid : <<s, i>> \in published =>
    i \in Stored /\ \E batch \in DOMAIN postings : PostedBy(batch, i)

PostedOnce == \A p, q \in DOMAIN postings : postings[p].by = postings[q].by => p = q

IInv ==
  /\ RowsInv
  /\ \A r \in Requests : RequestInv(r)
  /\ \A c \in Calls : CallInv(c)
  /\ PublishedInv
  /\ PostedOnce

-----------------------------------------------------------------------------
(***************************************************************************)
(* What steps leave alone.                                                 *)
(***************************************************************************)
LEMMA IntentIsNotNull == \A i \in Intent : i # Null
BY NullAssumption DEF Intent

\* A call posts once, so there are no more batches than calls.
LEMMA BatchesAreBounded == Cardinality(Calls) \in Nat /\ 0 \in Batches
<1>1. Cardinality(Calls) \in Nat BY CallsAssumption, FS_CardinalityType
<1>2. QED BY <1>1 DEF Batches

LEMMA OneBatchPerCall ==
  ASSUME NEW post \in Seq(Posting),
         \A p, q \in DOMAIN post : post[p].by = post[q].by => p = q
  PROVE  Len(post) \in Batches
<1>0. Len(post) \in Nat /\ DOMAIN post = 1 .. Len(post) OBVIOUS
<1>1. ASSUME NEW p \in 1 .. Len(post) PROVE post[p].by \in Calls
  <2>1. post[p] \in Posting BY <1>0
  <2>2. QED BY <2>1 DEF Posting
<1> DEFINE by == [p \in 1 .. Len(post) |-> post[p].by]
<1>2. by \in Injection(1 .. Len(post), Calls) BY <1>0, <1>1 DEF Injection, IsInjective
<1>3. Cardinality(1 .. Len(post)) = Len(post)
  <2>1. PICK n \in Nat : n = Len(post) BY <1>0
  <2>2. 1 \in Int /\ n \in Int OBVIOUS
  <2>3. Cardinality(1 .. n) = IF 1 > n THEN 0 ELSE n - 1 + 1 BY <2>2, FS_Interval
  <2>4. QED BY <2>1, <2>3
<1> HIDE DEF by
<1>4. Cardinality(1 .. Len(post)) <= Cardinality(Calls)
  BY <1>2, CallsAssumption, FS_Injection
<1>5. QED BY <1>0, <1>3, <1>4, BatchesAreBounded DEF Batches

\* What was posted stays posted.
LEMMA PostedStays ==
  ASSUME Types, NEW i \in Stored, NEW b, PostedBy(b, i),
         intents'[i].amount = intents[i].amount,
         \/ postings' = postings
         \/ \E e \in Posting : postings' = Append(postings, e)
  PROVE  PostedBy(b, i)'
<1>1. b \in DOMAIN postings /\ postings \in Seq(Posting) BY DEF PostedBy, Types
<1>2. b \in DOMAIN postings' /\ postings'[b] = postings[b] BY <1>1
<1>3. QED BY <1>2 DEF PostedBy

\* Steps that store no row and leave amounts and keys as they are.
LEMMA SameStored ==
  ASSUME Types, IInv,
         \A i \in Requests : (i \in Stored)' <=> i \in Stored,
         \A i \in Stored : /\ intents'[i].id = intents[i].id
                           /\ intents'[i].amount = intents[i].amount
                           /\ SameKey(intents'[i], intents[i]),
         \/ postings' = postings
         \/ \E e \in Posting : postings' = Append(postings, e),
         \A i \in Stored : \/ intents'[i] = intents[i]
                           \/ intents'[i].status \in Paid => PostedBy(intents[i].batch, i)',
         \A r \in Requests : request'[r] = request[r] \/ RequestInv(r)',
         \A c \in Calls : (call'[c] = call[c] /\ postings' = postings) \/ CallInv(c)',
         \A i \in Requests, s \in Paid : <<s, i>> \in published' =>
           <<s, i>> \in published \/
           (i \in Stored /\ \E b \in DOMAIN postings : PostedBy(b, i)),
         PostedOnce'
  PROVE  IInv'
<1>1. RowsInv'
  <2>1. ASSUME NEW i \in Stored, intents'[i].status \in Paid
        PROVE  PostedBy(intents[i].batch, i)'
    <3>1. CASE intents'[i] = intents[i]
      <4>1. PICK b : b = intents[i].batch OBVIOUS
      <4>2. PostedBy(b, i) BY <2>1, <3>1, <4>1 DEF IInv, RowsInv
      <4>3. PostedBy(b, i)' BY <4>2, PostedStays
      <4>4. QED BY <3>1, <4>1, <4>3 DEF PostedBy
    <3>2. QED BY <2>1, <3>1
  <2>2. \A i, j \in Stored : SameKey(intents'[i], intents'[j]) => i = j
    BY DEF IInv, RowsInv, SameKey
  <2>3. \A i \in Requests : (i \in Stored)' => i \in Stored OBVIOUS
  <2>4. \A i : (i \in Stored)' => i \in Requests BY DEF Stored
  <2>5. QED BY <2>1, <2>2, <2>3, <2>4 DEF IInv, RowsInv
<1>2. ASSUME NEW r \in Requests PROVE RequestInv(r)'
  <2>1. CASE request'[r] = request[r]
    <3>1. RequestInv(r) BY DEF IInv
    <3>2. request[r].at = "answered" => request[r].intent \in Requests
      BY DEF Types, RequestType, Error
    <3>3. QED BY <2>1, <3>1, <3>2 DEF RequestInv, SameKey
  <2>2. QED BY <2>1
<1>3. ASSUME NEW c \in Calls PROVE CallInv(c)'
  <2>1. CASE call'[c] = call[c] /\ postings' = postings
    <3>1. CallInv(c) BY DEF IInv
    <3>2. call[c].at \in Holding =>
            \A b : PostedBy(b, call[c].intent.id) => PostedBy(b, call[c].intent.id)'
      <4>1. ASSUME call[c].at \in Holding, NEW b, PostedBy(b, call[c].intent.id)
            PROVE  PostedBy(b, call[c].intent.id)'
        <5>1. PICK i \in Stored : i = call[c].intent.id BY <3>1, <4>1 DEF CallInv
        <5>2. PostedBy(b, i)' BY <4>1, <5>1, PostedStays
        <5>3. call'[c].intent.id = i BY <2>1, <5>1
        <5>4. QED BY <5>2, <5>3
      <4>2. QED BY <4>1
    <3>3. QED BY <2>1, <3>1, <3>2 DEF CallInv, Stored, PostedBy
  <2>2. QED BY <2>1
<1>4. PublishedInv'
  <2>1. ASSUME NEW i \in Requests, NEW s \in Paid, <<s, i>> \in published'
        PROVE  (i \in Stored)' /\ \E b \in DOMAIN postings' : PostedBy(b, i)'
    <3>1. PICK b \in DOMAIN postings : i \in Stored /\ PostedBy(b, i)
      BY <2>1 DEF IInv, PublishedInv
    <3>2. PostedBy(b, i)' BY <3>1, PostedStays
    <3>3. QED BY <3>1, <3>2 DEF PostedBy
  <2>2. QED BY <2>1 DEF PublishedInv
<1>5. QED BY <1>1, <1>2, <1>3, <1>4 DEF IInv

-----------------------------------------------------------------------------
(***************************************************************************)
(* CreateIntent.                                                           *)
(***************************************************************************)
LEMMA RequestStep ==
  ASSUME Types, IInv, NEW r \in Requests, UNCHANGED <<intents, call, postings>>,
         NEW new \in RequestType, request' = [request EXCEPT ![r] = new],
         RequestInv(r)', bank' \subseteq Requests, published' \subseteq Event,
         \A i \in Requests, s \in Paid : <<s, i>> \in published' => <<s, i>> \in published
  PROVE  Types' /\ IInv'
<1>1. Types' BY DEF Types
<1>2. \A q \in Requests : request'[q] = request[q] \/ RequestInv(q)' BY DEF Types
<1>3. PostedOnce' BY DEF IInv, PostedOnce
<1>4. IInv' BY <1>2, <1>3, SameStored DEF Stored, SameKey
<1>5. QED BY <1>1, <1>4

LEMMA LookupKeeps ==
  ASSUME Types, IInv, NEW r \in Requests, Lookup(r)
  PROVE  Types' /\ IInv'
<1>1. /\ request[r].at = "idle" /\ r \notin Stored
      /\ UNCHANGED <<intents, call, bank, postings, published>>
      /\ bank \subseteq Requests /\ published \subseteq Event
  BY DEF Lookup, IInv, RequestInv, Types
<1>2. PICK tenant \in Tenants, key \in Keys :
        \/ \E i \in WithKey(tenant, key) : Answer(r, intents[i])
        \/ Reject(r)
        \/ \E amount \in {a \in Amounts : a > 0}, currency \in Currencies,
              method \in Methods, window \in Windows :
             request' = [request EXCEPT ![r] =
               [at |-> IF method = "OPEN_BANKING" THEN "initiating" ELSE "storing",
                draft |-> NewFundingIntent(r, tenant, key, amount, currency, method, window)]]
  BY DEF Lookup, ValidAmount
<1>3. ASSUME NEW i \in WithKey(tenant, key), Answer(r, intents[i]) PROVE Types' /\ IInv'
  <2>1. i \in Stored /\ i \in Requests /\ intents[i] \in Intent /\ intents[i].id = i
    BY <1>3 DEF WithKey, Stored, Types, IInv, RowsInv
  <2> DEFINE new == [at |-> "answered", tenant |-> intents[i].tenant,
                     key |-> intents[i].key, intent |-> intents[i].id]
  <2>2. new \in RequestType BY <2>1 DEF Intent, RequestType
  <2>3. request' = [request EXCEPT ![r] = new] BY <1>3 DEF Answer
  <2>4. request'[r] = new BY <2>3 DEF Types
  <2>5. RequestInv(r)' BY <1>1, <2>1, <2>4 DEF RequestInv, Stored, SameKey
  <2> HIDE DEF new
  <2>6. QED BY <1>1, <2>2, <2>3, <2>5, RequestStep
<1>4. CASE Reject(r)
  <2>1. request' = [request EXCEPT ![r] = [at |-> Error]] BY <1>4 DEF Reject
  <2>2. RequestInv(r)' BY <2>1 DEF Types, RequestInv, Error
  <2>3. [at |-> Error] \in RequestType BY DEF RequestType
  <2>4. QED BY <1>1, <2>1, <2>2, <2>3, RequestStep
<1>5. ASSUME NEW amount \in {a \in Amounts : a > 0}, NEW currency \in Currencies,
             NEW method \in Methods, NEW window \in Windows,
             request' = [request EXCEPT ![r] =
               [at |-> IF method = "OPEN_BANKING" THEN "initiating" ELSE "storing",
                draft |-> NewFundingIntent(r, tenant, key, amount, currency, method, window)]]
      PROVE  Types' /\ IInv'
  <2> DEFINE draft == NewFundingIntent(r, tenant, key, amount, currency, method, window)
             at == IF method = "OPEN_BANKING" THEN "initiating" ELSE "storing"
  <2>1. draft \in Intent /\ draft.id = r /\ draft.status = "created"
    <3>1. 0 \in Batches BY BatchesAreBounded
    <3>2. QED BY <1>2, <3>1 DEF NewFundingIntent, Intent, Status, Batches
  <2>2. at \in {"initiating", "storing"} OBVIOUS
  <2> HIDE DEF draft, at
  <2>3. request' = [request EXCEPT ![r] = [at |-> at, draft |-> draft]] BY <1>5 DEF draft, at
  <2>4. [at |-> at, draft |-> draft] \in RequestType BY <2>1, <2>2 DEF RequestType
  <2>5. request'[r] = [at |-> at, draft |-> draft] BY <2>3 DEF Types
  <2>6. RequestInv(r)' BY <1>1, <2>1, <2>2, <2>5 DEF RequestInv, Stored, Paid
  <2>7. QED BY <1>1, <2>3, <2>4, <2>6, RequestStep
<1>6. QED BY <1>2, <1>3, <1>4, <1>5

LEMMA InitiateKeeps ==
  ASSUME Types, IInv, NEW r \in Requests, Initiate(r)
  PROVE  Types' /\ IInv'
<1>1. /\ request[r].at = "initiating" /\ r \notin Stored
      /\ UNCHANGED <<intents, call, postings, published>>
      /\ bank' \subseteq Requests /\ published \subseteq Event
  BY DEF Initiate, IInv, RequestInv, Types
<1>2. CASE Reject(r)
  <2>1. request' = [request EXCEPT ![r] = [at |-> Error]] BY <1>2 DEF Reject
  <2>2. RequestInv(r)' BY <2>1 DEF Types, RequestInv, Error
  <2>3. [at |-> Error] \in RequestType BY DEF RequestType
  <2>4. QED BY <1>1, <2>1, <2>2, <2>3, RequestStep
<1>3. CASE request' = [request EXCEPT ![r].at = "storing", ![r].draft.status = "pending"]
  <2>1. request[r] \in [at : {"initiating"}, draft : Intent]
    BY <1>1 DEF Types, RequestType, Error
  <2> DEFINE draft == [request[r].draft EXCEPT !.status = "pending"]
             moved == [request[r] EXCEPT !.at = "storing"]
             new == [moved EXCEPT !.draft = draft]
  <2>2. request[r].draft \in Intent /\ request[r].draft.id = r
    BY <1>1, <2>1 DEF IInv, RequestInv
  <2>3. draft \in Intent /\ draft.id = r /\ draft.status = "pending"
    BY <2>2 DEF Intent, Status
  <2>4. moved \in [at : {"storing"}, draft : Intent] BY <2>1
  <2>5. request' = [request EXCEPT ![r] = new] BY <1>3, <2>1 DEF Types
  <2> HIDE DEF draft, moved
  <2>6. new \in [at : {"storing"}, draft : Intent] /\ new.draft = draft BY <2>3, <2>4
  <2> HIDE DEF new
  <2>7. new \in RequestType BY <2>6 DEF RequestType
  <2>8. request'[r] = new BY <2>5 DEF Types
  <2>9. RequestInv(r)' BY <1>1, <2>3, <2>6, <2>8 DEF RequestInv, Stored, Paid
  <2>10. QED BY <1>1, <2>5, <2>7, <2>9, RequestStep
<1>4. QED BY <1>2, <1>3 DEF Initiate

LEMMA PublishCreatedKeeps ==
  ASSUME Types, IInv, NEW r \in Requests, PublishCreated(r)
  PROVE  Types' /\ IInv'
<1> DEFINE draft == request[r].draft
<1>1. /\ request[r].at = "publishing" /\ UNCHANGED <<intents, call, postings>>
      /\ r \in Stored /\ SameKey(intents[r], draft) /\ draft.id = r
      /\ published' \subseteq published \cup {<<"created", r>>}
      /\ bank' \subseteq Requests /\ published' \subseteq Event
  BY DEF PublishCreated, IInv, RequestInv, OrFails, Types, Event
<1>2. draft \in Intent BY <1>1 DEF Types, RequestType, Error
<1> DEFINE new == [at |-> "answered", tenant |-> draft.tenant, key |-> draft.key,
                   intent |-> draft.id]
<1>3. request' = [request EXCEPT ![r] = new] BY DEF PublishCreated, Answer
<1> HIDE DEF draft
<1>4. new \in RequestType BY <1>2 DEF RequestType, Intent
<1>5. request'[r] = new BY <1>3 DEF Types
<1>6. RequestInv(r)' BY <1>1, <1>5 DEF RequestInv, Stored, SameKey
<1>7. \A i \in Requests, s \in Paid : <<s, i>> \in published' => <<s, i>> \in published
  BY <1>1 DEF Paid
<1> HIDE DEF new
<1>8. QED BY <1>1, <1>3, <1>4, <1>6, <1>7, RequestStep

\* The insert: the constraint on tenant and key is what makes the key unique.
LEMMA StoreKeeps ==
  ASSUME Types, IInv, NEW r \in Requests, Store(r)
  PROVE  Types' /\ IInv'
<1> DEFINE draft == request[r].draft
<1>1. /\ request[r].at = "storing" /\ UNCHANGED <<call, bank, postings, published>>
      /\ r \notin Stored /\ draft.id = r /\ draft.status \notin Paid
      /\ bank' \subseteq Requests /\ published' \subseteq Event
  BY DEF Store, IInv, RequestInv, Types
<1>2. request[r] \in [at : {"storing"}, draft : Intent] /\ draft \in Intent
  BY <1>1 DEF Types, RequestType, Error
<1>3. CASE Reject(r) /\ UNCHANGED intents
  <2>1. request' = [request EXCEPT ![r] = [at |-> Error]] BY <1>3 DEF Reject
  <2>2. RequestInv(r)' BY <2>1 DEF Types, RequestInv, Error
  <2>3. [at |-> Error] \in RequestType BY DEF RequestType
  <2>4. QED BY <1>1, <1>3, <2>1, <2>2, <2>3, RequestStep
<1>4. CASE /\ ~Taken(draft) /\ intents' = [intents EXCEPT ![r] = draft]
           /\ request' \in {[request EXCEPT ![r].at = "publishing"],
                            [request EXCEPT ![r] = [at |-> Error]]}
  <2> DEFINE published_ == [request[r] EXCEPT !.at = "publishing"]
  <2>1. published_ \in [at : {"publishing"}, draft : Intent] /\ published_.draft = draft
    BY <1>2
  <2>2. PICK new \in {published_, [at |-> Error]} : request' = [request EXCEPT ![r] = new]
    BY <1>4
  <2> HIDE DEF published_, draft
  <2>3. new \in RequestType BY <2>1, <2>2 DEF RequestType
  <2>4. request'[r] = new /\ \A q \in Requests : q # r => request'[q] = request[q]
    BY <2>2 DEF Types
  <2>5. intents'[r] = draft /\ \A i \in Requests : i # r => intents'[i] = intents[i]
    BY <1>4 DEF Types
  <2>6. draft # Null BY <1>2, IntentIsNotNull
  <2>7. \A i : (i \in Stored)' <=> i \in Stored \/ i = r BY <2>5, <2>6 DEF Stored
  <2>8. \A i \in Stored : i \in Requests /\ i # r /\ ~SameKey(intents[i], draft)
    BY <1>1, <1>4 DEF Taken, WithKey, SameKey, Stored
  <2>9. ASSUME NEW i \in Stored, NEW b, PostedBy(b, i) PROVE PostedBy(b, i)'
    BY <1>1, <2>5, <2>8, <2>9 DEF PostedBy
  <2>10. RowsInv'
    <3>1. \A i \in Stored' : intents'[i].id = i
      BY <1>1, <2>5, <2>7, <2>8 DEF IInv, RowsInv, draft
    <3>2. \A i, j \in Stored' : SameKey(intents'[i], intents'[j]) => i = j
      BY <2>5, <2>7, <2>8 DEF IInv, RowsInv, SameKey
    <3>3. ASSUME NEW i \in Stored', intents'[i].status \in Paid
          PROVE  PostedBy(intents[i].batch, i)'
      <4>1. i \in Stored /\ intents'[i] = intents[i]
        BY <1>1, <2>5, <2>7, <2>8, <3>3 DEF draft
      <4>2. PICK b : b = intents[i].batch OBVIOUS
      <4>3. PostedBy(b, i)' BY <2>9, <3>3, <4>1, <4>2 DEF IInv, RowsInv
      <4>4. QED BY <4>1, <4>2, <4>3 DEF PostedBy
    <3>4. QED BY <3>1, <3>2, <3>3 DEF RowsInv
  <2>11. ASSUME NEW q \in Requests PROVE RequestInv(q)'
    <3>1. CASE q = r
      <4>1. CASE new = [at |-> Error] BY <2>4, <3>1, <4>1 DEF RequestInv, Error
      <4>2. CASE new = published_
        BY <1>1, <2>1, <2>4, <2>5, <2>7, <3>1, <4>2 DEF RequestInv, SameKey, draft
      <4>3. QED BY <2>2, <4>1, <4>2
    <3>2. CASE q # r
      <4>1. RequestInv(q) BY DEF IInv
      <4>2. (q \in Stored)' <=> q \in Stored BY <2>7, <3>2
      <4>3. request[q].at = "publishing" => intents'[q] = intents[q] BY <2>5, <3>2
      <4>4. request[q].at = "answered" =>
              /\ (request[q].intent \in Stored)'
              /\ intents'[request[q].intent] = intents[request[q].intent]
        BY <2>4, <2>5, <2>7, <2>8, <3>2, <4>1 DEF RequestInv
      <4>5. QED BY <2>4, <3>2, <4>1, <4>2, <4>3, <4>4 DEF RequestInv
    <3>3. QED BY <3>1, <3>2
  <2>12. ASSUME NEW c \in Calls PROVE CallInv(c)'
    <3>1. CallInv(c) BY DEF IInv
    <3>2. CASE call[c].at \in Holding
      <4>1. PICK i \in Stored : i = call[c].intent.id BY <3>1, <3>2 DEF CallInv
      <4>2. (i \in Stored)' /\ intents'[i] = intents[i] BY <2>5, <2>7, <2>8
      <4>3. PICK b : b = call[c].intent.batch OBVIOUS
      <4>4. call[c].intent.status \in Paid => PostedBy(b, i)'
        BY <2>9, <3>1, <3>2, <4>1, <4>3 DEF CallInv
      <4>5. call'[c] = call[c] /\ postings' = postings BY <1>1
      <4>6. QED BY <3>1, <3>2, <4>1, <4>2, <4>3, <4>4, <4>5 DEF CallInv
    <3>3. CASE call[c].at \notin Holding BY <1>1, <3>1, <3>3 DEF CallInv, Holding
    <3>4. QED BY <3>2, <3>3
  <2>13. PublishedInv' BY <1>1, <2>7, <2>9 DEF IInv, PublishedInv
  <2>14. PostedOnce' BY <1>1 DEF IInv, PostedOnce
  <2>15. Types' BY <1>1, <1>2, <1>4, <2>2, <2>3 DEF Types, draft
  <2>16. QED BY <2>10, <2>11, <2>12, <2>13, <2>14, <2>15 DEF IInv
<1>5. QED BY <1>3, <1>4 DEF Store, OrFails

-----------------------------------------------------------------------------
(***************************************************************************)
(* The calls.                                                              *)
(***************************************************************************)
LEMMA CallStep ==
  ASSUME Types, IInv, NEW c \in Calls, UNCHANGED <<intents, request, bank, postings>>,
         published' \subseteq Event, NEW new \in CallType, call' = [call EXCEPT ![c] = new], CallInv(c)',
         \A i \in Requests, s \in Paid : <<s, i>> \in published' =>
           <<s, i>> \in published \/
           (i \in Stored /\ \E b \in DOMAIN postings : PostedBy(b, i))
  PROVE  Types' /\ IInv'
<1>1. Types' BY DEF Types
<1>2. \A d \in Calls : (call'[d] = call[d] /\ postings' = postings) \/ CallInv(d)' BY DEF Types
<1>3. PostedOnce' BY DEF IInv, PostedOnce
<1>4. IInv' BY <1>2, <1>3, SameStored DEF Stored, SameKey
<1>5. QED BY <1>1, <1>4

\* A call that ends holds nothing.
LEMMA FinishKeeps ==
  ASSUME Types, IInv, NEW c \in Calls, NEW at \in {"done", Error}, Finish(c, at),
         UNCHANGED <<intents, request, bank, postings>>, published' \subseteq Event,
         \A i \in Requests, s \in Paid : <<s, i>> \in published' =>
           <<s, i>> \in published \/
           (i \in Stored /\ \E b \in DOMAIN postings : PostedBy(b, i))
  PROVE  Types' /\ IInv'
<1>1. call' = [call EXCEPT ![c] = [at |-> at]] BY DEF Finish
<1>2. [at |-> at] \in CallType BY DEF CallType
<1>3. CallInv(c)' BY <1>1 DEF Types, CallInv, Holding, Error
<1>4. QED BY <1>1, <1>2, <1>3, CallStep

\* A call takes a copy of a row, or of what the state machine makes of it.
LEMMA CopyKeeps ==
  ASSUME Types, IInv, NEW c \in Calls, NEW i \in Intent, NEW at \in Holding,
         NEW credit \in MaybeCredit, Copy(c, i, at, credit),
         UNCHANGED <<intents, request, bank, postings, published>>,
         i.id \in Stored, i.amount = intents[i.id].amount,
         i.status \in Paid => PostedBy(i.batch, i.id),
         at = "settling" => call[c].at = "idle",
         at \in {"saving", "announcing"} => i.status \in Paid
  PROVE  Types' /\ IInv'
<1> DEFINE new == [at |-> at, intent |-> i, credit |-> credit]
<1>1. call' = [call EXCEPT ![c] = new] /\ new \in CallType BY DEF Copy, CallType
<1>2. call'[c] = new BY <1>1 DEF Types
<1>3. CallInv(c) /\ published' \subseteq Event BY DEF IInv, Types
<1>4. CallInv(c)' BY <1>2, <1>3 DEF CallInv, Stored, PostedBy, Holding
<1> HIDE DEF new
<1>5. QED BY <1>1, <1>3, <1>4, CallStep

LEMMA ReportKeeps ==
  ASSUME Types, IInv, NEW c \in Calls,
         \/ ProcessInboundCredit(c)
         \/ \E i \in Requests : \/ ProcessChargeback(c, i)
                                \/ \E captured \in BOOLEAN : ProcessCardPayment(c, i, captured)
  PROVE  Types' /\ IInv'
<1>1. UNCHANGED <<intents, request, bank, postings>> /\ call[c].at = "idle"
      /\ (published' = published => published' \subseteq Event)
  BY DEF Types, ProcessInboundCredit, ProcessChargeback, ProcessCardPayment
<1>2. ASSUME NEW i \in Stored
      PROVE  /\ intents[i] \in Intent /\ intents[i].id = i /\ i \in Requests
             /\ intents[i].status \in Paid => PostedBy(intents[i].batch, i)
  BY DEF Stored, Types, IInv, RowsInv
<1>3. ASSUME NEW i \in Stored, NEW s \in Status, s \in Paid => intents[i].status \in Paid,
             NEW at \in {"saving", "failing"}, at = "saving" => s \in Paid,
             Copy(c, [intents[i] EXCEPT !.status = s], at, Null), UNCHANGED published
      PROVE  Types' /\ IInv'
  <2> DEFINE new == [intents[i] EXCEPT !.status = s]
  <2>1. /\ new \in Intent /\ new.id = i /\ new.amount = intents[i].amount
        /\ new.status = s /\ new.batch = intents[i].batch
    BY <1>2 DEF Intent
  <2>2. new.status \in Paid => PostedBy(new.batch, new.id) BY <1>2, <1>3, <2>1
  <2>3. Copy(c, new, at, Null) /\ Null \in MaybeCredit /\ at \in Holding /\ at # "settling"
        /\ (at \in {"saving", "announcing"} => new.status \in Paid)
    BY <1>3, <2>1 DEF MaybeCredit, Holding
  <2> HIDE DEF new
  <2>4. QED BY <1>1, <1>3, <2>1, <2>2, <2>3, CopyKeeps
<1>4. CASE ProcessInboundCredit(c)
  <2>1. ASSUME NEW at \in {"done", Error}, Finish(c, at), NEW i,
               published' \subseteq published \cup {<<"mismatch", i>>},
               i \in Requests \/ UNCHANGED published
        PROVE  Types' /\ IInv'
    <3>1. /\ \A j \in Requests :
               \A s \in Paid : <<s, j>> \in published' => <<s, j>> \in published
          /\ published' \subseteq Event
      BY <2>1 DEF Types, Event, Paid
    <3>2. QED BY <1>1, <2>1, <3>1, FinishKeeps
  <2>2. ASSUME NEW i \in Stored, NEW credit \in Credit,
               Copy(c, intents[i], "settling", credit), UNCHANGED published
        PROVE  Types' /\ IInv'
    <3>1. /\ intents[i] \in Intent /\ intents[i].id \in Stored
          /\ intents[i].status \in Paid => PostedBy(intents[i].batch, intents[i].id)
          /\ intents[intents[i].id].amount = intents[i].amount
      BY <1>2, <2>2
    <3>2. "settling" \in Holding /\ credit \in MaybeCredit BY DEF Holding, MaybeCredit
    <3>3. QED BY <1>1, <2>2, <3>1, <3>2, CopyKeeps
  <2>3. PICK credit \in Credit :
          \/ Finish(c, "done") /\ UNCHANGED published
          \/ \E i \in GetIntentByReference(credit.reference) :
               IF AmountMatches(intents[i], credit)
               THEN Copy(c, intents[i], "settling", credit) /\ UNCHANGED published
               ELSE /\ Finish(c, Error)
                    /\ published' \in OrFails(published \cup {<<"mismatch", i>>}, published)
    BY <1>4 DEF ProcessInboundCredit
  <2>4. CASE Finish(c, "done") /\ UNCHANGED published BY <2>1, <2>4
  <2>5. ASSUME NEW i \in GetIntentByReference(credit.reference),
               IF AmountMatches(intents[i], credit)
               THEN Copy(c, intents[i], "settling", credit) /\ UNCHANGED published
               ELSE /\ Finish(c, Error)
                    /\ published' \in OrFails(published \cup {<<"mismatch", i>>}, published)
        PROVE  Types' /\ IInv'
    <3>1. i \in Stored /\ i \in Requests BY DEF GetIntentByReference, Stored
    <3>2. CASE AmountMatches(intents[i], credit) BY <2>2, <2>5, <3>1, <3>2
    <3>3. CASE ~AmountMatches(intents[i], credit)
      BY <2>1, <2>5, <3>1, <3>3 DEF OrFails
    <3>4. QED BY <3>2, <3>3
  <2>6. QED BY <2>3, <2>4, <2>5
<1>5. ASSUME NEW i \in Requests, ProcessChargeback(c, i) PROVE Types' /\ IInv'
  <2>1. UNCHANGED published BY <1>5 DEF ProcessChargeback
  <2>2. CASE Finish(c, Error) BY <1>1, <2>1, <2>2, FinishKeeps
  <2>3. CASE i \in Stored /\ MarkReversed(intents[i]) # Null
             /\ Copy(c, MarkReversed(intents[i]), "saving", Null)
    <3>1. /\ intents[i].status = "settled"
          /\ Copy(c, [intents[i] EXCEPT !.status = "reversed"], "saving", Null)
      BY <2>3 DEF MarkReversed
    <3>2. "reversed" \in Status \cap Paid /\ intents[i].status \in Paid BY <3>1 DEF Status, Paid
    <3>3. QED BY <1>3, <2>1, <2>3, <3>1, <3>2
  <2>4. QED BY <1>5, <2>2, <2>3 DEF ProcessChargeback
<1>6. ASSUME NEW i \in Requests, NEW captured \in BOOLEAN, ProcessCardPayment(c, i, captured)
      PROVE  Types' /\ IInv'
  <2>1. UNCHANGED published BY <1>6 DEF ProcessCardPayment
  <2>2. CASE Finish(c, Error) BY <1>1, <2>1, <2>2, FinishKeeps
  <2>3. CASE i \in Stored /\ Copy(c, intents[i], "settling", Null)
    <3>1. /\ intents[i] \in Intent /\ intents[i].id = i
          /\ intents[i].status \in Paid => PostedBy(intents[i].batch, intents[i].id)
      BY <1>2, <2>3
    <3>2. Null \in MaybeCredit /\ "settling" \in Holding
      BY DEF MaybeCredit, Holding
    <3>3. QED BY <1>1, <2>1, <2>3, <3>1, <3>2, CopyKeeps
  <2>4. CASE i \in Stored /\ Copy(c, intents[i], "failing", Null)
    <3>1. /\ intents[i] \in Intent /\ intents[i].id = i
          /\ intents[i].status \in Paid => PostedBy(intents[i].batch, intents[i].id)
      BY <1>2, <2>4
    <3>2. Null \in MaybeCredit /\ "failing" \in Holding BY DEF MaybeCredit, Holding
    <3>3. QED BY <1>1, <2>1, <2>4, <3>1, <3>2, CopyKeeps
  <2>5. CASE i \in Stored /\ Copy(c, [intents[i] EXCEPT !.status = "failed"], "failing", Null)
    <3>1. "failed" \in Status /\ "failed" \notin Paid BY DEF Status, Paid
    <3>2. QED BY <1>3, <2>1, <2>5, <3>1
  <2>6. QED
    BY <1>6, <2>2, <2>3, <2>4, <2>5 DEF ProcessCardPayment, MarkFailed
<1>7. QED BY <1>4, <1>5, <1>6

\* The ledger's batch is written before the intent knows of it.
LEMMA PostKeeps ==
  ASSUME Types, IInv, NEW c \in Calls, Post(c)
  PROVE  Types' /\ IInv'
<1>1. /\ call[c].at = "settling" /\ UNCHANGED <<intents, request, bank, published>>
      /\ published' \subseteq Event
  BY DEF Post, Types
<1>2. PICK i \in Intent : i = call[c].intent BY <1>1 DEF Types, CallType, Holding, Error
<1>3. PICK e : e = [intent |-> i.id, amount |-> i.amount, by |-> c,
                    credit |-> call[c].credit]
  OBVIOUS
<1>4. /\ i.id \in Stored /\ i.amount = intents[i.id].amount
      /\ \A p \in DOMAIN postings : postings[p].by # c
      /\ i.status \in Paid => PostedBy(i.batch, i.id)
  BY <1>1, <1>2 DEF IInv, CallInv, Holding
<1>5. e \in Posting
  <2>1. call[c].credit \in MaybeCredit BY <1>1 DEF Types, CallType, Holding, Error
  <2>2. QED BY <1>2, <1>3, <2>1 DEF Intent, Posting
<1> DEFINE post == Append(postings, e)
           settled == MarkSettled(i, Len(post))
<1>6. \/ /\ postings' = post
         /\ IF settled = Null THEN Finish(c, Error) ELSE Copy(c, settled, "saving", Null)
      \/ Finish(c, Error) /\ postings' \in {post, postings}
  BY <1>2, <1>3 DEF Post
<1>7. postings \in Seq(Posting) BY DEF Types
<1>8. /\ post \in Seq(Posting) /\ Len(post) = Len(postings) + 1 /\ Len(post) \in Nat
      /\ post[Len(post)] = e /\ DOMAIN post = DOMAIN postings \cup {Len(post)}
      /\ \A p \in DOMAIN postings : post[p] = postings[p]
  BY <1>5, <1>7
<1>8a. \A p, q \in DOMAIN post : post[p].by = post[q].by => p = q
  BY <1>3, <1>4, <1>8 DEF IInv, PostedOnce
<1>8b. Len(post) \in Batches BY <1>8, <1>8a, OneBatchPerCall
<1>9. CASE postings' = postings /\ Finish(c, Error) BY <1>1, <1>9, FinishKeeps
<1>10. ASSUME postings' = post, NEW new \in CallType, call' = [call EXCEPT ![c] = new],
              CallInv(c)'
       PROVE  Types' /\ IInv'
  <2>1. call'[c] = new /\ \A d \in Calls : d # c => call'[d] = call[d]
    BY <1>10 DEF Types
  <2> HIDE DEF post
  <2>2. Types' BY <1>1, <1>8, <1>10 DEF Types
  <2>3. PostedOnce' BY <1>10, <1>8a DEF PostedOnce
  <2>4. ASSUME NEW d \in Calls PROVE CallInv(d)'
    <3>1. CASE d = c BY <1>10, <3>1
    <3>2. CASE d # c
      <4>1. CallInv(d) /\ call'[d] = call[d] BY <2>1, <3>2 DEF IInv
      <4>2. call[d].at \in {"idle", "settling"} => \A p \in DOMAIN post : post[p].by # d
        BY <1>3, <1>8, <3>2, <4>1 DEF CallInv
      <4>3. call[d].at \in Holding /\ call[d].intent.status \in Paid =>
              PostedBy(call[d].intent.batch, call[d].intent.id)'
        BY <1>1, <1>8, <1>10, <4>1 DEF CallInv, PostedBy
      <4>4. QED BY <1>1, <1>10, <4>1, <4>2, <4>3 DEF CallInv, Stored
    <3>3. QED BY <3>1, <3>2
  <2>5. postings' = postings \/ \E x \in Posting : postings' = Append(postings, x)
    BY <1>5, <1>10 DEF post
  <2>6. IInv' BY <1>1, <2>3, <2>4, <2>5, SameStored DEF Stored, SameKey
  <2>7. QED BY <2>2, <2>6
<1>11. CASE postings' = post /\ Finish(c, Error)
  <2>1. call' = [call EXCEPT ![c] = [at |-> Error]] BY <1>11 DEF Finish
  <2>2. [at |-> Error] \in CallType BY DEF CallType
  <2>3. CallInv(c)' BY <2>1 DEF Types, CallInv, Holding, Error
  <2>4. QED BY <1>10, <1>11, <2>1, <2>2, <2>3
<1>12. CASE postings' = post /\ settled # Null /\ Copy(c, settled, "saving", Null)
  <2>1. settled = [i EXCEPT !.status = "settled", !.batch = Len(post)]
    BY <1>12 DEF MarkSettled
  <2> HIDE DEF post
  <2>2. /\ settled \in Intent /\ settled.id = i.id /\ settled.amount = i.amount
        /\ settled.batch = Len(post)
        /\ settled.status = "settled"
    BY <1>2, <1>8, <1>8b, <2>1 DEF Intent, Status, Batches
  <2> HIDE DEF settled
  <2> DEFINE new == [at |-> "saving", intent |-> settled, credit |-> Null]
  <2>3. call' = [call EXCEPT ![c] = new] BY <1>12 DEF Copy
  <2>4. new \in CallType BY <2>2 DEF CallType, Holding, MaybeCredit
  <2>5. PICK n, j : n = Len(post) /\ j = i.id OBVIOUS
  <2>6. PostedBy(n, j)'
    <3>1. n \in DOMAIN post /\ post[n].intent = j /\ post[n].amount = intents[j].amount
      BY <1>3, <1>4, <1>8, <2>5
    <3>2. postings' = post /\ intents' = intents BY <1>1, <1>12
    <3>3. QED BY <3>1, <3>2 DEF PostedBy
  <2>7. CallInv(c)'
    <3>1. /\ call'[c].at = "saving" /\ call'[c].intent.id = j
          /\ call'[c].intent.batch = n /\ call'[c].intent.amount = i.amount
          /\ call'[c].intent.status \in Paid
      BY <2>2, <2>3, <2>5 DEF Types, Paid
    <3>2. j \in Stored' /\ i.amount = intents'[j].amount BY <1>1, <1>4, <2>5 DEF Stored
    <3>3. QED BY <2>6, <3>1, <3>2 DEF CallInv
  <2> HIDE DEF new
  <2>8. QED BY <1>10, <1>12, <2>3, <2>4, <2>7
<1>13. QED BY <1>6, <1>9, <1>11, <1>12

\* Writing a copy back changes no amount and no key, and what it calls paid was
\* posted, however stale it is.
LEMMA WriteBack ==
  ASSUME Types, IInv, NEW c \in Calls, call[c].at \in Holding, UNCHANGED postings,
         intents' \in {UpdateIntent(call[c].intent), intents}
  PROVE  /\ intents' \in [Requests -> Intent \cup {Null}]
         /\ \A q \in Requests : (q \in Stored)' <=> q \in Stored
         /\ \A q \in Stored : /\ intents'[q].id = intents[q].id
                              /\ intents'[q].amount = intents[q].amount
                              /\ intents'[q].reference = intents[q].reference
                              /\ SameKey(intents'[q], intents[q])
         /\ \A q \in Stored : \/ intents'[q] = intents[q]
                              \/ intents'[q].status \in Paid => PostedBy(intents[q].batch, q)'
<1>1. CASE intents' = intents BY <1>1 DEF Types, Stored, SameKey
<1>2. CASE intents' = UpdateIntent(call[c].intent)
  <2>1. PICK i \in Intent : i = call[c].intent BY DEF Types, CallType, Holding, Error
  <2>2. PICK j, b : j = i.id /\ b = i.batch OBVIOUS
  <2>3. /\ j \in Stored /\ j \in Requests /\ intents[j] \in Intent
        /\ i.status \in Paid => PostedBy(b, j)
    BY <2>1, <2>2 DEF IInv, CallInv, Stored, Types
  <2> DEFINE marked == [intents[j] EXCEPT !.status = i.status]
             new == [marked EXCEPT !.batch = b]
  <2>4. intents' = [intents EXCEPT ![j] = new]
    BY <1>2, <2>1, <2>2, <2>3 DEF UpdateIntent, Types
  <2>5. marked \in Intent /\ marked.status = i.status /\ marked.id = intents[j].id
        /\ marked.amount = intents[j].amount /\ marked.reference = intents[j].reference
        /\ SameKey(marked, intents[j])
    BY <2>1, <2>3 DEF Intent, SameKey
  <2> HIDE DEF marked
  <2>6. new \in Intent /\ new.status = i.status /\ new.id = intents[j].id /\ new.batch = b
        /\ new.amount = intents[j].amount /\ new.reference = intents[j].reference
        /\ SameKey(new, intents[j])
    BY <2>1, <2>2, <2>5 DEF Intent, SameKey
  <2> HIDE DEF new
  <2>7. intents'[j] = new /\ \A q \in Requests : q # j => intents'[q] = intents[q]
    BY <2>3, <2>4 DEF Types
  <2>8. new # Null BY <2>6, IntentIsNotNull
  <2>9. intents' \in [Requests -> Intent \cup {Null}] BY <2>4, <2>6 DEF Types
  <2>10. \A q \in Requests : (q \in Stored)' <=> q \in Stored
    BY <2>3, <2>7, <2>8 DEF Stored
  <2>11. \A q \in Stored : q \in Requests BY DEF Stored
  <2>12. \A q \in Stored : /\ intents'[q].id = intents[q].id
                           /\ intents'[q].amount = intents[q].amount
                           /\ intents'[q].reference = intents[q].reference
                           /\ SameKey(intents'[q], intents[q])
    BY <2>6, <2>7, <2>11 DEF SameKey
  <2>13. intents'[j].status \in Paid => PostedBy(intents[j].batch, j)'
    BY <2>3, <2>6, <2>7 DEF PostedBy
  <2>14. QED BY <2>7, <2>9, <2>10, <2>11, <2>12, <2>13
<1>3. QED BY <1>1, <1>2

LEMMA SaveKeeps ==
  ASSUME Types, IInv, NEW c \in Calls, Save(c) \/ SaveFailed(c)
  PROVE  Types' /\ IInv'
<1>1. /\ call[c].at \in Holding /\ UNCHANGED <<request, bank, postings, published>>
      /\ intents' \in {UpdateIntent(call[c].intent), intents}
  BY DEF Save, SaveFailed, Holding, OrFails
<1>2. PICK i \in Intent : i = call[c].intent BY <1>1 DEF Types, CallType, Holding, Error
<1>3. ASSUME NEW new \in CallType, call' = [call EXCEPT ![c] = new], CallInv(c)'
      PROVE  Types' /\ IInv'
  <2>1. Types' BY <1>1, <1>3, WriteBack DEF Types
  <2>2. \A d \in Calls : (call'[d] = call[d] /\ postings' = postings) \/ CallInv(d)'
    BY <1>1, <1>3 DEF Types
  <2>3. PostedOnce' BY <1>1 DEF IInv, PostedOnce
  <2>4. IInv' BY <1>1, <2>2, <2>3, WriteBack, SameStored
  <2>5. QED BY <2>1, <2>4
<1>4. ASSUME NEW at \in {"done", Error}, Finish(c, at) PROVE Types' /\ IInv'
  <2>1. call' = [call EXCEPT ![c] = [at |-> at]] BY <1>4 DEF Finish
  <2>2. [at |-> at] \in CallType BY DEF CallType
  <2>3. CallInv(c)' BY <2>1 DEF Types, CallInv, Holding, Error
  <2>4. QED BY <1>3, <2>1, <2>2, <2>3
<1>5. CASE Save(c) /\ call' = [call EXCEPT ![c].at = "announcing"]
  <2> DEFINE new == [call[c] EXCEPT !.at = "announcing"]
  <2>1. call[c] \in [at : Holding, intent : Intent, credit : MaybeCredit]
    BY <1>1 DEF Types, CallType, Holding, Error
  <2>2. /\ new \in [at : Holding, intent : Intent, credit : MaybeCredit]
        /\ new.at = "announcing" /\ new.intent = i
    BY <1>2, <2>1 DEF Holding
  <2>3. call' = [call EXCEPT ![c] = new] BY <1>5 DEF Types
  <2>3a. call[c].at = "saving" BY <1>5 DEF Save
  <2> HIDE DEF new
  <2>4. call'[c] = new BY <2>3 DEF Types
  <2>5. PICK j, b : j = i.id /\ b = i.batch OBVIOUS
  <2>6. /\ j \in Stored /\ j \in Requests /\ i.amount = intents[j].amount
        /\ i.status \in Paid => PostedBy(b, j)
    BY <1>1, <1>2, <2>5 DEF IInv, CallInv, Stored
  <2>6a. i.status \in Paid BY <1>2, <2>3a DEF IInv, CallInv
  <2>7. (j \in Stored)' /\ intents'[j].amount = intents[j].amount
    BY <1>1, <2>6, WriteBack
  <2>8. i.status \in Paid => PostedBy(b, j)' BY <1>1, <2>6, <2>7 DEF PostedBy
  <2>9. CallInv(c)' BY <2>2, <2>4, <2>5, <2>6, <2>7, <2>8, <2>6a DEF CallInv
  <2>10. new \in CallType BY <2>2 DEF CallType
  <2>11. QED BY <1>3, <2>3, <2>9, <2>10
<1>6. QED BY <1>4, <1>5 DEF Save, SaveFailed

LEMMA AnnounceKeeps ==
  ASSUME Types, IInv, NEW c \in Calls, Announce(c)
  PROVE  Types' /\ IInv'
<1>1. /\ call[c].at = "announcing" /\ Finish(c, "done")
      /\ UNCHANGED <<intents, request, bank, postings>>
  BY DEF Announce
<1>2. PICK i \in Intent : i = call[c].intent BY <1>1 DEF Types, CallType, Holding, Error
<1>3. published' \subseteq published \cup {<<i.status, i.id>>}
  BY <1>2 DEF Announce, OrFails
<1>4. i.id \in Stored /\ i.status \in Paid /\ PostedBy(i.batch, i.id)
  BY <1>1, <1>2 DEF IInv, CallInv, Holding
<1>5. ASSUME NEW q \in Requests, NEW s \in Paid, <<s, q>> \in published', <<s, q>> \notin published
      PROVE  q \in Stored /\ \E b \in DOMAIN postings : PostedBy(b, q)
  <2>1. q = i.id BY <1>3, <1>5
  <2>2. PostedBy(i.batch, q) BY <1>4, <2>1
  <2>3. QED BY <1>4, <2>1, <2>2 DEF PostedBy
<1>6. published' \subseteq Event BY <1>2, <1>3, <1>4 DEF Types, Event, Paid, Intent
<1>7. QED BY <1>1, <1>5, <1>6, FinishKeeps

\* A crash ends calls and requests, and undoes nothing that was written.
LEMMA CrashKeeps ==
  ASSUME Types, IInv, Crash
  PROVE  Types' /\ IInv'
<1>1. UNCHANGED <<intents, bank, postings, published>> BY DEF Crash
<1>2. \A r \in Requests : request'[r] = request[r] \/ request'[r] = [at |-> "lost"]
  BY DEF Crash, Interrupted
<1>3. \A c \in Calls : call'[c] = call[c] \/ call'[c] = [at |-> "lost"]
  BY DEF Crash, Interrupted
<1>4. [at |-> "lost"] \in RequestType /\ [at |-> "lost"] \in CallType
  BY DEF RequestType, CallType
<1>5. DOMAIN request' = Requests /\ request' = [r \in Requests |-> request'[r]]
      /\ DOMAIN call' = Calls /\ call' = [c \in Calls |-> call'[c]]
  BY DEF Crash
<1>6. request' \in [Requests -> RequestType] BY <1>2, <1>4, <1>5 DEF Types
<1>7. call' \in [Calls -> CallType] BY <1>3, <1>4, <1>5 DEF Types
<1>8. Types' BY <1>1, <1>6, <1>7 DEF Types
<1>9. \A r \in Requests : request'[r] = request[r] \/ RequestInv(r)' BY <1>2 DEF RequestInv
<1>10. \A c \in Calls : (call'[c] = call[c] /\ postings' = postings) \/ CallInv(c)'
  BY <1>1, <1>3 DEF CallInv, Holding
<1>11. PostedOnce' BY <1>1 DEF IInv, PostedOnce
<1>12. IInv' BY <1>1, <1>9, <1>10, <1>11, SameStored DEF Stored, SameKey
<1>13. QED BY <1>8, <1>12

-----------------------------------------------------------------------------
LEMMA InitHolds == ASSUME Init PROVE Types /\ IInv
<1>1. Stored = {} BY DEF Init, Stored
<1>2. Types
  <2>1. intents \in [Requests -> {Null}] BY DEF Init
  <2>2. request \in [Requests -> [at : {"idle", "lost", Error}]] BY DEF Init
  <2>3. call \in [Calls -> [at : {"idle", "done", "lost", Error}]] BY DEF Init
  <2>4. postings \in Seq(Posting) BY DEF Init
  <2>5. bank \subseteq Requests /\ published \subseteq Event BY DEF Init
  <2>6. QED BY <2>1, <2>2, <2>3, <2>4, <2>5 DEF Types, RequestType, CallType
<1>3. RowsInv /\ PublishedInv /\ PostedOnce
  BY <1>1 DEF Init, RowsInv, PublishedInv, PostedOnce
<1>4. \A r \in Requests : RequestInv(r) BY <1>1 DEF Init, RequestInv
<1>5. \A c \in Calls : CallInv(c) BY DEF Init, CallInv, Holding
<1>6. QED BY <1>2, <1>3, <1>4, <1>5 DEF IInv

LEMMA NextKeeps == ASSUME Types, IInv, [Next]_vars PROVE Types' /\ IInv'
<1>1. CASE UNCHANGED vars
  <2>1. UNCHANGED <<intents, request, call, bank, postings, published>> BY <1>1 DEF vars
  <2>2. Types' BY <2>1 DEF Types
  <2>3. PostedOnce' BY <2>1 DEF IInv, PostedOnce
  <2>4. IInv' BY <2>1, <2>3, SameStored DEF Stored, SameKey
  <2>5. QED BY <2>2, <2>4
<1>2. QED
  BY <1>1, LookupKeeps, InitiateKeeps, StoreKeeps, PublishCreatedKeeps, ReportKeeps,
     PostKeeps, SaveKeeps, AnnounceKeeps, CrashKeeps DEF Next

-----------------------------------------------------------------------------
(***************************************************************************)
(* Bank payments and credits.  Only an intent whose payment was initiated  *)
(* becomes pending, and only a pending copy is settled; what a credit was  *)
(* matched by never changes in a row.                                      *)
(***************************************************************************)
Started == {"pending"} \cup Paid
Fits(i, credit) ==
  /\ intents[i].tenant = DefaultTenant
  /\ intents[i].reference = credit.reference
  /\ intents[i].amount = credit.amount

HeldOk(c) ==
  call[c].at \in Holding =>
    /\ call[c].intent.status \in Started => call[c].intent.id \in bank
    /\ call[c].credit # Null => Fits(call[c].intent.id, call[c].credit)
DraftOk(r) ==
  request[r].at \in {"initiating", "storing", "publishing"}
    /\ request[r].draft.status \in Started
  => r \in bank
PostingOk(p) ==
  p.credit # Null =>
    p.intent \in Stored /\ Fits(p.intent, p.credit) /\ p.amount = p.credit.amount

BankInv ==
  /\ \A i \in Stored : intents[i].status \in Started => i \in bank
  /\ \A r \in Requests : DraftOk(r)
  /\ \A c \in Calls : HeldOk(c)
  /\ \A i \in Requests, s \in Paid : <<s, i>> \in published => i \in bank
  /\ \A p \in DOMAIN postings : PostingOk(postings[p])

\* No step changes what a row is matched by.
LEMMA RowsStay ==
  ASSUME Types, IInv, [Next]_vars, NEW i \in Stored
  PROVE  /\ (i \in Stored)'
         /\ intents'[i].tenant = intents[i].tenant
         /\ intents'[i].reference = intents[i].reference
         /\ intents'[i].amount = intents[i].amount
<1>1. CASE UNCHANGED intents BY <1>1 DEF Stored
<1>2. ASSUME NEW r \in Requests, Store(r), intents' = [intents EXCEPT ![r] = request[r].draft]
      PROVE  intents'[i] = intents[i]
  <2>1. r \notin Stored BY <1>2 DEF Store, IInv, RequestInv
  <2>2. i # r /\ i \in Requests BY <2>1 DEF Stored
  <2>3. QED BY <1>2, <2>2 DEF Types
<1>3. ASSUME NEW c \in Calls, Save(c) \/ SaveFailed(c)
      PROVE  /\ (i \in Stored)'
             /\ intents'[i].tenant = intents[i].tenant
             /\ intents'[i].reference = intents[i].reference
             /\ intents'[i].amount = intents[i].amount
  <2>1. /\ call[c].at \in Holding /\ UNCHANGED postings
        /\ intents' \in {UpdateIntent(call[c].intent), intents}
    BY <1>3 DEF Save, SaveFailed, Holding, OrFails
  <2>2. i \in Requests BY DEF Stored
  <2>3. QED BY <2>1, <2>2, WriteBack DEF SameKey
<1>4. CASE Next
  <2>1. \/ UNCHANGED intents
        \/ \E r \in Requests : Store(r) /\ intents' = [intents EXCEPT ![r] = request[r].draft]
        \/ \E c \in Calls : Save(c) \/ SaveFailed(c)
    BY <1>4 DEF Next, Lookup, Initiate, Store, PublishCreated, ProcessChargeback,
                ProcessCardPayment, ProcessInboundCredit, Post, Announce, Crash
  <2>2. QED BY <1>1, <1>2, <1>3, <2>1 DEF Stored
<1>5. CASE UNCHANGED vars BY <1>1, <1>5 DEF vars
<1>6. QED BY <1>4, <1>5

\* What a step owes: its own row, draft, copy, event and batch.
LEMMA BankStep ==
  ASSUME Types, IInv, BankInv, [Next]_vars, bank \subseteq bank',
         \A i \in Requests : intents'[i] # Null =>
           intents'[i] = intents[i] \/ (intents'[i].status \in Started => i \in bank'),
         \A r \in Requests : request'[r] = request[r] \/ DraftOk(r)',
         \A c \in Calls : call'[c] = call[c] \/ HeldOk(c)',
         \A i \in Requests, s \in Paid :
           <<s, i>> \in published' => <<s, i>> \in published \/ i \in bank',
         \/ postings' = postings
         \/ \E e \in Posting : postings' = Append(postings, e) /\ PostingOk(e)
  PROVE  BankInv'
<1>1. \A i \in Stored : \A credit : Fits(i, credit) => (i \in Stored)' /\ Fits(i, credit)'
  BY RowsStay DEF Fits
<1>2. \A i \in Stored' : intents'[i].status \in Started => i \in bank'
  BY DEF BankInv, Stored
<1>3. \A r \in Requests : DraftOk(r)' BY DEF BankInv, DraftOk
<1>4. ASSUME NEW c \in Calls PROVE HeldOk(c)'
  <2>1. CASE call'[c] = call[c] /\ call[c].at \in Holding
    <3>1. call[c].intent.id \in Stored BY <2>1 DEF IInv, CallInv
    <3>2. PICK i, credit : i = call[c].intent.id /\ credit = call[c].credit OBVIOUS
    <3>3. HeldOk(c) BY DEF BankInv
    <3>4. credit # Null => Fits(i, credit)'
      BY <1>1, <2>1, <3>1, <3>2, <3>3 DEF HeldOk
    <3>5. QED BY <2>1, <3>2, <3>3, <3>4 DEF HeldOk, Fits
  <2>2. QED BY <2>1 DEF HeldOk
<1>5. \A i \in Requests, s \in Paid : <<s, i>> \in published' => i \in bank'
  BY DEF BankInv
<1>6. ASSUME NEW p, PostingOk(p) PROVE PostingOk(p)'
  <2>1. CASE p.credit # Null
    <3>1. PICK i, credit : i = p.intent /\ credit = p.credit OBVIOUS
    <3>2. (i \in Stored)' /\ Fits(i, credit)' BY <1>1, <1>6, <2>1, <3>1 DEF PostingOk
    <3>3. QED BY <1>6, <2>1, <3>1, <3>2 DEF PostingOk, Fits
  <2>2. QED BY <2>1 DEF PostingOk
<1>7. \A p \in DOMAIN postings' : PostingOk(postings'[p])
  <2>1. CASE postings' = postings BY <2>1 DEF BankInv
  <2>2. ASSUME NEW e \in Posting, postings' = Append(postings, e), PostingOk(e)
        PROVE  \A p \in DOMAIN postings' : PostingOk(postings'[p])
    <3>1. PICK old \in Seq(Posting) : old = postings BY DEF Types
    <3>2. PICK new : new = Append(old, e) OBVIOUS
    <3>3. /\ new[Len(new)] = e /\ DOMAIN new = DOMAIN old \cup {Len(new)}
          /\ \A p \in DOMAIN old : new[p] = old[p]
      BY <2>2, <3>1, <3>2
    <3>4. \A p \in DOMAIN postings' :
            postings'[p] = e \/ (p \in DOMAIN postings /\ postings'[p] = postings[p])
      BY <2>2, <3>1, <3>2, <3>3
    <3>5. QED BY <2>2, <3>4 DEF BankInv
  <2>3. QED BY <2>1, <2>2
<1>8. \A p \in DOMAIN postings' : PostingOk(postings[p])'
  <2>1. ASSUME NEW p \in DOMAIN postings' PROVE PostingOk(postings[p])'
    <3>1. PICK e : e = postings'[p] OBVIOUS
    <3>2. PostingOk(e)' BY <1>6, <1>7, <3>1
    <3>3. QED BY <3>1, <3>2 DEF PostingOk
  <2>2. QED BY <2>1
<1>9. QED BY <1>2, <1>3, <1>4, <1>5, <1>8 DEF BankInv

LEMMA BankKept ==
  ASSUME Types, IInv, BankInv, [Next]_vars
  PROVE  BankInv'
<1>1. CASE UNCHANGED vars BY <1>1, BankStep DEF vars
<1>2. ASSUME NEW r \in Requests, Lookup(r) PROVE BankInv'
  <2>1. UNCHANGED <<intents, call, bank, postings, published>> BY <1>2 DEF Lookup
  <2>2. \/ \E i \in Requests : Answer(r, intents[i])
        \/ Reject(r)
        \/ \E tenant \in Tenants, key \in Keys, amount \in Amounts, currency \in Currencies,
              method \in Methods, window \in Windows :
             request' = [request EXCEPT ![r] =
               [at |-> IF method = "OPEN_BANKING" THEN "initiating" ELSE "storing",
                draft |-> NewFundingIntent(r, tenant, key, amount, currency, method, window)]]
    BY <1>2 DEF Lookup, WithKey, Stored
  <2>3. \A q \in Requests : request'[q] = request[q] \/ DraftOk(q)'
    BY <2>2 DEF Answer, Reject, Error, DraftOk, NewFundingIntent, Started, Paid, Types
  <2>4. QED BY <2>1, <2>3, BankStep
<1>3. ASSUME NEW r \in Requests, Initiate(r) PROVE BankInv'
  <2>1. UNCHANGED <<intents, call, postings, published>> /\ bank \subseteq bank'
    BY <1>3 DEF Initiate
  <2>2. \/ Reject(r)
        \/ /\ request' = [request EXCEPT ![r].at = "storing", ![r].draft.status = "pending"]
           /\ r \in bank'
    BY <1>3 DEF Initiate
  <2>3. \A q \in Requests : request'[q] = request[q] \/ DraftOk(q)'
    BY <2>2 DEF Reject, Error, DraftOk, Types
  <2>4. QED BY <2>1, <2>3, BankStep
<1>4. ASSUME NEW r \in Requests, Store(r) PROVE BankInv'
  <2>1. UNCHANGED <<call, bank, postings, published>> /\ request[r].at = "storing"
    BY <1>4 DEF Store
  <2>2. /\ UNCHANGED intents \/ intents' = [intents EXCEPT ![r] = request[r].draft]
        /\ \/ request' = [request EXCEPT ![r].at = "publishing"]
           \/ request' = [request EXCEPT ![r] = [at |-> Error]]
    BY <1>4 DEF Store, Reject, OrFails
  <2>3. DraftOk(r) BY DEF BankInv
  <2>4. \A i \in Requests : intents'[i] = intents[i] \/
                            (intents'[i].status \in Started => i \in bank')
    BY <2>1, <2>2, <2>3 DEF DraftOk, Types
  <2>5. request[r] \in [at : {"storing"}, draft : Intent]
    BY <2>1 DEF Types, RequestType, Error
  <2>6. \A q \in Requests : request'[q] = request[q] \/ DraftOk(q)'
    <3>1. CASE request' = [request EXCEPT ![r] = [at |-> Error]]
      BY <3>1 DEF Error, DraftOk, Types
    <3>2. CASE request' = [request EXCEPT ![r].at = "publishing"]
      <4>1. /\ \A q \in Requests : q # r => request'[q] = request[q]
            /\ request'[r] = [request[r] EXCEPT !.at = "publishing"]
        BY <3>2 DEF Types
      <4>2. request'[r].draft = request[r].draft BY <2>5, <4>1
      <4>3. QED BY <2>1, <2>3, <4>1, <4>2 DEF DraftOk
    <3>3. QED BY <2>2, <3>1, <3>2
  <2>7. QED BY <2>1, <2>4, <2>6, BankStep
<1>5. ASSUME NEW r \in Requests, PublishCreated(r) PROVE BankInv'
  <2>1. UNCHANGED <<intents, call, bank, postings>> BY <1>5 DEF PublishCreated
  <2>2. \A q \in Requests : request'[q] = request[q] \/ DraftOk(q)'
    BY <1>5 DEF PublishCreated, Answer, DraftOk, Types
  <2>3. \A i \in Requests, s \in Paid : <<s, i>> \in published' => <<s, i>> \in published
    BY <1>5 DEF PublishCreated, OrFails, Paid
  <2>4. QED BY <2>1, <2>2, <2>3, BankStep
<1>6. ASSUME NEW c \in Calls, NEW at, Finish(c, at), at \notin Holding
      PROVE  \A d \in Calls : call'[d] = call[d] \/ HeldOk(d)'
  BY <1>6 DEF Finish, HeldOk, Types
<1>7. ASSUME NEW c \in Calls, NEW i, NEW at, NEW credit, Copy(c, i, at, credit),
             UNCHANGED <<intents, bank>>, i.status \in Started => i.id \in bank,
             credit # Null => Fits(i.id, credit)
      PROVE  \A d \in Calls : call'[d] = call[d] \/ HeldOk(d)'
  <2>1. call'[c] = [at |-> at, intent |-> i, credit |-> credit]
        /\ \A d \in Calls : d # c => call'[d] = call[d]
    BY <1>7 DEF Copy, Types
  <2>2. PICK n : n = i.id OBVIOUS
  <2>3. HeldOk(c)' BY <1>7, <2>1, <2>2 DEF HeldOk, Fits
  <2>4. QED BY <2>1, <2>3
<1>8. \A at \in {"done", Error} : at \notin Holding BY DEF Holding, Error
<1>9. ASSUME NEW c \in Calls, ProcessInboundCredit(c) PROVE BankInv'
  <2>1. UNCHANGED <<intents, request, bank, postings>> BY <1>9 DEF ProcessInboundCredit
  <2>2. PICK credit \in Credit :
          \/ Finish(c, "done") /\ UNCHANGED published
          \/ \E i \in GetIntentByReference(credit.reference) :
               IF AmountMatches(intents[i], credit)
               THEN Copy(c, intents[i], "settling", credit) /\ UNCHANGED published
               ELSE /\ Finish(c, Error)
                    /\ published' \in OrFails(published \cup {<<"mismatch", i>>}, published)
    BY <1>9 DEF ProcessInboundCredit
  <2>3. \A i \in Requests, s \in Paid : <<s, i>> \in published' => <<s, i>> \in published
    BY <2>2 DEF OrFails, Paid
  <2>4. ASSUME NEW i \in GetIntentByReference(credit.reference),
               AmountMatches(intents[i], credit), Copy(c, intents[i], "settling", credit)
        PROVE  \A d \in Calls : call'[d] = call[d] \/ HeldOk(d)'
    <3>1. i \in Stored /\ intents[i].id = i
      BY <2>4 DEF GetIntentByReference, IInv, RowsInv
    <3>2. intents[i].status \in Started => i \in bank BY <3>1 DEF BankInv
    <3>3. Fits(i, credit) BY <2>4 DEF Fits, GetIntentByReference, AmountMatches
    <3>4. PICK copy : copy = intents[i] OBVIOUS
    <3>5. Copy(c, copy, "settling", credit) /\ copy.id = i BY <2>4, <3>1, <3>4
    <3>6. QED BY <1>7, <2>1, <3>2, <3>3, <3>4, <3>5
  <2>5. \A d \in Calls : call'[d] = call[d] \/ HeldOk(d)'
    BY <1>6, <1>8, <2>2, <2>4
  <2>6. QED BY <2>1, <2>3, <2>5, BankStep
<1>10. ASSUME NEW c \in Calls, NEW i \in Requests, NEW captured \in BOOLEAN,
              ProcessChargeback(c, i) \/ ProcessCardPayment(c, i, captured)
       PROVE  BankInv'
  <2>1. UNCHANGED <<intents, request, bank, postings, published>>
    BY <1>10 DEF ProcessChargeback, ProcessCardPayment
  <2>2. \/ Finish(c, Error)
        \/ /\ i \in Stored
           /\ \/ \E at \in Holding : Copy(c, intents[i], at, Null)
              \/ Copy(c, [intents[i] EXCEPT !.status = "failed"], "failing", Null)
              \/ /\ intents[i].status = "settled"
                 /\ Copy(c, [intents[i] EXCEPT !.status = "reversed"], "saving", Null)
    BY <1>10 DEF ProcessChargeback, ProcessCardPayment, MarkFailed, MarkReversed, Holding
  <2>3. ASSUME i \in Stored, NEW s, NEW at, s \in Started => intents[i].status \in Started,
               Copy(c, [intents[i] EXCEPT !.status = s], at, Null)
        PROVE  \A d \in Calls : call'[d] = call[d] \/ HeldOk(d)'
    <3>1. intents[i] \in Intent /\ intents[i].id = i BY <2>3 DEF Types, Stored, IInv, RowsInv
    <3>2. PICK copy : copy = [intents[i] EXCEPT !.status = s] OBVIOUS
    <3>3. copy.id = i /\ copy.status = s BY <3>1, <3>2 DEF Intent
    <3>4. intents[i].status \in Started => i \in bank BY <2>3 DEF BankInv
    <3>5. QED BY <1>7, <2>1, <2>3, <3>2, <3>3, <3>4
  <2>4. ASSUME i \in Stored, NEW at \in Holding, Copy(c, intents[i], at, Null)
        PROVE  \A d \in Calls : call'[d] = call[d] \/ HeldOk(d)'
    <3>1. intents[i] \in Intent BY <2>4 DEF Types, Stored
    <3>2. [intents[i] EXCEPT !.status = intents[i].status] = intents[i] BY <3>1 DEF Intent
    <3>3. QED BY <2>3, <2>4, <3>2
  <2>5. "failed" \notin Started /\ "settled" \in Started BY DEF Started, Paid
  <2>6. \A d \in Calls : call'[d] = call[d] \/ HeldOk(d)'
    BY <1>6, <1>8, <2>2, <2>3, <2>4, <2>5
  <2>7. QED BY <2>1, <2>6, BankStep
<1>11. ASSUME NEW c \in Calls, Post(c) PROVE BankInv'
  <2> DEFINE i == call[c].intent
  <2>1. /\ call[c].at = "settling" /\ UNCHANGED <<intents, request, bank, published>>
        /\ HeldOk(c) /\ CallInv(c)
    BY <1>11 DEF Post, IInv, BankInv
  <2>2. /\ i \in Intent /\ i.id \in Stored /\ i.amount = intents[i.id].amount
        /\ i.status \in Started => i.id \in bank
        /\ call[c].credit \in MaybeCredit
        /\ call[c].credit # Null => Fits(i.id, call[c].credit)
    BY <2>1 DEF Types, CallType, Error, Holding, CallInv, HeldOk
  <2>3. PICK e : e = [intent |-> i.id, amount |-> i.amount, by |-> c,
                      credit |-> call[c].credit]
    OBVIOUS
  <2>4. e \in Posting /\ PostingOk(e)
    BY <2>2, <2>3 DEF Posting, Intent, PostingOk, Fits
  <2>5. PICK n : n = Len(Append(postings, e)) OBVIOUS
  <2>6. /\ postings' = postings \/ postings' = Append(postings, e)
        /\ \/ Finish(c, Error)
           \/ MarkSettled(i, n) # Null /\ Copy(c, MarkSettled(i, n), "saving", Null)
    BY <1>11, <2>3, <2>5 DEF Post
  <2>7. \A d \in Calls : call'[d] = call[d] \/ HeldOk(d)'
    <3>1. CASE Finish(c, Error) BY <1>6, <1>8, <3>1
    <3>2. CASE MarkSettled(i, n) # Null /\ Copy(c, MarkSettled(i, n), "saving", Null)
      <4>1. i.status = "pending" BY <3>2 DEF MarkSettled
      <4>2. PICK copy : copy = MarkSettled(i, n) OBVIOUS
      <4>3. copy.id = i.id BY <2>2, <4>1, <4>2 DEF MarkSettled, Intent
      <4>4. copy.id \in bank BY <2>2, <4>1, <4>3 DEF Started
      <4>5. QED BY <1>7, <2>1, <3>2, <4>2, <4>4
    <3>3. QED BY <2>6, <3>1, <3>2
  <2>8. QED BY <2>1, <2>4, <2>6, <2>7, BankStep
<1>12. ASSUME NEW c \in Calls, Save(c) \/ SaveFailed(c) PROVE BankInv'
  <2> DEFINE i == call[c].intent
  <2>1. /\ call[c].at \in Holding /\ UNCHANGED <<request, bank, postings, published>>
        /\ intents' = intents \/ intents' = UpdateIntent(i)
        /\ HeldOk(c) /\ CallInv(c)
    BY <1>12 DEF Save, SaveFailed, Holding, OrFails, IInv, BankInv
  <2>2. PICK j, b, s : j = i.id /\ b = i.batch /\ s = i.status OBVIOUS
  <2>3. j \in Stored /\ j \in Requests /\ (s \in Started => j \in bank)
    BY <2>1, <2>2 DEF CallInv, HeldOk, Stored
  <2>4. \A q \in Requests : intents'[q] = intents[q] \/
                            (intents'[q].status \in Started => q \in bank')
    <3>1. CASE intents' = UpdateIntent(i)
      <4>1. intents' = [intents EXCEPT ![j] = [[intents[j] EXCEPT !.status = s] EXCEPT !.batch = b]]
        BY <2>2, <2>3, <3>1 DEF UpdateIntent, Types
      <4>2. intents[j] \in Intent BY <2>3 DEF Types, Stored
      <4>3. PICK k : k = [intents[j] EXCEPT !.status = s] OBVIOUS
      <4>4. k.status = s /\ [k EXCEPT !.batch = b].status = s BY <4>2, <4>3 DEF Intent
      <4>5. QED BY <2>1, <2>3, <4>1, <4>3, <4>4 DEF Types
    <3>2. QED BY <2>1, <3>1
  <2>5. \/ Finish(c, Error) \/ Finish(c, "done")
        \/ call' = [call EXCEPT ![c].at = "announcing"]
    BY <1>12 DEF Save, SaveFailed
  <2>6. \A d \in Calls : call'[d] = call[d] \/ HeldOk(d)'
    <3>1. CASE call' = [call EXCEPT ![c].at = "announcing"]
      <4>1. /\ \A d \in Calls : d # c => call'[d] = call[d]
            /\ call'[c] = [call[c] EXCEPT !.at = "announcing"]
        BY <3>1 DEF Types
      <4>2. call[c] \in [at : Holding, intent : Intent, credit : MaybeCredit]
        BY <2>1 DEF Types, CallType, Error, Holding
      <4>3. call'[c].intent = i /\ call'[c].credit = call[c].credit BY <4>1, <4>2
      <4>4. PICK credit : credit = call[c].credit OBVIOUS
      <4>5. credit # Null => Fits(j, credit)
        BY <2>1, <2>2, <4>4 DEF HeldOk
      <4>6. credit # Null => Fits(j, credit)' BY <2>3, <4>5, RowsStay DEF Fits
      <4>7. HeldOk(c)' BY <2>1, <2>2, <2>3, <4>3, <4>4, <4>6 DEF HeldOk, Fits
      <4>8. QED BY <4>1, <4>7
    <3>2. QED BY <1>6, <1>8, <2>5, <3>1
  <2>7. QED BY <2>1, <2>4, <2>6, BankStep
<1>13. ASSUME NEW c \in Calls, Announce(c) PROVE BankInv'
  <2> DEFINE i == call[c].intent
  <2>1. /\ call[c].at = "announcing" /\ UNCHANGED <<intents, request, bank, postings>>
        /\ published' \subseteq published \cup {<<i.status, i.id>>}
        /\ Finish(c, "done") /\ HeldOk(c)
    BY <1>13 DEF Announce, OrFails, BankInv
  <2>2. \A j \in Requests, s \in Paid :
          <<s, j>> \in published' => <<s, j>> \in published \/ j \in bank'
    BY <2>1 DEF HeldOk, Holding, Started
  <2>3. \A d \in Calls : call'[d] = call[d] \/ HeldOk(d)' BY <1>6, <1>8, <2>1
  <2>4. QED BY <2>1, <2>2, <2>3, BankStep
<1>14. CASE Crash
  <2>1. UNCHANGED <<intents, bank, postings, published>> BY <1>14 DEF Crash
  <2>2. \A r \in Requests : request'[r] = request[r] \/ DraftOk(r)'
    BY <1>14 DEF Crash, Interrupted, DraftOk
  <2>3. \A c \in Calls : call'[c] = call[c] \/ HeldOk(c)'
    BY <1>14 DEF Crash, Interrupted, HeldOk, Holding
  <2>4. QED BY <2>1, <2>2, <2>3, BankStep
<1>15. QED
  BY <1>1, <1>2, <1>3, <1>4, <1>5, <1>9, <1>10, <1>11, <1>12, <1>13, <1>14 DEF Next

LEMMA Invariant == Spec => [](Types /\ IInv /\ BankInv)
<1>1. Init => Types /\ IInv /\ BankInv
  BY InitHolds DEF Init, BankInv, DraftOk, HeldOk, Holding, Stored
<1>2. (Types /\ IInv /\ BankInv) /\ [Next]_vars => (Types /\ IInv /\ BankInv)'
  BY NextKeeps, BankKept
<1>3. QED BY <1>1, <1>2, PTL DEF Spec

-----------------------------------------------------------------------------
(***************************************************************************)
(* Theorems.                                                               *)
(***************************************************************************)
\* Every copy of an intent, in a row, a draft or a call however stale, stays an
\* intent for a positive amount, and names a batch only as high as calls can post.
THEOREM TypesAreKept == Spec => []TypeOK
<1>1. Types => TypeOK
  BY DEF Types, TypeOK, RequestType, CallType, Holding, MaybeCredit, Posting, Event
<1>2. QED BY <1>1, Invariant, PTL

\* However requests with one key race, retry or find the lookup failing, those that
\* get an answer get one and the same intent.
THEOREM KeysAreHonoured == Spec => []OneIntentPerKey
<1>1. ASSUME Types, IInv PROVE OneIntentPerKey
  <2>1. ASSUME NEW r \in Requests, NEW q \in Requests,
               request[r].at = "answered", request[q].at = "answered",
               request[r].tenant = request[q].tenant, request[r].key = request[q].key
        PROVE  request[r].intent = request[q].intent /\ request[r].intent \in Stored
    <3>1. /\ request[r].intent \in Stored /\ request[q].intent \in Stored
          /\ SameKey(intents[request[r].intent], request[r])
          /\ SameKey(intents[request[q].intent], request[q])
      BY <1>1, <2>1 DEF IInv, RequestInv
    <3>2. SameKey(intents[request[r].intent], intents[request[q].intent])
      BY <2>1, <3>1 DEF SameKey
    <3>3. QED BY <1>1, <3>1, <3>2 DEF IInv, RowsInv
  <2>2. QED BY <2>1 DEF OneIntentPerKey
<1>2. QED BY <1>1, Invariant, PTL

\* What the invariants say of settlements and of credits.
LEMMA InvariantsSay ==
  ASSUME Types, IInv, BankInv
  PROVE  SettlementIsBacked /\ CreditsAreMatched
<1>1. SettlementIsBacked
  BY DEF IInv, RowsInv, PublishedInv, BankInv, SettlementIsBacked, Stored, Paid, Started
<1>2. CreditsAreMatched
  <2>1. \A p \in DOMAIN postings : PostingOk(postings[p]) BY DEF BankInv
  <2>2. QED
    BY <2>1 DEF IInv, PostedOnce, PostingOk, Fits, CreditsAreMatched, GetIntentByReference
<1>3. QED BY <1>1, <1>2

\* Whichever stale copy was written last, what is settled or reversed, on record or
\* in an event, is in the ledger with the intent's amount and was initiated at the
\* bank.
THEOREM SettlementsAreBacked == Spec => []SettlementIsBacked
BY Invariant, InvariantsSay, PTL

\* Each report of money posts at most once, and a bank credit only to an intent of
\* the fixed tenant that gave out its reference, for its minor units.
THEOREM CreditsWereMatched == Spec => []CreditsAreMatched
BY Invariant, InvariantsSay, PTL
=============================================================================
