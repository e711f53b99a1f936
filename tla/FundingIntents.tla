---------------------------- MODULE FundingIntents ----------------------------
(***************************************************************************)
(* The funding service: clients create intents to pay money in, and bank   *)
(* credits, card captures and chargebacks move them on.  Each call is      *)
(* served by its own goroutine, which reads the intent's row, talks to the *)
(* ledger or the bank, and writes the whole row back without a lock or a   *)
(* condition.  Calls interleave and messages are redelivered; statements,  *)
(* remote calls and publications may fail, also after they took effect;    *)
(* the process may crash.                                                  *)
(*                                                                         *)
(* The ledger client and the bank are external.  Nothing in the repository *)
(* implements LedgerClient; every PostFunding is taken to post a batch of  *)
(* its own, as POST /entries of this repository does.                      *)
(***************************************************************************)
EXTENDS Integers, Sequences, FiniteSets

CONSTANTS
  Requests,      \* CreateIntent calls; the intent of a call bears its name
  Calls,         \* calls that report a credit, a card payment or a chargeback
  Tenants, DefaultTenant,
  Keys,          \* idempotency keys
  Amounts, Currencies,
  Methods,       \* some of OPEN_BANKING, SEPA, FPS, CARD
  Windows,       \* the times an id shows in its first eight characters
  Null,
  Faults         \* may operations fail and the process crash?

ASSUME TenantAssumption == DefaultTenant \in Tenants
ASSUME AmountsAssumption == Amounts \subseteq Int
ASSUME MethodsAssumption == Methods \subseteq {"OPEN_BANKING", "SEPA", "FPS", "CARD"}
ASSUME FaultsAssumption == Faults \in BOOLEAN
ASSUME CallsAssumption == IsFiniteSet(Calls)

VARIABLES
  intents,   \* funding_intents: the row of each intent, or Null
  request,   \* the progress and the answer of each CreateIntent
  call,      \* the progress of each reporting call, with its copy of the row
  bank,      \* external: intents whose payment the bank has initiated
  postings,  \* external: the ledger's batches, in order
  published  \* the events that reached the broker

vars == <<intents, request, call, bank, postings, published>>

Status == {"created", "pending", "settled", "failed", "reversed"}
\* What a bank reports: an amount in minor units of a currency, and the text the
\* payer gave as reference.
Credit == [reference : Windows, amount : Amounts \ {0}, currency : Currencies]
ASSUME NullAssumption ==
  /\ Null \notin [id : Requests, tenant : Tenants, key : Keys, amount : Amounts,
                  currency : Currencies, method : Methods, status : Status, batch : Nat,
                  reference : Windows \cup {Null}]
  /\ Null \notin Credit

Stored == {i \in Requests : intents[i] # Null}
Error == "error"

\* An operation that may fail: the outcomes of its effect on a variable.
OrFails(ok, failed) == IF Faults THEN {ok, failed} ELSE {ok}

Init ==
  /\ intents = [i \in Requests |-> Null]
  /\ request = [r \in Requests |-> [at |-> "idle"]]
  /\ call = [c \in Calls |-> [at |-> "idle"]]
  /\ bank = {}
  /\ postings = <<>>
  /\ published = {}

-----------------------------------------------------------------------------
(***************************************************************************)
(* The intent's state machine.  Each operator is the row after the         *)
(* transition, or Null where the code returns an error.                    *)
(***************************************************************************)
NewFundingIntent(r, tenant, key, amount, currency, method, window) ==
  [id |-> r, tenant |-> tenant, key |-> key, amount |-> amount, currency |-> currency,
   method |-> method, status |-> "created", batch |-> 0,
   \* BankDetails.Reference: "W3G8-" and the first eight characters of the id,
   \* its millisecond timestamp without the lowest ten bits
   reference |-> IF method \in {"SEPA", "FPS"} THEN window ELSE Null]

MarkSettled(i, batch) ==
  IF i.status # "pending" THEN Null
  ELSE [i EXCEPT !.status = "settled", !.batch = batch]

MarkFailed(i) ==
  IF i.status \in {"settled", "reversed"} THEN Null
  ELSE [i EXCEPT !.status = "failed"]

MarkReversed(i) ==
  IF i.status # "settled" THEN Null ELSE [i EXCEPT !.status = "reversed"]

-----------------------------------------------------------------------------
(***************************************************************************)
(* CreateIntent.                                                           *)
(***************************************************************************)
WithKey(tenant, key) ==
  {i \in Stored : intents[i].tenant = tenant /\ intents[i].key = key}

\* UNIQUE(tenant_id, idempotency_key)
NeverTaken(i) == FALSE
Taken(i) == WithKey(i.tenant, i.key) # {}

Answer(r, i) ==
  request' = [request EXCEPT ![r] =
    [at |-> "answered", tenant |-> i.tenant, key |-> i.key, intent |-> i.id]]
Reject(r) == request' = [request EXCEPT ![r] = [at |-> Error]]

\* "amount must be positive"
NotNegative(amount) == amount >= 0
ValidAmount(amount) == amount > 0

\* The check of the idempotency key.  A lookup that fails counts as not found.
Lookup(r) ==
  /\ request[r].at = "idle"
  /\ \E tenant \in Tenants, key \in Keys :
       \/ \E i \in WithKey(tenant, key) : Answer(r, intents[i])
       \/ /\ WithKey(tenant, key) = {} \/ Faults
          /\ \E amount \in Amounts, currency \in Currencies,
                method \in Methods, window \in Windows :
               IF ~ValidAmount(amount) THEN Reject(r)
               ELSE request' = [request EXCEPT ![r] =
                      [at |-> IF method = "OPEN_BANKING" THEN "initiating" ELSE "storing",
                       draft |-> NewFundingIntent(r, tenant, key, amount, currency,
                                                  method, window)]]
  /\ UNCHANGED <<intents, call, bank, postings, published>>

\* An Open Banking payment is initiated at the bank before the intent exists.
Initiate(r) ==
  /\ request[r].at = "initiating"
  /\ \/ /\ bank' = bank \cup {r}
        /\ \/ request' = [request EXCEPT ![r].at = "storing", ![r].draft.status = "pending"]
           \/ Faults /\ Reject(r)
     \/ Faults /\ Reject(r) /\ UNCHANGED bank
  /\ UNCHANGED <<intents, call, postings, published>>

Store(r) ==
  LET draft == request[r].draft
  IN  /\ request[r].at = "storing"
      /\ \/ /\ ~Taken(draft)
            /\ intents' = [intents EXCEPT ![r] = draft]
            /\ request' \in OrFails([request EXCEPT ![r].at = "publishing"],
                                    [request EXCEPT ![r] = [at |-> Error]])
         \/ /\ Taken(draft) \/ Faults
            /\ Reject(r)
            /\ UNCHANGED intents
      /\ UNCHANGED <<call, bank, postings, published>>

\* The outcome of a publication is ignored.
PublishCreated(r) ==
  /\ request[r].at = "publishing"
  /\ published' \in OrFails(published \cup {<<"created", r>>}, published)
  /\ Answer(r, request[r].draft)
  /\ UNCHANGED <<intents, call, bank, postings>>

-----------------------------------------------------------------------------
(***************************************************************************)
(* The calls that move an intent on.                                       *)
(***************************************************************************)
\* The intents a bank credit may be matched with: the tenant is fixed, and the
\* query takes any one of the rows with the reference.
GetIntentByReference(window) ==
  {i \in Stored : intents[i].tenant = DefaultTenant /\ intents[i].reference = window}

\* A call keeps its copy of the row and, until it posts, the credit it reports.
Copy(c, i, at, credit) ==
  call' = [call EXCEPT ![c] = [at |-> at, intent |-> i, credit |-> credit]]
Finish(c, at) == call' = [call EXCEPT ![c] = [at |-> at]]

\* The minor units are compared, and not the currencies.
AnyAmount(i, credit) == TRUE
AmountMatches(i, credit) == i.amount = credit.amount

\* A credit without a matching intent is dropped with a warning, and so is one
\* whose lookup failed.
ProcessInboundCredit(c) ==
  /\ call[c].at = "idle"
  /\ \E credit \in Credit :
       \/ /\ GetIntentByReference(credit.reference) = {} \/ Faults
          /\ Finish(c, "done")
          /\ UNCHANGED published
       \/ \E i \in GetIntentByReference(credit.reference) :
            IF AmountMatches(intents[i], credit)
            THEN Copy(c, intents[i], "settling", credit) /\ UNCHANGED published
            ELSE /\ Finish(c, Error)
                 /\ published' \in OrFails(published \cup {<<"mismatch", i>>}, published)
  /\ UNCHANGED <<intents, request, bank, postings>>

\* A card report carries no amount, and what the intent says is posted.  A payment
\* that was not captured fails the intent; where MarkFailed refuses,
\* its error is ignored and the row written back as it was read.
ProcessCardPayment(c, i, captured) ==
  /\ call[c].at = "idle"
  /\ \/ /\ i \in Stored
        /\ LET failed == MarkFailed(intents[i])
           IN  IF captured THEN Copy(c, intents[i], "settling", Null)
               ELSE Copy(c, IF failed = Null THEN intents[i] ELSE failed, "failing", Null)
     \/ /\ i \notin Stored \/ Faults
        /\ Finish(c, Error)
  /\ UNCHANGED <<intents, request, bank, postings, published>>

\* settleIntent: the ledger first, then the state machine, then the row.
PostIgnoringError(c) ==
  LET i == call[c].intent
      post == Append(postings, [intent |-> i.id, amount |-> i.amount,
                                by |-> c, credit |-> call[c].credit])
      settled == MarkSettled(i, Len(post))
  IN  /\ call[c].at = "settling"
      /\ postings' \in OrFails(post, postings)
      /\ IF settled = Null THEN Finish(c, Error)
         ELSE Copy(c, settled, "saving", Null)
      /\ UNCHANGED <<intents, request, bank, published>>
Post(c) ==
  LET i == call[c].intent
      post == Append(postings, [intent |-> i.id, amount |-> i.amount,
                                by |-> c, credit |-> call[c].credit])
      settled == MarkSettled(i, Len(post))
  IN  /\ call[c].at = "settling"
      /\ \/ /\ postings' = post
            /\ IF settled = Null THEN Finish(c, Error)
               ELSE Copy(c, settled, "saving", Null)
         \/ Faults /\ Finish(c, Error) /\ postings' \in {post, postings}
      /\ UNCHANGED <<intents, request, bank, published>>

\* No entry is posted against the ledger for a chargeback.
ProcessChargeback(c, i) ==
  /\ call[c].at = "idle"
  /\ \/ /\ i \in Stored
        /\ LET reversed == MarkReversed(intents[i])
           IN  IF reversed = Null THEN Finish(c, Error)
               ELSE Copy(c, reversed, "saving", Null)
     \/ /\ i \notin Stored \/ Faults
        /\ Finish(c, Error)
  /\ UNCHANGED <<intents, request, bank, postings, published>>

\* UpdateIntent writes the caller's copy over whatever the row has become.
UpdateIntent(i) ==
  [intents EXCEPT ![i.id].status = i.status, ![i.id].batch = i.batch]

Save(c) ==
  /\ call[c].at = "saving"
  /\ \/ /\ intents' = UpdateIntent(call[c].intent)
        /\ call' = [call EXCEPT ![c].at = "announcing"]
     \/ /\ Faults
        /\ intents' \in {UpdateIntent(call[c].intent), intents}
        /\ Finish(c, Error)
  /\ UNCHANGED <<request, bank, postings, published>>

SaveFailed(c) ==
  /\ call[c].at = "failing"
  /\ intents' \in OrFails(UpdateIntent(call[c].intent), intents)
  /\ Finish(c, "done")
  /\ UNCHANGED <<request, bank, postings, published>>

Announce(c) ==
  /\ call[c].at = "announcing"
  /\ published' \in OrFails(published \cup {<<call[c].intent.status, call[c].intent.id>>},
                            published)
  /\ Finish(c, "done")
  /\ UNCHANGED <<intents, request, bank, postings>>

-----------------------------------------------------------------------------
\* The process dies; rows, batches, bank payments and events remain.
Interrupted(p) ==
  IF p.at \in {"idle", "answered", "done", "lost", Error} THEN p ELSE [at |-> "lost"]
Crash ==
  /\ Faults
  /\ request' = [r \in Requests |-> Interrupted(request[r])]
  /\ call' = [c \in Calls |-> Interrupted(call[c])]
  /\ UNCHANGED <<intents, bank, postings, published>>

Next ==
  \/ \E r \in Requests : Lookup(r) \/ Initiate(r) \/ Store(r) \/ PublishCreated(r)
  \/ \E c \in Calls, i \in Requests :
       \/ ProcessChargeback(c, i)
       \/ \E captured \in BOOLEAN : ProcessCardPayment(c, i, captured)
  \/ \E c \in Calls : \/ ProcessInboundCredit(c)
                      \/ Post(c) \/ Save(c) \/ SaveFailed(c) \/ Announce(c)
  \/ Crash

Spec == Init /\ [][Next]_vars

-----------------------------------------------------------------------------
(***************************************************************************)
(* Properties.                                                             *)
(***************************************************************************)
Intent ==
  [id : Requests, tenant : Tenants, key : Keys,
   amount : {a \in Amounts : a > 0}, currency : Currencies, method : Methods,
   status : Status, batch : 0 .. Cardinality(Calls), reference : Windows \cup {Null}]

\* The variables have the types of their Go and SQL counterparts; in particular
\* an intent is for a positive amount wherever a copy of it is held.
TypeOK ==
  /\ intents \in [Requests -> Intent \cup {Null}]
  /\ request \in [Requests ->
       [at : {"idle", "lost", Error}]
       \cup [at : {"initiating", "storing", "publishing"}, draft : Intent]
       \cup [at : {"answered"}, tenant : Tenants, key : Keys, intent : Requests]]
  /\ call \in [Calls ->
       [at : {"idle", "done", "lost", Error}]
       \cup [at : {"settling", "saving", "failing", "announcing"},
             intent : Intent, credit : Credit \cup {Null}]]
  /\ bank \subseteq Requests
  /\ postings \in Seq([intent : Requests, amount : Amounts, by : Calls,
                       credit : Credit \cup {Null}])
  /\ published \subseteq ({"created", "settled", "reversed", "mismatch"} \X Requests)

\* Idempotency: requests answered under one key of one tenant were answered with
\* one and the same intent, although they race and the lookup may fail.
OneIntentPerKey ==
  \A r, q \in Requests :
    request[r].at = "answered" /\ request[q].at = "answered"
      /\ request[r].tenant = request[q].tenant /\ request[r].key = request[q].key
    => request[r].intent = request[q].intent /\ request[r].intent \in Stored

\* Money is where the service says it is: an intent that is settled or reversed,
\* on record or in an event, was posted to the ledger with its own amount and had
\* its payment initiated at the bank, and a stored settlement names that batch,
\* whichever stale copy was saved last.
PostedBy(batch, i) ==
  /\ batch \in DOMAIN postings
  /\ postings[batch].intent = i
  /\ postings[batch].amount = intents[i].amount
SettlementIsBacked ==
  \A i \in Stored, status \in {"settled", "reversed"} :
    /\ intents[i].status = status => PostedBy(intents[i].batch, i) /\ i \in bank
    /\ <<status, i>> \in published =>
         (\E batch \in DOMAIN postings : PostedBy(batch, i)) /\ i \in bank

\* No report makes money twice, and a bank credit is only posted to an intent of
\* the fixed tenant that gave out its reference, for as many minor units as came
\* in, however the rows change meanwhile.  Their currency may differ.
CreditsAreMatched ==
  \A p, q \in DOMAIN postings :
    /\ postings[p].by = postings[q].by => p = q
    /\ postings[p].credit # Null =>
         /\ postings[p].intent \in GetIntentByReference(postings[p].credit.reference)
         /\ postings[p].amount = postings[p].credit.amount
=============================================================================
