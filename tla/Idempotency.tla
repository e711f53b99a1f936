----------------------------- MODULE Idempotency -----------------------------
(***************************************************************************)
(* The middleware that repeats an answer instead of a request: RateLimit,  *)
(* then Idempotency, in front of a handler, with Recoverer around them.    *)
(* Requests are served by goroutines of their own.  A request looks its    *)
(* key up, runs the handler if nothing is found, and stores the answer     *)
(* after the handler has returned; net/http sends a short answer only      *)
(* after that.  The key is the client's header, whatever tenant it is of.  *)
(*                                                                         *)
(* The store, the limiter and the handler are interfaces.  Nothing in the  *)
(* repository puts these middlewares in front of a handler; they are       *)
(* modelled as they compose.                                               *)
(***************************************************************************)
EXTENDS Naturals

CONSTANTS
  Requests,
  Keys,
  NoKey,     \* the header is missing, or the method does not change anything
  Tenants,
  MaxLapses, \* bound: how often a stored answer expires
  Faults,    \* may the store, the limiter and the handler fail?
  None

ASSUME NoKeyAssumption == NoKey \notin Keys
ASSUME NoneAssumption == None \notin Requests
ASSUME LapsesAssumption == MaxLapses \in Nat
ASSUME FaultsAssumption == Faults \in BOOLEAN

VARIABLES
  store,    \* external: the request whose body is stored under each key
  request,  \* the progress of each request
  before,   \* the requests that were answered when a request was received
  ran,      \* requests the handler did what they ask for
  kept,     \* requests whose body was stored
  lapses,   \* how often the answer under each key expired
  lapsed    \* requests whose stored answer expired

vars == <<store, request, before, ran, kept, lapses, lapsed>>

Init ==
  /\ store = [k \in Keys |-> None]
  /\ request = [r \in Requests |-> [at |-> "idle"]]
  /\ before = [r \in Requests |-> {}]
  /\ ran = {}
  /\ kept = {}
  /\ lapses = [k \in Keys |-> 0]
  /\ lapsed = {}

Key(r) == request[r].key
To(r, at) == request' = [request EXCEPT ![r].at = at]

\* body is the request whose handler wrote it.
Answer(r, status, body) ==
  request' = [request EXCEPT ![r] =
    [at |-> "answered", key |-> @.key, tenant |-> @.tenant, status |-> status,
     body |-> body, looked |-> @.at # "unrecorded"]]
Answered == {r \in Requests : request[r].at = "answered"}

\* The tenant is that of the header.
Receive(r) ==
  /\ request[r].at = "idle"
  /\ \E key \in Keys \cup {NoKey}, tenant \in Tenants :
       request' = [request EXCEPT ![r] = [at |-> "limiting", key |-> key, tenant |-> tenant]]
  /\ before' = [before EXCEPT ![r] = Answered]
  /\ UNCHANGED <<store, ran, kept, lapses, lapsed>>

\* A limiter that fails lets the request pass.
Allow(r) ==
  /\ request[r].at = "limiting"
  /\ To(r, "looking") \/ Answer(r, "429", None)
  /\ UNCHANGED <<store, before, ran, kept, lapses, lapsed>>

-----------------------------------------------------------------------------
(***************************************************************************)
(* Idempotency.                                                            *)
(***************************************************************************)
Applies(r) == Key(r) # NoKey
NeverFound(r) == FALSE
Found(r) == Applies(r) /\ store[Key(r)] # None

\* The answer is repeated with the status 200.
Replay(r) ==
  /\ request[r].at = "looking"
  /\ Found(r)
  /\ Answer(r, "200", store[Key(r)])
  /\ UNCHANGED <<store, before, ran, kept, lapses, lapsed>>

\* The other order, which the code does not choose: the key is taken first.
ReserveFirst(r) ==
  /\ request[r].at = "looking"
  /\ Applies(r) /\ ~Found(r)
  /\ To(r, "running")
  /\ store' = [store EXCEPT ![Key(r)] = r]
  /\ UNCHANGED <<before, ran, kept, lapses, lapsed>>

\* Nothing found: run the handler and record its answer.
PassRecorded(r) ==
  /\ request[r].at = "looking"
  /\ Applies(r) /\ ~Found(r)
  /\ To(r, "running")
  /\ UNCHANGED <<store, before, ran, kept, lapses, lapsed>>

\* A request that is not subject to it, or whose lookup fails, runs unrecorded.
PassUnrecorded(r) ==
  /\ request[r].at = "looking"
  /\ Applies(r) => Faults
  /\ To(r, "unrecorded")
  /\ UNCHANGED <<store, before, ran, kept, lapses, lapsed>>

\* The recorder knows the status only where the handler sets it: 201 stands for
\* every success that is set, 200 for one that net/http makes of an answer
\* without a status, which is not stored.
Storable(status) == status = "201"

\* The handler runs.  A failure may come after the effect; a panic is answered
\* 500 by Recoverer and passes Idempotency by.
Effects(r, status) ==
  (IF status \in {"200", "201", "500"} THEN {ran \cup {r}} ELSE {})
    \cup (IF status \in {"400", "500"} THEN {ran} ELSE {})

Run(r) ==
  /\ request[r].at \in {"running", "unrecorded"}
  /\ \E status \in {"200", "201", "400", "500"} :
       /\ status = "500" => Faults
       /\ ran' \in Effects(r, status)
       /\ IF request[r].at = "running" /\ Storable(status)
          THEN request' = [request EXCEPT ![r] =
                 [at |-> "storing", key |-> @.key, tenant |-> @.tenant, status |-> status]]
          ELSE Answer(r, status, r)
  /\ UNCHANGED <<store, before, kept, lapses, lapsed>>

\* The outcome is ignored: the store may be down, or the client gone and the
\* context cancelled.
Set(r) ==
  /\ request[r].at = "storing"
  /\ \/ /\ store' = [store EXCEPT ![Key(r)] = r]
        /\ kept' = kept \cup {r}
     \/ Faults /\ UNCHANGED <<store, kept>>
  /\ Answer(r, request[r].status, r)
  /\ UNCHANGED <<before, ran, lapses, lapsed>>

\* The time to live of an answer ends, and of those it replaced.
Expire(k) ==
  /\ store[k] # None
  /\ lapses[k] < MaxLapses
  /\ lapses' = [lapses EXCEPT ![k] = @ + 1]
  /\ store' = [store EXCEPT ![k] = None]
  /\ lapsed' = lapsed \cup {q \in kept : Key(q) = k}
  /\ UNCHANGED <<request, before, ran, kept>>

Next ==
  \/ \E r \in Requests :
       \/ Receive(r) \/ Allow(r) \/ Replay(r)
       \/ PassRecorded(r) \/ PassUnrecorded(r) \/ Run(r) \/ Set(r)
  \/ \E k \in Keys : Expire(k)

Spec == Init /\ [][Next]_vars

-----------------------------------------------------------------------------
(***************************************************************************)
(* Properties.                                                             *)
(***************************************************************************)
\* Nobody is told of a success that did not happen: an answer of success, first
\* or repeated, is that of a request with the same key which the handler served,
\* through races of the lookups, expiry and a failing store.
SuccessIsTrue ==
  \A r \in Answered :
    request[r].status \in {"200", "201"} =>
      /\ request[r].body \in ran
      /\ request[request[r].body].key = request[r].key
      /\ r \notin ran => request[r].body \in kept

\* A client that waits for its answer gets it again: where the lookup works, a
\* request received after the answer to its key was stored and sent is not run
\* again until that answer expires, however many others run and store meanwhile.
RanAfterLookup(r) ==
  /\ r \in ran
  /\ request[r].at = "storing" \/ (request[r].at = "answered" /\ request[r].looked)
RepeatsAreNotRun ==
  \A r, q \in Requests :
    /\ RanAfterLookup(r)
    /\ q \in before[r] \cap kept
    /\ Key(q) = Key(r)
    => q \in lapsed
=============================================================================
