-------------------------- MODULE Idempotency_proofs --------------------------
(***************************************************************************)
(* Proofs about Idempotency, for any number of requests, keys, tenants and *)
(* expiries, with and without a failing store, limiter and handler.        *)
(***************************************************************************)
EXTENDS Idempotency, TLAPS

Received == {"limiting", "looking", "running", "unrecorded", "storing", "answered"}

(***************************************************************************)
(* The type correctness that the proofs need.  What a record of a request  *)
(* holds beside its key depends on how far the request is.                 *)
(***************************************************************************)
RequestState ==
  [at : {"idle"}]
  \cup [at : {"limiting", "looking", "running", "unrecorded"},
        key : Keys \cup {NoKey}, tenant : Tenants]
  \cup [at : {"storing"}, key : Keys \cup {NoKey}, tenant : Tenants, status : {"201"}]
  \cup [at : {"answered"}, key : Keys \cup {NoKey}, tenant : Tenants,
        status : {"200", "201", "400", "429", "500"},
        body : Requests \cup {None}, looked : BOOLEAN]
Types ==
  /\ store \in [Keys -> Requests \cup {None}]
  /\ request \in [Requests -> RequestState]
  /\ before \in [Requests -> SUBSET Requests]
  /\ ran \subseteq Requests
  /\ kept \subseteq Requests
  /\ lapses \in [Keys -> Nat]
  /\ lapsed \subseteq Requests

(***************************************************************************)
(* The inductive invariant, in named parts.                                *)
(***************************************************************************)
\* The handler ran for a request only where it is past the handler.
RanIsServed ==
  \A r \in Requests :
    /\ r \in ran => request[r].at \in {"storing", "answered"}
    /\ request[r].at = "storing" => r \in ran
    /\ request[r].at \in {"running", "storing"} => Key(r) \in Keys
\* What is stored under a key was served, and answered, for that key.
KeptIsServed ==
  \A q \in kept : q \in ran /\ request[q].at = "answered" /\ Key(q) \in Keys
StoredIsKept ==
  \A k \in Keys : store[k] # None => store[k] \in kept /\ Key(store[k]) = k
\* It stays there until it expires or another request's answer replaces it.
KeptUntilLapse ==
  \A q \in kept : store[Key(q)] # None \/ q \in lapsed
\* Those who were answered before a request came will store nothing any more.
BeforeIsAnswered ==
  \A r \in Requests : before[r] \subseteq Answered
\* A request whose lookup found nothing came too late only for expired answers.
LookedIsNew ==
  \A r, q \in Requests :
    /\ request[r].at = "running"
    /\ q \in before[r] \cap kept
    /\ Key(q) = Key(r)
    => q \in lapsed
Parts ==
  /\ RanIsServed /\ KeptIsServed /\ StoredIsKept
  /\ KeptUntilLapse /\ BeforeIsAnswered /\ LookedIsNew
IInv == Types /\ Parts /\ SuccessIsTrue /\ RepeatsAreNotRun

-----------------------------------------------------------------------------
LEMMA InitHolds == Init => IInv
<1> SUFFICES ASSUME Init PROVE IInv OBVIOUS
<1>1. Types BY DEF Init, Types, RequestState
<1>2. \A r \in Requests : request[r].at = "idle" BY DEF Init
<1>3. Answered = {} BY <1>2 DEF Answered
<1>4. Parts
  BY <1>2, <1>3 DEF Init, Parts, RanIsServed, KeptIsServed, StoredIsKept, KeptUntilLapse,
                    BeforeIsAnswered, LookedIsNew
<1>5. SuccessIsTrue BY <1>3 DEF SuccessIsTrue
<1>6. RepeatsAreNotRun BY DEF Init, RepeatsAreNotRun
<1>7. QED BY <1>1, <1>4, <1>5, <1>6 DEF IInv

\* A step of one request moves that request on and leaves its key and the other
\* requests as they are.
OneRequest(r) ==
  /\ request'[r] \in RequestState
  /\ request[r].at # "answered"
  /\ request'[r].at # "idle"
  /\ request[r].at # "idle" => request'[r].key = request[r].key
  /\ \A q \in Requests : q # r => request'[q] = request[q]

LEMMA KeysStay ==
  ASSUME Types, NEW r \in Requests, OneRequest(r)
  PROVE  /\ \A q \in Requests : request[q].at # "idle" => request'[q].key = request[q].key
         /\ Answered \subseteq Answered'
BY DEF OneRequest, Answered

LEMMA AnswerState ==
  ASSUME Types, NEW r \in Requests,
         request[r].at \in {"limiting", "looking", "running", "unrecorded", "storing"},
         NEW status \in {"200", "201", "400", "429", "500"},
         NEW body \in Requests \cup {None}, Answer(r, status, body)
  PROVE  /\ request'[r].at = "answered"
         /\ request'[r].status = status
         /\ request'[r].body = body
         /\ request'[r].looked <=> request[r].at # "unrecorded"
         /\ request' \in [Requests -> RequestState]
         /\ OneRequest(r)
<1>1. request[r].key \in Keys \cup {NoKey} /\ request[r].tenant \in Tenants
  BY DEF Types, RequestState
<1> DEFINE new == [at |-> "answered", key |-> request[r].key, tenant |-> request[r].tenant,
                   status |-> status, body |-> body, looked |-> request[r].at # "unrecorded"]
<1>2. request' = [request EXCEPT ![r] = new] BY DEF Answer
<1>3. new \in RequestState
  <2>1. (request[r].at # "unrecorded") \in BOOLEAN OBVIOUS
  <2>2. QED BY <1>1, <2>1 DEF RequestState
<1>4. request'[r] = new BY <1>2 DEF Types
<1>5. /\ new.at = "answered" /\ new.status = status /\ new.body = body
      /\ new.key = request[r].key
      /\ new.looked <=> request[r].at # "unrecorded"
  OBVIOUS
<1> HIDE DEF new
<1>6. request' \in [Requests -> RequestState] BY <1>2, <1>3 DEF Types
<1>7. \A q \in Requests : q # r => request'[q] = request[q] BY <1>2 DEF Types
<1>8. QED BY <1>3, <1>4, <1>5, <1>6, <1>7 DEF OneRequest

LEMMA ToState ==
  ASSUME Types, NEW r \in Requests, request[r].at \in {"limiting", "looking"},
         NEW at \in {"looking", "running", "unrecorded"}, To(r, at)
  PROVE  /\ request'[r].at = at
         /\ request' \in [Requests -> RequestState]
         /\ OneRequest(r)
<1>1. request[r] \in [at : {"limiting", "looking"}, key : Keys \cup {NoKey}, tenant : Tenants]
  BY DEF Types, RequestState
<1> DEFINE new == [request[r] EXCEPT !.at = at]
<1>2. request' = [request EXCEPT ![r] = new] BY DEF To, Types
<1>3. new \in RequestState /\ new.at = at /\ new.key = request[r].key
  BY <1>1 DEF RequestState
<1> HIDE DEF new
<1>4. request'[r] = new BY <1>2 DEF Types
<1>5. request' \in [Requests -> RequestState] BY <1>2, <1>3 DEF Types
<1>6. \A q \in Requests : q # r => request'[q] = request[q] BY <1>2 DEF Types
<1>7. QED BY <1>1, <1>3, <1>4, <1>5, <1>6 DEF OneRequest

\* Where the key of a request was looked up in vain, all who were answered
\* before it came have expired.
Late(r) ==
  \A q \in before[r] \cap kept : request[q].key = request[r].key => q \in lapsed

\* An action that moves one request on, and at most adds it to those that ran.
LEMMA RequestStep ==
  ASSUME IInv, NEW r \in Requests, OneRequest(r), request' \in [Requests -> RequestState],
         request[r].at # "idle",
         UNCHANGED <<store, before, kept, lapses, lapsed>>,
         ran \subseteq ran', ran' \subseteq ran \cup {r},
         r \in ran' => request'[r].at \in {"storing", "answered"},
         request'[r].at = "storing" => r \in ran',
         request'[r].at \in {"running", "storing"} => request[r].key \in Keys,
         request'[r].at = "answered" /\ request'[r].status \in {"200", "201"} =>
           /\ request'[r].body \in ran'
           /\ request'[request'[r].body].key = request[r].key
           /\ r \notin ran' => request'[r].body \in kept,
         request'[r].at = "running" \/ RanAfterLookup(r)' => Late(r)
  PROVE  IInv'
<1>1. Types' BY DEF IInv, Types
<1>2. /\ \A q \in Requests : request[q].at # "idle" => request'[q].key = request[q].key
      /\ Answered \subseteq Answered'
  BY KeysStay DEF IInv
<1>3. \A q \in Requests : q # r => request'[q] = request[q] BY DEF OneRequest
<1>4. /\ \A q \in kept : q \in Requests /\ request[q].at = "answered" /\ q # r
      /\ \A q \in ran : q \in Requests /\ request[q].at # "idle"
      /\ \A x \in Requests : \A q \in before[x] : q \in Requests /\ request[q].at = "answered"
  BY DEF IInv, Types, Parts, KeptIsServed, RanIsServed, BeforeIsAnswered, Answered, OneRequest
<1>5. RanIsServed'
  BY <1>2, <1>3 DEF IInv, Parts, RanIsServed, Key
<1>6. KeptIsServed'
  BY <1>2, <1>3, <1>4 DEF IInv, Parts, KeptIsServed, Key
<1>7. StoredIsKept'
  BY <1>2, <1>3, <1>4 DEF IInv, Parts, StoredIsKept, Key
<1>8. KeptUntilLapse'
  BY <1>3, <1>4 DEF IInv, Parts, KeptUntilLapse, Key
<1>9. BeforeIsAnswered'
  BY <1>2 DEF IInv, Parts, BeforeIsAnswered
<1>10. LookedIsNew'
  <2> SUFFICES ASSUME NEW x \in Requests, NEW q \in Requests, request'[x].at = "running",
                      q \in before[x] \cap kept, request'[q].key = request'[x].key
               PROVE  q \in lapsed
    BY DEF LookedIsNew, Key
  <2>1. request'[q].key = request[q].key /\ request'[x].key = request[x].key
    BY <1>2, <1>3, <1>4
  <2>2. CASE x = r BY <2>1, <2>2 DEF Late
  <2>3. CASE x # r BY <1>3, <2>1, <2>3 DEF IInv, Parts, LookedIsNew, Key
  <2>4. QED BY <2>2, <2>3
<1>11. RepeatsAreNotRun'
  <2> SUFFICES ASSUME NEW x \in Requests, NEW q \in Requests, RanAfterLookup(x)',
                      q \in before[x] \cap kept, request'[q].key = request'[x].key
               PROVE  q \in lapsed
    BY DEF RepeatsAreNotRun, Key
  <2>1. request'[q].key = request[q].key BY <1>2, <1>4
  <2>2. CASE x = r BY <1>2, <2>1, <2>2 DEF Late
  <2>3. CASE x # r
    <3>1. RanAfterLookup(x) BY <1>3, <2>3 DEF RanAfterLookup
    <3>2. QED BY <1>3, <2>1, <2>3, <3>1 DEF IInv, RepeatsAreNotRun, Key
  <2>4. QED BY <2>2, <2>3
<1>12. SuccessIsTrue'
  <2> SUFFICES ASSUME NEW x \in Requests, request'[x].at = "answered",
                      request'[x].status \in {"200", "201"}
               PROVE  /\ request'[x].body \in ran'
                      /\ request'[request'[x].body].key = request'[x].key
                      /\ x \notin ran' => request'[x].body \in kept
    BY DEF SuccessIsTrue, Answered
  <2>1. CASE x = r BY <1>2, <2>1
  <2>2. CASE x # r
    <3>1. /\ request[x].body \in ran
          /\ request[request[x].body].key = request[x].key
          /\ x \notin ran => request[x].body \in kept
      BY <1>3, <2>2 DEF IInv, SuccessIsTrue, Answered
    <3>2. QED BY <1>2, <1>3, <1>4, <2>2, <3>1
  <2>3. QED BY <2>1, <2>2
<1>13. QED
  BY <1>1, <1>5, <1>6, <1>7, <1>8, <1>9, <1>10, <1>11, <1>12 DEF IInv, Parts

-----------------------------------------------------------------------------
(***************************************************************************)
(* The invariant is inductive.                                             *)
(***************************************************************************)
LEMMA ReceiveInv == ASSUME IInv, NEW r \in Requests, Receive(r) PROVE IInv'
<1>1. PICK key \in Keys \cup {NoKey}, tenant \in Tenants :
        request' = [request EXCEPT ![r] = [at |-> "limiting", key |-> key, tenant |-> tenant]]
  BY DEF Receive
<1>2. request[r].at = "idle" /\ UNCHANGED <<store, ran, kept, lapses, lapsed>> BY DEF Receive
<1>3. /\ request'[r].at = "limiting"
      /\ \A q \in Requests : q # r => request'[q] = request[q]
      /\ request' \in [Requests -> RequestState]
  BY <1>1 DEF IInv, Types, RequestState
<1>4. before' = [before EXCEPT ![r] = Answered] BY DEF Receive
<1>5. Answered' = Answered BY <1>2, <1>3 DEF Answered
<1>6. \A q \in kept : q \in Requests /\ request[q].at = "answered" /\ q # r
  BY <1>2 DEF IInv, Types, Parts, KeptIsServed
<1>7. r \notin ran /\ ran \subseteq Requests
  BY <1>2 DEF IInv, Types, Parts, RanIsServed
<1>8. Types' BY <1>2, <1>3, <1>4 DEF IInv, Types, Answered
<1>9. RanIsServed' BY <1>2, <1>3, <1>7 DEF IInv, Parts, RanIsServed, Key
<1>10. KeptIsServed' BY <1>2, <1>3, <1>6 DEF IInv, Parts, KeptIsServed, Key
<1>11. StoredIsKept' BY <1>2, <1>3, <1>6 DEF IInv, Parts, StoredIsKept, Key
<1>12. KeptUntilLapse' BY <1>2, <1>3, <1>6 DEF IInv, Parts, KeptUntilLapse, Key
<1>13. BeforeIsAnswered'
  BY <1>4, <1>5 DEF IInv, Types, Parts, BeforeIsAnswered
<1>14. \A x \in Requests : x # r => before'[x] = before[x] BY <1>4 DEF IInv, Types
<1>15. LookedIsNew'
  BY <1>2, <1>3, <1>6, <1>14 DEF IInv, Parts, LookedIsNew, Key
<1>16. RepeatsAreNotRun'
  BY <1>2, <1>3, <1>6, <1>7, <1>14 DEF IInv, RepeatsAreNotRun, RanAfterLookup, Key
<1>17. SuccessIsTrue'
  <2>1. \A x \in Answered : x # r /\ request'[x] = request[x] BY <1>2, <1>3 DEF Answered
  <2>2. QED BY <1>2, <1>3, <1>5, <1>7, <2>1 DEF IInv, SuccessIsTrue
<1>18. QED
  BY <1>8, <1>9, <1>10, <1>11, <1>12, <1>13, <1>15, <1>16, <1>17 DEF IInv, Parts

LEMMA AllowInv == ASSUME IInv, NEW r \in Requests, Allow(r) PROVE IInv'
<1>1. request[r].at = "limiting" /\ UNCHANGED <<store, before, ran, kept, lapses, lapsed>>
  BY DEF Allow
<1>2. r \notin ran BY <1>1 DEF IInv, Parts, RanIsServed
<1>3. CASE To(r, "looking")
  <2>1. /\ request'[r].at = "looking" /\ OneRequest(r)
        /\ request' \in [Requests -> RequestState]
    BY <1>1, <1>3, ToState DEF IInv
  <2>2. QED BY <1>1, <1>2, <2>1, RequestStep DEF RanAfterLookup
<1>4. CASE Answer(r, "429", None)
  <2>1. /\ request'[r].at = "answered" /\ request'[r].status = "429" /\ OneRequest(r)
        /\ request' \in [Requests -> RequestState]
    BY <1>1, <1>4, AnswerState DEF IInv
  <2>2. QED BY <1>1, <1>2, <2>1, RequestStep DEF RanAfterLookup
<1>5. QED BY <1>3, <1>4 DEF Allow

LEMMA ReplayInv == ASSUME IInv, NEW r \in Requests, Replay(r) PROVE IInv'
<1> DEFINE b == store[Key(r)]
<1>1. /\ request[r].at = "looking"
      /\ UNCHANGED <<store, before, ran, kept, lapses, lapsed>>
      /\ Found(r) /\ Answer(r, "200", b)
  BY DEF Replay
<1>2. r \notin ran BY <1>1 DEF IInv, Parts, RanIsServed
<1>3. Key(r) \in Keys BY <1>1 DEF Found, Applies, Key, IInv, Types, RequestState
<1>4. b \in kept /\ Key(b) = Key(r) BY <1>1, <1>3 DEF Found, IInv, Parts, StoredIsKept
<1>5. b \in ran /\ b \in Requests /\ request[b].at = "answered" /\ b # r
  BY <1>1, <1>4 DEF IInv, Types, Parts, KeptIsServed
<1> HIDE DEF b
<1>6. /\ request'[r].at = "answered" /\ request'[r].body = b /\ OneRequest(r)
      /\ request' \in [Requests -> RequestState]
  BY <1>1, <1>5, AnswerState DEF IInv
<1>7. request'[b].key = request[r].key BY <1>4, <1>5, <1>6 DEF OneRequest, Key
<1>8. QED BY <1>1, <1>2, <1>4, <1>5, <1>6, <1>7, RequestStep DEF RanAfterLookup

LEMMA PassRecordedInv == ASSUME IInv, NEW r \in Requests, PassRecorded(r) PROVE IInv'
<1>1. /\ request[r].at = "looking"
      /\ UNCHANGED <<store, before, ran, kept, lapses, lapsed>>
      /\ Applies(r) /\ ~Found(r) /\ To(r, "running")
  BY DEF PassRecorded
<1>2. r \notin ran BY <1>1 DEF IInv, Parts, RanIsServed
<1>3. request[r].key \in Keys BY <1>1 DEF Applies, Key, IInv, Types, RequestState
<1>4. store[request[r].key] = None BY <1>1 DEF Found, Key
<1>5. Late(r) BY <1>4 DEF Late, IInv, Parts, KeptUntilLapse, Key
<1>6. /\ request'[r].at = "running" /\ OneRequest(r)
      /\ request' \in [Requests -> RequestState]
  BY <1>1, ToState DEF IInv
<1>7. QED BY <1>1, <1>2, <1>3, <1>5, <1>6, RequestStep DEF RanAfterLookup

LEMMA PassUnrecordedInv == ASSUME IInv, NEW r \in Requests, PassUnrecorded(r) PROVE IInv'
<1>1. /\ request[r].at = "looking"
      /\ UNCHANGED <<store, before, ran, kept, lapses, lapsed>>
      /\ To(r, "unrecorded")
  BY DEF PassUnrecorded
<1>2. r \notin ran BY <1>1 DEF IInv, Parts, RanIsServed
<1>3. /\ request'[r].at = "unrecorded" /\ OneRequest(r)
      /\ request' \in [Requests -> RequestState]
  BY <1>1, ToState DEF IInv
<1>4. QED BY <1>1, <1>2, <1>3, RequestStep DEF RanAfterLookup

LEMMA RunInv == ASSUME IInv, NEW r \in Requests, Run(r) PROVE IInv'
<1>1. /\ request[r].at \in {"running", "unrecorded"}
      /\ UNCHANGED <<store, before, kept, lapses, lapsed>>
  BY DEF Run
<1>2. PICK status \in {"200", "201", "400", "500"} :
        /\ ran' \in Effects(r, status)
        /\ IF request[r].at = "running" /\ Storable(status)
           THEN request' = [request EXCEPT ![r] =
                  [at |-> "storing", key |-> @.key, tenant |-> @.tenant, status |-> status]]
           ELSE Answer(r, status, r)
  BY DEF Run
<1>3. /\ ran \subseteq ran' /\ ran' \subseteq ran \cup {r}
      /\ status \in {"200", "201"} => r \in ran'
  BY <1>2 DEF Effects
<1>4. request[r].at = "running" => Late(r) /\ request[r].key \in Keys
  BY DEF Late, IInv, Types, Parts, LookedIsNew, RanIsServed, Key
<1>5. CASE request[r].at = "running" /\ Storable(status)
  <2>1. request[r].key \in Keys /\ request[r].tenant \in Tenants
    BY <1>4, <1>5 DEF IInv, Types, RequestState
  <2> DEFINE new == [at |-> "storing", key |-> request[r].key,
                     tenant |-> request[r].tenant, status |-> status]
  <2>2. request' = [request EXCEPT ![r] = new] BY <1>2, <1>5
  <2>3. new \in RequestState /\ new.at = "storing" /\ new.key = request[r].key
    BY <1>5, <2>1 DEF RequestState, Storable
  <2> HIDE DEF new
  <2>4. /\ request'[r] = new /\ request' \in [Requests -> RequestState]
        /\ \A q \in Requests : q # r => request'[q] = request[q]
    BY <2>2, <2>3 DEF IInv, Types
  <2>5. OneRequest(r) BY <1>1, <2>3, <2>4 DEF OneRequest
  <2>6. r \in ran' BY <1>3, <1>5 DEF Storable
  <2>7. QED BY <1>1, <1>3, <1>4, <1>5, <2>3, <2>4, <2>5, <2>6, RequestStep
<1>6. CASE ~(request[r].at = "running" /\ Storable(status))
  <2>1. Answer(r, status, r) BY <1>2, <1>6
  <2>2. /\ request'[r].at = "answered" /\ request'[r].status = status
        /\ request'[r].body = r /\ OneRequest(r)
        /\ (request'[r].looked <=> request[r].at # "unrecorded")
        /\ request' \in [Requests -> RequestState]
    BY <1>1, <2>1, AnswerState DEF IInv
  <2>3. request'[r].key = request[r].key BY <1>1, <2>2 DEF OneRequest
  <2>4. RanAfterLookup(r)' => Late(r)
    <3>1. RanAfterLookup(r)' => request'[r].looked BY <2>2 DEF RanAfterLookup
    <3>2. QED BY <1>1, <1>4, <2>2, <3>1
  <2>5. QED BY <1>1, <1>3, <2>2, <2>3, <2>4, RequestStep
<1>7. QED BY <1>5, <1>6

LEMMA SetInv == ASSUME IInv, NEW r \in Requests, Set(r) PROVE IInv'
<1>1. /\ request[r].at = "storing" /\ UNCHANGED <<before, ran, lapses, lapsed>>
      /\ Answer(r, request[r].status, r)
  BY DEF Set
<1>2. request[r].status \in {"201"} BY <1>1 DEF IInv, Types, RequestState
<1>3. r \in ran /\ request[r].key \in Keys
  BY <1>1 DEF IInv, Parts, RanIsServed, Key
<1>4. /\ request'[r].at = "answered" /\ request'[r].status = request[r].status
      /\ request'[r].body = r /\ request'[r].looked /\ OneRequest(r)
      /\ request' \in [Requests -> RequestState]
  BY <1>1, <1>2, AnswerState DEF IInv
<1>5. request'[r].key = request[r].key BY <1>1, <1>4 DEF OneRequest
<1>6. Late(r) BY <1>1, <1>3 DEF Late, IInv, Types, RepeatsAreNotRun, RanAfterLookup, Key
<1>7. CASE UNCHANGED <<store, kept>>
  BY <1>1, <1>3, <1>4, <1>5, <1>6, <1>7, RequestStep
<1>8. CASE store' = [store EXCEPT ![request[r].key] = r] /\ kept' = kept \cup {r}
  <2>1. \A q \in Requests : q # r => request'[q] = request[q] BY <1>4 DEF OneRequest
  <2>2. /\ store'[request[r].key] = r
        /\ \A k \in Keys : k # request[r].key => store'[k] = store[k]
    BY <1>3, <1>8 DEF IInv, Types
  <2>3. r # None BY NoneAssumption
  <2>4. /\ \A q \in kept : q \in Requests /\ request[q].at = "answered" /\ q # r
        /\ \A x \in Requests : \A q \in before[x] : q \in Requests /\ request[q].at = "answered"
        /\ \A x \in Requests : r \notin before[x]
    BY <1>1 DEF IInv, Types, Parts, KeptIsServed, BeforeIsAnswered, Answered
  <2>5. Types' BY <1>1, <1>3, <1>4, <1>8 DEF IInv, Types
  <2>6. RanIsServed' BY <1>1, <1>3, <1>4, <2>1 DEF IInv, Parts, RanIsServed, Key
  <2>7. KeptIsServed'
    BY <1>1, <1>3, <1>4, <1>5, <1>8, <2>1, <2>4 DEF IInv, Parts, KeptIsServed, Key
  <2>8. StoredIsKept'
    BY <1>5, <1>8, <2>1, <2>2, <2>4 DEF IInv, Parts, StoredIsKept, Key
  <2>9. KeptUntilLapse'
    <3>1. \A q \in kept' : Key(q) \in Keys /\ request'[q].key = Key(q)
      BY <1>3, <1>5, <1>8, <2>1, <2>4 DEF IInv, Parts, KeptIsServed, Key
    <3>2. \A q \in kept' : store'[Key(q)] # None \/ q \in lapsed
      BY <1>8, <2>2, <2>3, <3>1 DEF IInv, Parts, KeptUntilLapse, Key
    <3>3. QED BY <1>1, <3>1, <3>2 DEF KeptUntilLapse, Key
  <2>10. BeforeIsAnswered'
    <3>1. Answered \subseteq Answered' BY <1>4, KeysStay DEF IInv
    <3>2. QED BY <1>1, <3>1 DEF IInv, Parts, BeforeIsAnswered
  <2>11. LookedIsNew'
    BY <1>1, <1>4, <1>8, <2>1, <2>4 DEF IInv, Parts, LookedIsNew, Key
  <2>12. RepeatsAreNotRun'
    <3> SUFFICES ASSUME NEW x \in Requests, NEW q \in Requests, RanAfterLookup(x)',
                        q \in before[x] \cap kept', request'[q].key = request'[x].key
                 PROVE  q \in lapsed
      BY <1>1 DEF RepeatsAreNotRun, Key
    <3>1. q \in kept /\ request'[q] = request[q] BY <1>8, <2>1, <2>4
    <3>2. CASE x = r BY <1>5, <1>6, <3>1, <3>2 DEF Late
    <3>3. CASE x # r
      <4>1. RanAfterLookup(x) /\ request'[x] = request[x]
        BY <1>1, <2>1, <3>3 DEF RanAfterLookup
      <4>2. QED BY <3>1, <4>1 DEF IInv, RepeatsAreNotRun, Key
    <3>4. QED BY <3>2, <3>3
  <2>13. SuccessIsTrue'
    <3> SUFFICES ASSUME NEW x \in Requests, request'[x].at = "answered",
                        request'[x].status \in {"200", "201"}
                 PROVE  /\ request'[x].body \in ran
                        /\ request'[request'[x].body].key = request'[x].key
                        /\ x \notin ran => request'[x].body \in kept'
      BY <1>1 DEF SuccessIsTrue, Answered
    <3>1. CASE x = r BY <1>3, <1>4, <3>1
    <3>2. CASE x # r
      <4>1. /\ request[x].body \in ran
            /\ request[request[x].body].key = request[x].key
            /\ x \notin ran => request[x].body \in kept
        BY <2>1, <3>2 DEF IInv, SuccessIsTrue, Answered
      <4>2. QED BY <1>5, <1>8, <2>1, <3>2, <4>1 DEF IInv, Types
    <3>3. QED BY <3>1, <3>2
  <2>14. QED
    BY <2>5, <2>6, <2>7, <2>8, <2>9, <2>10, <2>11, <2>12, <2>13 DEF IInv, Parts
<1>9. QED BY <1>7, <1>8 DEF Set, Key

LEMMA ExpireInv == ASSUME IInv, NEW k \in Keys, Expire(k) PROVE IInv'
<1>1. /\ UNCHANGED <<request, before, ran, kept>>
      /\ lapses' = [lapses EXCEPT ![k] = @ + 1]
      /\ store' = [store EXCEPT ![k] = None]
  BY DEF Expire
<1>2. /\ lapsed' = lapsed \cup {q \in kept : Key(q) = k} /\ store'[k] = None
      /\ \A j \in Keys : j # k => store'[j] = store[j]
  BY <1>1 DEF IInv, Types, Expire
<1>3. \A q \in kept : Key(q) \in Keys BY DEF IInv, Parts, KeptIsServed
<1>4. Types' BY <1>1, <1>2 DEF IInv, Types
<1>5. RanIsServed' /\ KeptIsServed' /\ BeforeIsAnswered'
  BY <1>1 DEF IInv, Parts, RanIsServed, KeptIsServed, BeforeIsAnswered, Key, Answered
<1>6. StoredIsKept' BY <1>1, <1>2 DEF IInv, Parts, StoredIsKept, Key
<1>7. KeptUntilLapse' BY <1>1, <1>2, <1>3 DEF IInv, Parts, KeptUntilLapse, Key
<1>8. LookedIsNew' BY <1>1, <1>2, <1>3 DEF IInv, Parts, LookedIsNew, Key
<1>9. RepeatsAreNotRun'
  BY <1>1, <1>2, <1>3 DEF IInv, RepeatsAreNotRun, RanAfterLookup, Key
<1>10. SuccessIsTrue' BY <1>1 DEF IInv, SuccessIsTrue, Answered
<1>11. QED
  BY <1>4, <1>5, <1>6, <1>7, <1>8, <1>9, <1>10 DEF IInv, Parts

LEMMA NextInv == IInv /\ [Next]_vars => IInv'
<1>1. ASSUME IInv, UNCHANGED vars PROVE IInv'
  BY <1>1 DEF vars, IInv, Types, Parts, RanIsServed, KeptIsServed, StoredIsKept,
     KeptUntilLapse, BeforeIsAnswered, LookedIsNew, SuccessIsTrue, RepeatsAreNotRun,
     RanAfterLookup, Answered, Key
<1>2. QED
  BY <1>1, ReceiveInv, AllowInv, ReplayInv, PassRecordedInv, PassUnrecordedInv, RunInv,
     SetInv, ExpireInv
     DEF Next

LEMMA Invariant == Spec => []IInv
BY InitHolds, NextInv, PTL DEF Spec

-----------------------------------------------------------------------------
\* An answer of success, first or repeated, is that of a request with the same key
\* which the handler served: neither a race of two lookups nor an expiry or a
\* failing store makes a success up, or repeats that of another key.
THEOREM SuccessesAreTrue == Spec => []SuccessIsTrue
<1>1. IInv => SuccessIsTrue BY DEF IInv
<1>2. QED BY <1>1, Invariant, PTL

\* A request received after the answer to its key was stored and sent, and whose
\* lookup works, is not run unless that answer has expired.
THEOREM RepeatsDoNotRun == Spec => []RepeatsAreNotRun
<1>1. IInv => RepeatsAreNotRun BY DEF IInv
<1>2. QED BY <1>1, Invariant, PTL
=============================================================================
