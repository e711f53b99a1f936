------------------------------ MODULE Deposits ------------------------------
(***************************************************************************)
(* The Open Banking provider and the event bus that carries the deposits   *)
(* it detects.  A payment is initiated at the provider and then stored.    *)
(* When the customer has authorised it, the provider's callback makes the  *)
(* adapter ask for the payment's status, record it, and announce a deposit *)
(* when it is completed.  Callbacks are repeated and run concurrently, and *)
(* each announces a deposit with an id of its own, here the callback's.    *)
(*                                                                         *)
(* The payment provider is external.  The adapter's publisher is an        *)
(* interface that nothing in the repository implements; it is taken to be  *)
(* the NATS publisher of EventDelivery, the only one there is, and the     *)
(* consumer of deposits to be a Subscriber.                                *)
(***************************************************************************)
EXTENDS Integers, FiniteSets

CONSTANTS
  Payments,    \* calls of Initiate
  Callbacks,   \* calls of HandleCallback
  Subscribers, MaxDeliver, MaxCrashes,
  Faults, None

ASSUME DeliverAssumption == MaxDeliver \in Nat \ {0} /\ MaxCrashes \in Nat
ASSUME FaultsAssumption == Faults \in BOOLEAN
ASSUME SubscribersAssumption == IsFiniteSet(Subscribers)

VARIABLES
  row,         \* openbanking_payments: [status, deposit], or None
  initiate,    \* the progress of each Initiate
  callback,    \* the progress of each HandleCallback
  provider,    \* external: the provider's status of each payment
  stream, deliveries, pending, acked, fetched, sub, handled, crashes

obVars == <<row, initiate, callback, provider>>
busVars == <<stream, deliveries, pending, acked, fetched, sub, handled, crashes>>
vars == <<obVars, busVars>>

Bus == INSTANCE EventDelivery WITH Messages <- Callbacks, Poison <- {}

Status == {"PENDING", "AUTHORISED", "COMPLETED", "FAILED"}
ASSUME NoneAssumption == None \notin [status : Status, deposit : Callbacks \cup {None}]

Init ==
  /\ row = [p \in Payments |-> None]
  /\ initiate = [p \in Payments |-> "idle"]
  /\ callback = [c \in Callbacks |-> [at |-> "idle"]]
  /\ provider = [p \in Payments |-> "none"]
  /\ Bus!Init

OrUnchanged(changed) == {changed} \cup (IF Faults THEN {row} ELSE {})

-----------------------------------------------------------------------------
(***************************************************************************)
(* Initiate: the provider first, then the row.  If either fails the        *)
(* customer gets an error, though the provider may have the payment.       *)
(***************************************************************************)
Initiate(p) ==
  /\ initiate[p] = "idle"
  /\ \/ /\ provider' = [provider EXCEPT ![p] = "PENDING"]
        /\ initiate' = [initiate EXCEPT ![p] = "storing"]
     \/ /\ Faults
        /\ provider' \in {provider, [provider EXCEPT ![p] = "PENDING"]}
        /\ initiate' = [initiate EXCEPT ![p] = "failed"]
  /\ UNCHANGED <<row, callback>>

StorePayment(p) ==
  LET stored == [row EXCEPT ![p] = [status |-> "PENDING", deposit |-> None]]
  IN  /\ initiate[p] = "storing"
      /\ \/ row' = stored /\ initiate' = [initiate EXCEPT ![p] = "done"]
         \/ Faults /\ row' \in {row, stored} /\ initiate' = [initiate EXCEPT ![p] = "failed"]
      /\ UNCHANGED <<callback, provider>>

Moves(s) ==
  CASE s = "PENDING" -> {"AUTHORISED", "FAILED"}
    [] s = "AUTHORISED" -> {"COMPLETED", "FAILED"}
    [] OTHER -> {}

ProviderMoves(p) ==
  /\ \E s \in Moves(provider[p]) : provider' = [provider EXCEPT ![p] = s]
  /\ UNCHANGED <<row, initiate, callback>>

-----------------------------------------------------------------------------
(***************************************************************************)
(* HandleCallback.                                                         *)
(***************************************************************************)
Go(c, at, p, s) ==
  callback' = [callback EXCEPT ![c] = [at |-> at, payment |-> p, status |-> s]]
Return(c) == callback' = [callback EXCEPT ![c] = [at |-> "done"]]

\* Only a payment on record is looked at; its copy serves the event.
GetPayment(c, p) ==
  /\ callback[c].at = "idle"
  /\ \/ row[p] # None /\ Go(c, "checking", p, "none")
     \/ (row[p] = None \/ Faults) /\ Return(c)
  /\ UNCHANGED <<row, initiate, provider>>

ErrorFails(c) ==
  LET p == callback[c].payment
  IN  /\ callback[c].at = "checking"
      /\ \/ provider[p] # "PENDING" /\ Go(c, "updating", p, provider[p])
         \/ provider[p] = "PENDING" /\ Return(c)
         \/ Faults /\ Go(c, "updating", p, "FAILED")
      /\ UNCHANGED <<row, initiate, provider>>

\* The answer tells the status of the moment.  An HTTP error is not noticed: its
\* body has no status, which is none of the cases.
CheckStatus(c) ==
  LET p == callback[c].payment
  IN  /\ callback[c].at = "checking"
      /\ \/ provider[p] # "PENDING" /\ Go(c, "updating", p, provider[p])
         \/ (provider[p] = "PENDING" \/ Faults) /\ Return(c)
      /\ UNCHANGED <<row, initiate, provider>>

AnnounceAuthorised(c) ==
  LET p == callback[c].payment
      s == callback[c].status
  IN  /\ callback[c].at = "updating"
      /\ row' \in OrUnchanged([row EXCEPT ![p].status = s])
      /\ IF s # "FAILED" THEN Go(c, "linking", p, s) ELSE Return(c)
      /\ UNCHANGED <<initiate, provider>>

\* The update has no condition and its error is ignored.
Update(c) ==
  LET p == callback[c].payment
      s == callback[c].status
  IN  /\ callback[c].at = "updating"
      /\ row' \in OrUnchanged([row EXCEPT ![p].status = s])
      /\ IF s = "COMPLETED" THEN Go(c, "linking", p, s) ELSE Return(c)
      /\ UNCHANGED <<initiate, provider>>

LinkPayment(c) ==
  LET p == callback[c].payment
  IN  /\ callback[c].at = "linking"
      /\ row' \in OrUnchanged([row EXCEPT ![p].deposit = p])
      /\ Go(c, "publishing", p, callback[c].status)
      /\ UNCHANGED <<initiate, provider>>

\* A fresh deposit id replaces whatever the row held.
LinkDeposit(c) ==
  LET p == callback[c].payment
  IN  /\ callback[c].at = "linking"
      /\ row' \in OrUnchanged([row EXCEPT ![p].deposit = c])
      /\ Go(c, "publishing", p, callback[c].status)
      /\ UNCHANGED <<initiate, provider>>

PublishDepositDetected(c) ==
  /\ callback[c].at = "publishing"
  /\ Bus!Publish(c)
  /\ Go(c, "announced", callback[c].payment, callback[c].status)
  /\ UNCHANGED <<row, initiate, provider>>

\* The process dies while it serves a callback.
AbandonCallback(c) ==
  /\ Faults
  /\ callback[c].at \in {"checking", "updating", "linking", "publishing"}
  /\ Return(c)
  /\ UNCHANGED <<row, initiate, provider>>

-----------------------------------------------------------------------------
HandleCallback(c) ==
  \/ \E p \in Payments : GetPayment(c, p)
  \/ CheckStatus(c) \/ Update(c) \/ LinkDeposit(c) \/ AbandonCallback(c)

Next ==
  \/ (\E p \in Payments : Initiate(p) \/ StorePayment(p) \/ ProviderMoves(p)) /\ UNCHANGED busVars
  \/ (\E c \in Callbacks : HandleCallback(c)) /\ UNCHANGED busVars
  \/ \E c \in Callbacks : PublishDepositDetected(c)
  \/ (\E c \in Callbacks : Bus!AckWaitExpires(c)) /\ UNCHANGED obVars
  \/ (\E s \in Subscribers, c \in Callbacks : Bus!Deliver(s, c)) /\ UNCHANGED obVars
  \/ (\E s \in Subscribers : Bus!Start(s) \/ Bus!Crash(s)) /\ UNCHANGED obVars

\* Subscribers loop and handlers end; the server repeats what is not
\* acknowledged in time, to whoever asks for the next message.
Fairness ==
  /\ \A s \in Subscribers : WF_vars(Bus!Start(s) /\ UNCHANGED obVars)
  /\ \A c \in Callbacks :
       /\ WF_vars(Bus!AckWaitExpires(c) /\ UNCHANGED obVars)
       /\ WF_vars((\E s \in Subscribers : Bus!Deliver(s, c)) /\ UNCHANGED obVars)

Spec == Init /\ [][Next]_vars
FairSpec == Spec /\ Fairness

-----------------------------------------------------------------------------
(***************************************************************************)
(* Properties.                                                             *)
(***************************************************************************)
Busy == {"checking", "updating", "linking", "publishing", "announced"}

\* The variables of both parts keep their types.
TypeOK ==
  /\ row \in [Payments -> [status : Status, deposit : Callbacks \cup {None}] \cup {None}]
  /\ initiate \in [Payments -> {"idle", "storing", "done", "failed"}]
  /\ callback \in [Callbacks ->
       [at : {"idle", "done"}]
       \cup [at : Busy, payment : Payments, status : Status \cup {"none"}]]
  /\ provider \in [Payments -> Status \cup {"none"}]
  /\ Bus!TypeOK

\* A deposit reaches its handler only for a payment that the provider has
\* completed and that is on record, whatever a slower callback writes there.
HandledIsCompleted ==
  \A c \in Callbacks :
    handled[c] > 0 =>
      /\ callback[c].at = "announced"
      /\ provider[callback[c].payment] = "COMPLETED"
      /\ row[callback[c].payment] # None

\* A payment on record as failed has no deposit, announced or linked: a callback
\* that read an older status cannot fail a completed payment.
FailedHasNoDeposit ==
  \A p \in Payments :
    row[p] # None /\ row[p].status = "FAILED" =>
      /\ row[p].deposit = None
      /\ \A c \in stream : callback[c].payment # p

\* No event is acknowledged that was not handled.
AckedIsHandled == Bus!AckedIsHandled

=============================================================================
