---------------------------- MODULE EventDelivery ----------------------------
(***************************************************************************)
(* Events over NATS JetStream: Publisher appends to a stream, and each     *)
(* Subscriber loops over a durable consumer, hands every message to its    *)
(* handler and then acknowledges it, or refuses it where the handler fails.*)
(*                                                                         *)
(* JetStream is external.  A message is delivered until it is acknowledged,*)
(* but not more than MaxDeliver times.  A delivery that is neither         *)
(* acknowledged nor refused within AckWait is repeated, also while the     *)
(* first handler is still at work; its late acknowledgement counts.  The   *)
(* stream's limits (seven days, a gigabyte) are taken not to be reached.   *)
(***************************************************************************)
EXTENDS Integers

CONSTANTS
  Messages,
  Poison,       \* messages that are no events
  Subscribers,  \* processes that consume through the one durable consumer
  MaxDeliver,   \* five
  MaxCrashes,   \* bound: how often subscribers die
  Faults        \* may handlers, acknowledgements and publications fail?

VARIABLES
  stream,      \* external: the messages published
  deliveries,  \* external: how often each was delivered
  pending,     \* external: messages whose AckWait is running
  acked,       \* external: messages acknowledged
  fetched,     \* deliveries that wait in the iterator of each subscriber
  sub,         \* the progress of each subscriber's loop
  handled,     \* how often each message's handler has run to its end
  crashes

vars == <<stream, deliveries, pending, acked, fetched, sub, handled, crashes>>

Init ==
  /\ stream = {}
  /\ deliveries = [m \in Messages |-> 0]
  /\ pending = {}
  /\ acked = {}
  /\ fetched = [s \in Subscribers |-> {}]
  /\ sub = [s \in Subscribers |-> [at |-> "next"]]
  /\ handled = [m \in Messages |-> 0]
  /\ crashes = 0

\* The publication is synchronous: an error may hide that it was stored.
Publish(m) ==
  /\ m \notin stream
  /\ stream' \in {stream \cup {m}} \cup (IF Faults THEN {stream} ELSE {})
  /\ UNCHANGED <<deliveries, pending, acked, fetched, sub, handled, crashes>>

-----------------------------------------------------------------------------
Deliverable(m) ==
  /\ m \in stream \ (pending \cup acked)
  /\ deliveries[m] < MaxDeliver

AckWaitExpires(m) ==
  /\ m \in pending
  /\ pending' = pending \ {m}
  /\ UNCHANGED <<stream, deliveries, acked, fetched, sub, handled, crashes>>

\* The server pushes messages to an iterator ahead of Next, and AckWait starts: a
\* delivery may wait there until it has expired, and be handled after its repetition.
Deliver(s, m) ==
  /\ Deliverable(m)
  /\ deliveries' = [deliveries EXCEPT ![m] = @ + 1]
  /\ pending' = pending \cup {m}
  /\ fetched' = [fetched EXCEPT ![s] = @ \cup {<<m, deliveries'[m]>>}]
  /\ UNCHANGED <<stream, acked, sub, handled, crashes>>

(***************************************************************************)
(* Start.                                                                  *)
(***************************************************************************)
Loop(s, at) == sub' = [sub EXCEPT ![s] = at]
Next_ == [at |-> "next"]

\* iter.Next and the handler's start; a message that cannot be read is refused
\* without a handler.  An error of Next is logged and Next asked again, which
\* changes nothing: an iterator is taken not to stay broken.
Receive(s) ==
  /\ sub[s] = Next_
  /\ \E d \in fetched[s] :
       /\ fetched' = [fetched EXCEPT ![s] = @ \ {d}]
       /\ Loop(s, [at |-> IF d[1] \in Poison THEN "naking" ELSE "handling", msg |-> d[1]])
  /\ UNCHANGED <<stream, deliveries, pending, acked, handled, crashes>>

AckAnyway(s) ==
  /\ sub[s].at = "handling"
  /\ handled' \in {[handled EXCEPT ![sub[s].msg] = @ + 1]} \cup (IF Faults THEN {handled} ELSE {})
  /\ Loop(s, [at |-> "acking", msg |-> sub[s].msg])
  /\ UNCHANGED <<stream, deliveries, pending, acked, fetched, crashes>>

\* A handler that fails may have done its work all the same.
Handle(s) ==
  /\ sub[s].at = "handling"
  /\ LET m == sub[s].msg
         done == [handled EXCEPT ![m] = @ + 1]
     IN  \/ handled' = done /\ Loop(s, [at |-> "acking", msg |-> m])
         \/ Faults /\ handled' \in {done, handled} /\ Loop(s, [at |-> "naking", msg |-> m])
  /\ UNCHANGED <<stream, deliveries, pending, acked, fetched, crashes>>

\* An acknowledgement that is lost is logged and left to AckWait.
Ack(s) ==
  /\ sub[s].at = "acking"
  /\ \/ /\ acked' = acked \cup {sub[s].msg}
        /\ pending' = pending \ {sub[s].msg}
     \/ Faults /\ UNCHANGED <<acked, pending>>
  /\ Loop(s, Next_)
  /\ UNCHANGED <<stream, deliveries, fetched, handled, crashes>>

Nak(s) ==
  /\ sub[s].at = "naking"
  /\ pending' \in {pending \ {sub[s].msg}} \cup (IF Faults THEN {pending} ELSE {})
  /\ Loop(s, Next_)
  /\ UNCHANGED <<stream, deliveries, acked, fetched, handled, crashes>>

\* A subscriber dies and is started again.
Crash(s) ==
  /\ crashes < MaxCrashes
  /\ sub[s] # Next_ \/ fetched[s] # {}
  /\ crashes' = crashes + 1
  /\ fetched' = [fetched EXCEPT ![s] = {}]
  /\ Loop(s, Next_)
  /\ UNCHANGED <<stream, deliveries, pending, acked, handled>>

Start(s) ==
  Receive(s) \/ Handle(s) \/ Ack(s) \/ Nak(s)

Next ==
  \/ \E m \in Messages : Publish(m) \/ AckWaitExpires(m)
  \/ \E s \in Subscribers : Start(s) \/ Crash(s) \/ \E m \in Messages : Deliver(s, m)

-----------------------------------------------------------------------------
TypeOK ==
  /\ stream \subseteq Messages
  /\ deliveries \in [Messages -> 0 .. MaxDeliver]
  /\ pending \subseteq stream
  /\ acked \subseteq stream
  /\ fetched \in [Subscribers -> SUBSET (Messages \X (1 .. MaxDeliver))]
  /\ sub \in [Subscribers ->
       {Next_} \cup [at : {"handling", "acking", "naking"}, msg : Messages]]
  /\ handled \in [Messages -> 0 .. MaxDeliver]
  /\ crashes \in 0 .. MaxCrashes

\* An acknowledged event was handled, to the end, by somebody: the
\* acknowledgement comes last, and neither a crash nor a redelivery while a
\* handler is at work makes an unhandled event disappear.
AckedIsHandled ==
  \A m \in acked : handled[m] > 0 /\ m \notin Poison

\* A published event is acknowledged in the end, or has used up its deliveries.
Settled(m) == m \in acked \/ deliveries[m] = MaxDeliver
=============================================================================
