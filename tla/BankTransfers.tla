---------------------------- MODULE BankTransfers ----------------------------
(***************************************************************************)
(* What the providers that move money by bank transfer promise, whichever  *)
(* scheme they use.  A payment is on record before the bank hears of it.   *)
(* From then on the record shows only what the bank has said of it, in     *)
(* whatever order it was learnt, except that the provider may once give    *)
(* the payment up because the submission failed.  Only a final status that *)
(* the bank has stated is announced to the rest of the system, and only a  *)
(* payment the bank has returned is reversed.                              *)
(*                                                                         *)
(* FPSPayments and SEPAReports implement it.                               *)
(***************************************************************************)
CONSTANTS
  Payments,
  Statuses,   \* the statuses of the scheme
  Failure,    \* the one a payment is given up with
  Final       \* the ones that are announced

VARIABLES
  status,     \* of each payment on record, or "absent"
  said,       \* what the bank has said of each payment
  announced,  \* pairs of a payment and a status
  reversed,   \* payments whose funding was reversed
  givenUp     \* payments whose submission failed
vars == <<status, said, announced, reversed, givenUp>>

Init ==
  /\ status = [p \in Payments |-> "absent"]
  /\ said = [p \in Payments |-> {}]
  /\ announced = {}
  /\ reversed = {}
  /\ givenUp = {}

Open(p) ==
  /\ status[p] = "absent"
  /\ status' = [status EXCEPT ![p] = "SUBMITTED"]
  /\ UNCHANGED <<said, announced, reversed, givenUp>>

Say(p, s) ==
  /\ status[p] # "absent"
  /\ said' = [said EXCEPT ![p] = @ \cup {s}]
  /\ UNCHANGED <<status, announced, reversed, givenUp>>

Record(p, s) ==
  /\ status[p] # "absent"
  /\ s \in said[p]
  /\ status' = [status EXCEPT ![p] = s]
  /\ UNCHANGED <<said, announced, reversed, givenUp>>

GiveUp(p) ==
  /\ status[p] # "absent"
  /\ p \notin givenUp
  /\ status' = [status EXCEPT ![p] = Failure]
  /\ givenUp' = givenUp \cup {p}
  /\ UNCHANGED <<said, announced, reversed>>

Announce(p, s) ==
  /\ s \in said[p] \cap Final
  /\ announced' = announced \cup {<<p, s>>}
  /\ UNCHANGED <<status, said, reversed, givenUp>>

Reverse(p) ==
  /\ "RETURNED" \in said[p]
  /\ reversed' = reversed \cup {p}
  /\ UNCHANGED <<status, said, announced, givenUp>>

Next ==
  \E p \in Payments :
    \/ Open(p) \/ GiveUp(p) \/ Reverse(p)
    \/ \E s \in Statuses : Say(p, s) \/ Record(p, s) \/ Announce(p, s)

Spec == Init /\ [][Next]_vars
=============================================================================
