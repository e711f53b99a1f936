-------------------------- MODULE FPSPayments_proofs --------------------------
(***************************************************************************)
(* Proofs about FPSPayments, for any number of payments, webhooks, recalls *)
(* and returns, any recall window, with and without faults and crashes.    *)
(***************************************************************************)
EXTENDS FPSPayments, TLAPS

Times == (0 .. MaxClock) \cup {Null}
Row == [status : FPSStatus, settledAt : Times]
Rows == [Payments -> Row \cup {Null}]

\* A row is not Null.
LEMMA RowIsNotNull == \A x \in Row : x # Null
<1>1. Times \subseteq Int \cup {Null} BY ClockAssumption DEF Times
<1>2. Row \subseteq [status : FPSStatus, settledAt : Int \cup {Null}] BY <1>1 DEF Row
<1>3. QED BY <1>2, NullAssumption

\* A status written to a row that exists changes the status of that row.
LEMMA UpdateRow ==
  ASSUME row \in Rows, NEW p \in Payments, Known(p), NEW s \in FPSStatus
  PROVE  /\ UpdateStatus(p, s) \in Rows
         /\ UpdateStatus(p, s)[p].status = s
         /\ \A q \in Payments :
              /\ (UpdateStatus(p, s)[q] # Null) <=> Known(q)
              /\ q # p => UpdateStatus(p, s)[q] = row[q]
<1>1. row[p] \in Row BY DEF Known, Rows
<1>2. [row[p] EXCEPT !.status = s] \in Row BY <1>1 DEF Row
<1>3. UpdateStatus(p, s) = [row EXCEPT ![p] = [row[p] EXCEPT !.status = s]]
  BY DEF UpdateStatus
<1>4. [row[p] EXCEPT !.status = s].status = s BY <1>1 DEF Row
<1>5. QED BY <1>2, <1>3, <1>4, RowIsNotNull DEF Rows, Known

\* So does the settlement, which also sets the time.
LEMMA SettleRow ==
  ASSUME row \in Rows, NEW p \in Payments, Known(p), NEW at \in Times
  PROVE  /\ MarkSettled(p, at) \in Rows
         /\ MarkSettled(p, at)[p].status = "SETTLED"
         /\ \A q \in Payments :
              /\ (MarkSettled(p, at)[q] # Null) <=> Known(q)
              /\ q # p => MarkSettled(p, at)[q] = row[q]
<1>1. [status |-> "SETTLED", settledAt |-> at] \in Row BY DEF Row, FPSStatus
<1>2. QED BY <1>1, RowIsNotNull DEF Rows, Known, MarkSettled

\* The new row of a payment is a row.
LEMMA NewRow ==
  ASSUME row \in Rows, NEW p \in Payments
  PROVE  /\ [row EXCEPT ![p] = NewPayment] \in Rows
         /\ [row EXCEPT ![p] = NewPayment][p].status = "SUBMITTED"
         /\ [row EXCEPT ![p] = NewPayment][p] # Null
<1>1. NewPayment \in Row BY DEF Row, NewPayment, FPSStatus, Times
<1>2. QED BY <1>1, RowIsNotNull DEF Rows, NewPayment

-----------------------------------------------------------------------------
(***************************************************************************)
(* Type correctness.  That a goroutine in the middle of its work finds the *)
(* row it updates is part of the invariant, so the two are proved together.*)
(***************************************************************************)
LEMMA InitType == Init => TypeOK
BY ClockAssumption DEF Init, TypeOK

LEMMA InitInv == Init => RecordInv
BY DEF Init, RecordInv, HeardFromBank, InHand, RecordedFirst, RecallsAreOfSettled, Known

LEMMA NextType ==
  TypeOK /\ RecordInv /\ [Next]_vars => TypeOK'
<1> SUFFICES ASSUME TypeOK, RecordInv, [Next]_vars PROVE TypeOK' OBVIOUS
<1> USE ClockAssumption
<1>1. row \in Rows
  BY DEF TypeOK, Rows, Row, Times
<1>2. ASSUME row' \in Rows
      PROVE  row' \in [Payments ->
               [status : FPSStatus, settledAt : (0 .. MaxClock) \cup {Null}] \cup {Null}]
  BY <1>2 DEF Rows, Row, Times
<1>3. ASSUME NEW p \in Payments, Create(p) PROVE TypeOK'
  <2>1. row' \in Rows BY <1>1, <1>3, NewRow DEF Create
  <2>2. QED BY <1>2, <1>3, <2>1 DEF TypeOK, Create, To, bankVars, outVars
<1>4. ASSUME NEW p \in Payments, Send(p) PROVE TypeOK'
  BY <1>4 DEF TypeOK, Send, To, outVars
<1>5. ASSUME NEW p \in Payments, Answered(p) PROVE TypeOK'
  <2>1. bank[p] \in FPSStatus BY <1>5 DEF Answered, TypeOK
  <2>2. QED BY <1>5, <2>1 DEF TypeOK, Answered, bankVars, outVars
<1>6. ASSUME NEW p \in Payments, SubmitFails(p) PROVE TypeOK'
  BY <1>6 DEF TypeOK, SubmitFails, To, bankVars, outVars
<1>7. ASSUME NEW p \in Payments, RecordAnswer(p) PROVE TypeOK'
  <2>1. submit[p].status \in FPSStatus /\ Known(p)
    BY <1>7 DEF RecordAnswer, TypeOK, RecordInv, RecordedFirst
  <2>2. row' \in Rows BY <1>1, <1>7, <2>1, UpdateRow DEF RecordAnswer
  <2>3. QED BY <1>2, <1>7, <2>2 DEF TypeOK, RecordAnswer, To, bankVars, outVars
<1>8. ASSUME NEW p \in Payments, RecordFailure(p) PROVE TypeOK'
  <2>1. Known(p) /\ "FAILED" \in FPSStatus
    BY <1>8 DEF RecordFailure, RecordInv, RecordedFirst, FPSStatus
  <2>2. row' \in Rows BY <1>1, <1>8, <2>1, UpdateRow DEF RecordFailure, MarkFailed
  <2>3. QED BY <1>2, <1>8, <2>2 DEF TypeOK, RecordFailure, To, bankVars, outVars
<1>9. ASSUME NEW p \in Payments, BankMoves(p) PROVE TypeOK'
  <2>1. PICK s \in Moves(bank[p]) :
          /\ bank' = [bank EXCEPT ![p] = s]
          /\ said' = [said EXCEPT ![p] = @ \cup {s}]
          /\ settled' = IF s = "SETTLED" THEN [settled EXCEPT ![p] = clock] ELSE settled
          /\ unacked' = unacked \cup ({<<p, s>>} \cap (Payments \X Hooked))
    BY <1>9 DEF BankMoves
  <2>2. s \in FPSStatus BY DEF Moves, FPSStatus
  <2>3. unacked' \subseteq Payments \X Hooked BY <2>1 DEF TypeOK
  <2>4. bank' \in [Payments -> FPSStatus \cup {"none", "sent"}] BY <2>1, <2>2 DEF TypeOK
  <2>5. said' \in [Payments -> SUBSET FPSStatus] BY <2>1, <2>2 DEF TypeOK
  <2>6. settled' \in [Payments -> (0 .. MaxClock) \cup {Null}] BY <2>1 DEF TypeOK
  <2>7. QED BY <1>9, <2>3, <2>4, <2>5, <2>6 DEF TypeOK, BankMoves, procVars, outVars
<1>10. ASSUME NEW h \in Hooks, NEW p \in Payments, HandleAccepted(h, p) PROVE TypeOK'
  <2>1. row' \in Rows
    <3>1. "ACCEPTED" \in FPSStatus BY DEF FPSStatus
    <3>2. QED BY <1>1, <1>10, <3>1, UpdateRow DEF HandleAccepted, HookOnTime, MarkAccepted
  <2>2. QED BY <1>2, <1>10, <2>1 DEF TypeOK, HandleAccepted, Acknowledge, procVars, outVars
<1>11. ASSUME NEW h \in Hooks, NEW p \in Payments, NEW s \in {"SETTLED", "FAILED"},
              HandleFinal(h, p, s)
       PROVE  TypeOK'
  <2>1. row' \in Rows
    <3>1. Marked(p, s) \subseteq Rows
      <4>1. "FAILED" \in FPSStatus BY DEF FPSStatus
      <4>2. settled[p] \in Times /\ clock \in Times BY DEF TypeOK, Times
      <4>3. Known(p) BY <1>11 DEF HandleFinal, HookOnTime
      <4>4. QED BY <1>1, <4>1, <4>2, <4>3, UpdateRow, SettleRow DEF Marked, MarkFailed
    <3>2. QED BY <1>1, <1>11, <3>1 DEF HandleFinal
  <2>2. dropped' \subseteq Payments \X Hooked /\ unacked' \subseteq Payments \X Hooked
    BY <1>11 DEF HandleFinal, TypeOK, Drop, Acknowledge, Hooked
  <2>3. hook' \in [Hooks ->
          [at : {"idle"}]
          \cup [at : {"publishing"}, payment : Payments, status : {"SETTLED", "FAILED"}]]
    BY <1>11 DEF HandleFinal, TypeOK
  <2>4. QED BY <1>2, <1>11, <2>1, <2>2, <2>3 DEF TypeOK, HandleFinal
<1>12. ASSUME NEW h \in Hooks, PublishSettlement(h) PROVE TypeOK'
  <2>1. hook[h].payment \in Payments /\ hook[h].status \in Hooked
    BY <1>12 DEF PublishSettlement, TypeOK, Hooked
  <2>2. /\ announced' \subseteq Payments \X Hooked
        /\ dropped' \subseteq Payments \X Hooked
        /\ unacked' \subseteq Payments \X Hooked
    BY <1>12, <2>1 DEF PublishSettlement, TypeOK, Drop, Acknowledge
  <2>3. QED BY <1>12, <2>2 DEF TypeOK, PublishSettlement
<1>13. ASSUME NEW c \in Recalls, CheckRecall(c) PROVE TypeOK'
  BY <1>13 DEF TypeOK, CheckRecall, bankVars, outVars
<1>14. ASSUME NEW c \in Recalls, AskRecall(c) PROVE TypeOK'
  <2>1. recall[c].payment \in Payments BY <1>14 DEF AskRecall, TypeOK
  <2>2. asked' \subseteq Payments \X (0 .. MaxClock) BY <1>14, <2>1 DEF AskRecall, TypeOK
  <2>3. recall' \in [Recalls ->
          [at : {"idle", "done"}] \cup [at : {"asking", "marking"}, payment : Payments]]
    BY <1>14, <2>1 DEF AskRecall, TypeOK
  <2>4. bank' \in [Payments -> FPSStatus \cup {"none", "sent"}]
    BY <1>14, <2>1 DEF AskRecall, TypeOK, FPSStatus
  <2>5. said' \in [Payments -> SUBSET FPSStatus]
    <3>1. "RECALLED" \in FPSStatus BY DEF FPSStatus
    <3>2. QED BY <1>14, <2>1, <3>1 DEF AskRecall, TypeOK
  <2>6. QED BY <1>14, <2>2, <2>3, <2>4, <2>5 DEF TypeOK, AskRecall
<1>15. ASSUME NEW c \in Recalls, RecordRecall(c) PROVE TypeOK'
  <2>1. recall[c].payment \in Payments BY <1>15 DEF RecordRecall, TypeOK
  <2>2. Known(recall[c].payment)
    BY <1>15, <2>1 DEF RecordRecall, RecordInv, InHand, RecordedFirst
  <2>3. row' \in Rows
    <3>1. "RECALLED" \in FPSStatus BY DEF FPSStatus
    <3>2. QED BY <1>1, <1>15, <2>1, <2>2, <3>1, UpdateRow DEF RecordRecall, MarkRecalled
  <2>4. QED BY <1>2, <1>15, <2>3 DEF TypeOK, RecordRecall, bankVars, outVars
<1>16. ASSUME NEW n \in Returns, HandleReturn(n) PROVE TypeOK'
  <2>1. row' \in Rows
    <3>1. "RETURNED" \in FPSStatus BY DEF FPSStatus
    <3>2. QED BY <1>1, <1>16, <3>1, UpdateRow DEF HandleReturn, MarkReturned
  <2>2. return' \in [Returns ->
          [at : {"idle", "done"}] \cup [at : {"reversing"}, payment : Payments]]
    BY <1>16 DEF HandleReturn, TypeOK
  <2>3. QED BY <1>2, <1>16, <2>1, <2>2 DEF TypeOK, HandleReturn, bankVars, outVars
<1>17. ASSUME NEW n \in Returns, NotifyFunding(n) PROVE TypeOK'
  <2>1. return[n].payment \in Payments BY <1>17 DEF NotifyFunding, TypeOK
  <2>2. QED BY <1>17, <2>1 DEF TypeOK, NotifyFunding, bankVars
<1>18. CASE Tick
  BY <1>18 DEF Tick, TypeOK, procVars, bankVars, outVars
<1>19. CASE Crash
  BY <1>19 DEF Crash, TypeOK, bankVars, outVars
<1>20. CASE UNCHANGED vars
  BY <1>20 DEF TypeOK, vars, procVars, bankVars, outVars
<1>21. QED
  BY <1>3, <1>4, <1>5, <1>6, <1>7, <1>8, <1>9, <1>10, <1>11, <1>12, <1>13, <1>14,
     <1>15, <1>16, <1>17, <1>18, <1>19, <1>20 DEF Next, Submit

-----------------------------------------------------------------------------
(***************************************************************************)
(* The invariant is inductive.                                             *)
(***************************************************************************)
\* What the bank has said of a payment, it has said of one on record.
LEMMA SaidIsKnown ==
  ASSUME RecordInv, NEW p \in Payments, said[p] # {}
  PROVE  Known(p)
BY DEF RecordInv, RecordedFirst

\* Actions that leave the rows, the bank and the submissions alone keep what is
\* said of them.
LEMMA SameRecords ==
  ASSUME RecordInv, UNCHANGED <<row, submit, bank, said>>
  PROVE  HeardFromBank' /\ RecordedFirst'
BY DEF RecordInv, HeardFromBank, RecordedFirst, Known

\* Recording what the bank has said of a payment that it knows keeps both, too.
LEMMA RecordingSaid ==
  ASSUME RecordInv, NEW p \in Payments, NEW s \in said[p], Known(p),
         row'[p].status = s,
         \A q \in Payments : (row'[q] # Null) <=> Known(q),
         \A q \in Payments : q # p => row'[q] = row[q],
         UNCHANGED <<submit, bank, said>>
  PROVE  HeardFromBank' /\ RecordedFirst'
<1>1. HeardFromBank' BY DEF RecordInv, HeardFromBank, Known
<1>2. RecordedFirst' BY DEF RecordInv, RecordedFirst, Known
<1>3. QED BY <1>1, <1>2

LEMMA NextInv == TypeOK /\ RecordInv /\ [Next]_vars => RecordInv'
<1> SUFFICES ASSUME TypeOK, RecordInv, [Next]_vars PROVE RecordInv' OBVIOUS
<1> USE ClockAssumption
<1>1. row \in Rows BY DEF TypeOK, Rows, Row, Times
<1>2. ASSUME UNCHANGED <<hook, recall, return, said>> PROVE InHand'
  BY <1>2 DEF RecordInv, InHand
<1>3. ASSUME UNCHANGED <<asked, said>> PROVE RecallsAreOfSettled'
  BY <1>3 DEF RecordInv, RecallsAreOfSettled
<1>4. ASSUME NEW p \in Payments, Create(p) PROVE RecordInv'
  <2>1. PICK at \in {"sending", "refused"} : submit' = [submit EXCEPT ![p] = [at |-> at]]
    BY <1>4 DEF Create, To
  <2>2. submit'[p].at = at /\ \A q \in Payments : q # p => submit'[q] = submit[q]
    BY <2>1 DEF TypeOK
  <2>3. /\ ~Known(p) /\ bank[p] = "none" /\ said[p] = {} /\ bank' = bank /\ said' = said
    BY <1>4 DEF Create, RecordInv, RecordedFirst, bankVars
  <2>4. \/ row' = row /\ at = "refused"
        \/ row' = [row EXCEPT ![p] = NewPayment]
    BY <1>4, <2>2 DEF Create, To, TypeOK
  <2>5. \A q \in Payments : q # p => row'[q] = row[q] BY <1>1, <2>4, NewRow DEF Rows
  <2>6. CASE row' = row /\ at = "refused"
    <3>1. HeardFromBank'
      BY <2>2, <2>3, <2>6 DEF RecordInv, HeardFromBank, Known
    <3>2. RecordedFirst'
      BY <2>2, <2>3, <2>6 DEF RecordInv, RecordedFirst, Known
    <3>3. QED BY <1>2, <1>3, <1>4, <3>1, <3>2 DEF Create, RecordInv, bankVars, outVars
  <2>7. CASE row' = [row EXCEPT ![p] = NewPayment]
    <3>1. row'[p].status = "SUBMITTED" /\ row'[p] # Null BY <1>1, <2>7, NewRow
    <3>2. HeardFromBank'
      BY <2>2, <2>3, <2>5, <3>1 DEF RecordInv, HeardFromBank, Known
    <3>3. RecordedFirst'
      BY <2>2, <2>3, <2>5, <3>1 DEF RecordInv, RecordedFirst, Known
    <3>4. QED BY <1>2, <1>3, <1>4, <3>2, <3>3 DEF Create, RecordInv, bankVars, outVars
  <2>8. QED BY <2>4, <2>6, <2>7
<1>5. ASSUME NEW p \in Payments, Send(p) PROVE RecordInv'
  <2>1. HeardFromBank' BY <1>5 DEF Send, To, TypeOK, RecordInv, HeardFromBank, Known
  <2>2. RecordedFirst' BY <1>5 DEF Send, To, TypeOK, RecordInv, RecordedFirst, Known
  <2>3. QED BY <1>2, <1>3, <1>5, <2>1, <2>2 DEF Send, RecordInv, outVars
<1>6. ASSUME NEW p \in Payments, Answered(p) PROVE RecordInv'
  <2>1. HeardFromBank' BY <1>6 DEF Answered, TypeOK, RecordInv, HeardFromBank, Known, bankVars
  <2>2. RecordedFirst' BY <1>6 DEF Answered, TypeOK, RecordInv, RecordedFirst, Known, bankVars
  <2>3. QED BY <1>2, <1>3, <1>6, <2>1, <2>2 DEF Answered, RecordInv, bankVars, outVars
<1>7. ASSUME NEW p \in Payments, SubmitFails(p) PROVE RecordInv'
  <2>1. HeardFromBank' BY <1>7 DEF SubmitFails, To, TypeOK, RecordInv, HeardFromBank, Known, bankVars
  <2>2. RecordedFirst' BY <1>7 DEF SubmitFails, To, TypeOK, RecordInv, RecordedFirst, Known, bankVars
  <2>3. QED BY <1>2, <1>3, <1>7, <2>1, <2>2 DEF SubmitFails, RecordInv, bankVars, outVars
<1>8. ASSUME NEW p \in Payments, RecordAnswer(p) PROVE RecordInv'
  <2>1. submit[p].status \in said[p] /\ submit[p].status \in FPSStatus /\ Known(p)
    BY <1>8 DEF RecordAnswer, TypeOK, RecordInv, RecordedFirst, HeardFromBank
  <2>2. /\ \A q \in Payments : (row'[q] # Null) <=> Known(q)
        /\ \A q \in Payments : q # p => row'[q] = row[q]
        /\ row'[p].status \in {row[p].status, submit[p].status}
    BY <1>1, <1>8, <2>1, UpdateRow DEF RecordAnswer, Known
  <2>3. /\ submit'[p].at = "done" /\ submit[p].at = "updating"
        /\ \A q \in Payments : q # p => submit'[q] = submit[q]
        /\ UNCHANGED <<bank, said>>
    BY <1>8 DEF RecordAnswer, To, TypeOK, bankVars
  <2>4. HeardFromBank'
    BY <2>1, <2>2, <2>3 DEF RecordInv, HeardFromBank, Known
  <2>5. RecordedFirst'
    BY <2>1, <2>2, <2>3 DEF RecordInv, RecordedFirst, Known
  <2>6. QED BY <1>2, <1>3, <1>8, <2>4, <2>5 DEF RecordAnswer, RecordInv, bankVars, outVars
<1>9. ASSUME NEW p \in Payments, RecordFailure(p) PROVE RecordInv'
  <2>1. Known(p) /\ "FAILED" \in FPSStatus
    BY <1>9 DEF RecordFailure, RecordInv, RecordedFirst, FPSStatus
  <2>2. /\ submit[p].at = "failing"
        /\ \/ submit'[p].at = "done" /\ row' = row
           \/ submit'[p].at = "gaveUp" /\ row' = UpdateStatus(p, "FAILED")
        /\ \A q \in Payments : q # p => submit'[q] = submit[q]
        /\ UNCHANGED <<bank, said>>
    BY <1>9 DEF RecordFailure, To, TypeOK, bankVars, MarkFailed
  <2>3. /\ \A q \in Payments : (row'[q] # Null) <=> Known(q)
        /\ \A q \in Payments : q # p => row'[q] = row[q]
        /\ submit'[p].at = "gaveUp" => row'[p].status = "FAILED"
        /\ submit'[p].at = "done" => row'[p] = row[p]
    BY <1>1, <2>1, <2>2, UpdateRow DEF Known
  <2>4. HeardFromBank'
    BY <2>2, <2>3 DEF RecordInv, HeardFromBank, Known
  <2>5. RecordedFirst'
    BY <2>1, <2>2, <2>3 DEF RecordInv, RecordedFirst, Known
  <2>6. QED BY <1>2, <1>3, <1>9, <2>4, <2>5 DEF RecordFailure, RecordInv, bankVars, outVars
<1>10. ASSUME NEW p \in Payments, BankMoves(p) PROVE RecordInv'
  <2>1. PICK s \in Moves(bank[p]) :
          /\ bank' = [bank EXCEPT ![p] = s]
          /\ said' = [said EXCEPT ![p] = @ \cup {s}]
    BY <1>10 DEF BankMoves
  <2>2. bank[p] # "none" /\ s # "none" BY DEF Moves
  <2>3. UNCHANGED <<row, submit, hook, recall, return, asked>>
    BY <1>10 DEF BankMoves, procVars, outVars
  <2>4. \A q \in Payments : said[q] \subseteq said'[q] BY <2>1 DEF TypeOK
  <2>5. HeardFromBank' BY <2>3, <2>4 DEF RecordInv, HeardFromBank, Known
  <2>6. RecordedFirst' BY <2>1, <2>2, <2>3 DEF TypeOK, RecordInv, RecordedFirst, Known
  <2>7. InHand'
    <3>1. /\ \A h \in Hooks : hook[h].at = "publishing" => hook[h].payment \in Payments
          /\ \A c \in Recalls :
               recall[c].at \in {"asking", "marking"} => recall[c].payment \in Payments
          /\ \A n \in Returns : return[n].at = "reversing" => return[n].payment \in Payments
      BY DEF TypeOK
    <3>2. QED BY <2>3, <2>4, <3>1 DEF RecordInv, InHand
  <2>8. RecallsAreOfSettled'
    <3>1. \A a \in asked : a[1] \in Payments BY DEF TypeOK
    <3>2. QED BY <2>3, <2>4, <3>1 DEF RecordInv, RecallsAreOfSettled
  <2>9. QED BY <2>5, <2>6, <2>7, <2>8 DEF RecordInv
<1>11. ASSUME NEW h \in Hooks, NEW p \in Payments, HandleAccepted(h, p) PROVE RecordInv'
  <2>1. "ACCEPTED" \in said[p] /\ Known(p) /\ "ACCEPTED" \in FPSStatus
    BY <1>11 DEF HandleAccepted, HookOnTime, FPSStatus
  <2>2. HeardFromBank' /\ RecordedFirst'
    <3>1. CASE row' = row
      BY <1>11, <3>1, SameRecords DEF HandleAccepted, procVars
    <3>2. CASE row' = UpdateStatus(p, "ACCEPTED")
      <4>1. UNCHANGED <<submit, bank, said>> BY <1>11 DEF HandleAccepted, procVars
      <4>2. QED BY <1>1, <2>1, <3>2, <4>1, UpdateRow, RecordingSaid
    <3>3. QED BY <1>11, <3>1, <3>2 DEF HandleAccepted, MarkAccepted
  <2>3. QED BY <1>2, <1>3, <1>11, <2>2 DEF HandleAccepted, RecordInv, procVars, outVars
<1>12. ASSUME NEW h \in Hooks, NEW p \in Payments, NEW s \in {"SETTLED", "FAILED"},
              HandleFinal(h, p, s)
       PROVE  RecordInv'
  <2>1. s \in said[p] /\ Known(p) BY <1>12 DEF HandleFinal, HookOnTime
  <2>2. HeardFromBank' /\ RecordedFirst'
    <3>1. UNCHANGED <<submit, bank, said>> BY <1>12 DEF HandleFinal
    <3>2. CASE row' = row BY <3>1, <3>2, SameRecords
    <3>3. CASE row' \in Marked(p, s)
      <4>1. /\ row'[p].status = s
            /\ \A q \in Payments : (row'[q] # Null) <=> Known(q)
            /\ \A q \in Payments : q # p => row'[q] = row[q]
        <5>1. "FAILED" \in FPSStatus BY DEF FPSStatus
        <5>2. settled[p] \in Times /\ clock \in Times BY DEF TypeOK, Times
        <5>3. QED BY <1>1, <2>1, <3>3, <5>1, <5>2, UpdateRow, SettleRow DEF Marked, MarkFailed
      <4>2. QED BY <2>1, <3>1, <4>1, RecordingSaid
    <3>4. QED BY <1>12, <3>2, <3>3 DEF HandleFinal
  <2>3. InHand'
    <3>1. UNCHANGED <<recall, return, said>> BY <1>12 DEF HandleFinal
    <3>2. \A k \in Hooks : hook'[k].at = "publishing" =>
            \/ k = h /\ hook'[k].payment = p /\ hook'[k].status = s
            \/ hook'[k] = hook[k]
      BY <1>12 DEF HandleFinal, TypeOK
    <3>3. QED BY <2>1, <3>1, <3>2 DEF RecordInv, InHand
  <2>4. QED BY <1>3, <1>12, <2>2, <2>3 DEF HandleFinal, RecordInv
<1>13. ASSUME NEW h \in Hooks, PublishSettlement(h) PROVE RecordInv'
  <2>1. HeardFromBank' /\ RecordedFirst'
    BY <1>13, SameRecords DEF PublishSettlement
  <2>2. InHand' BY <1>13 DEF PublishSettlement, TypeOK, RecordInv, InHand
  <2>3. QED BY <1>3, <1>13, <2>1, <2>2 DEF PublishSettlement, RecordInv
<1>14. ASSUME NEW c \in Recalls, CheckRecall(c) PROVE RecordInv'
  <2>1. PICK p \in Payments :
          /\ Recallable(p)
          /\ recall' = [recall EXCEPT ![c] = [at |-> "asking", payment |-> p]]
    BY <1>14 DEF CheckRecall
  <2>2. UNCHANGED <<row, submit, hook, return, bank, said, asked>>
    BY <1>14 DEF CheckRecall, bankVars, outVars
  <2>3. "SETTLED" \in said[p] BY <2>1 DEF Recallable, RecordInv, HeardFromBank
  <2>4. InHand' BY <2>1, <2>2, <2>3 DEF TypeOK, RecordInv, InHand
  <2>5. QED BY <1>3, <2>2, <2>4, SameRecords DEF RecordInv
<1>15. ASSUME NEW c \in Recalls, AskRecall(c) PROVE RecordInv'
  <2> DEFINE p == recall[c].payment
  <2>1. p \in Payments /\ "SETTLED" \in said[p]
    BY <1>15 DEF AskRecall, TypeOK, RecordInv, InHand
  <2>2. /\ UNCHANGED <<row, submit, hook, return>>
        /\ asked' = asked \cup {<<p, clock>>}
        /\ \/ /\ bank[p] = "SETTLED"
              /\ bank' = [bank EXCEPT ![p] = "RECALLED"]
              /\ said' = [said EXCEPT ![p] = @ \cup {"RECALLED"}]
              /\ recall' \in {[recall EXCEPT ![c].at = "marking"],
                              [recall EXCEPT ![c] = [at |-> "done"]]}
           \/ /\ recall' = [recall EXCEPT ![c] = [at |-> "done"]]
              /\ UNCHANGED <<bank, said>>
    BY <1>15 DEF AskRecall
  <2>3. \A q \in Payments : said[q] \subseteq said'[q] BY <2>1, <2>2 DEF TypeOK
  <2>4. /\ recall'[c].at = "marking" =>
             recall'[c].payment = p /\ "RECALLED" \in said'[p]
        /\ recall'[c].at # "asking"
        /\ \A d \in Recalls : d # c => recall'[d] = recall[d]
    BY <1>15, <2>1, <2>2 DEF AskRecall, TypeOK
  <2> HIDE DEF p
  <2>5. HeardFromBank' BY <2>2, <2>3 DEF RecordInv, HeardFromBank, Known
  <2>6. RecordedFirst' BY <2>1, <2>2 DEF TypeOK, RecordInv, RecordedFirst, Known
  <2>7. InHand'
    <3>1. /\ \A h \in Hooks : hook[h].at = "publishing" => hook[h].payment \in Payments
          /\ \A d \in Recalls :
               recall[d].at \in {"asking", "marking"} => recall[d].payment \in Payments
          /\ \A n \in Returns : return[n].at = "reversing" => return[n].payment \in Payments
      BY DEF TypeOK
    <3>2. \A d \in Recalls :
            /\ recall'[d].at \in {"asking", "marking"} => "SETTLED" \in said'[recall'[d].payment]
            /\ recall'[d].at = "marking" => "RECALLED" \in said'[recall'[d].payment]
      BY <2>1, <2>3, <2>4, <3>1 DEF RecordInv, InHand
    <3>3. QED BY <2>2, <2>3, <3>1, <3>2 DEF RecordInv, InHand
  <2>8. RecallsAreOfSettled'
    <3>1. \A a \in asked : a[1] \in Payments BY DEF TypeOK
    <3>2. QED BY <2>1, <2>2, <2>3, <3>1 DEF RecordInv, RecallsAreOfSettled
  <2>9. QED BY <2>5, <2>6, <2>7, <2>8 DEF RecordInv
<1>16. ASSUME NEW c \in Recalls, RecordRecall(c) PROVE RecordInv'
  <2>1. /\ recall[c].payment \in Payments
        /\ "RECALLED" \in said[recall[c].payment]
        /\ "RECALLED" \in FPSStatus
    BY <1>16 DEF RecordRecall, TypeOK, RecordInv, InHand, FPSStatus
  <2>2. Known(recall[c].payment) BY <2>1, SaidIsKnown
  <2>3. UNCHANGED <<submit, hook, return, bank, said, asked>>
    BY <1>16 DEF RecordRecall, bankVars, outVars
  <2>4. HeardFromBank' /\ RecordedFirst'
    <3>1. CASE row' = row BY <2>3, <3>1, SameRecords
    <3>2. CASE row' = UpdateStatus(recall[c].payment, "RECALLED")
      BY <1>1, <2>1, <2>2, <2>3, <3>2, UpdateRow, RecordingSaid
    <3>3. QED BY <1>16, <3>1, <3>2 DEF RecordRecall, MarkRecalled
  <2>5. InHand' BY <1>16, <2>3 DEF RecordRecall, TypeOK, RecordInv, InHand
  <2>6. QED BY <1>3, <2>3, <2>4, <2>5 DEF RecordInv
<1>17. ASSUME NEW n \in Returns, HandleReturn(n) PROVE RecordInv'
  <2>1. UNCHANGED <<submit, hook, recall, bank, said, asked>>
    BY <1>17 DEF HandleReturn, bankVars, outVars
  <2>2. PICK p \in Payments :
          /\ "RETURNED" \in said[p]
          /\ row' \in {row, MarkReturned(p)}
          /\ return' \in {[return EXCEPT ![n] = [at |-> "reversing", payment |-> p]],
                          [return EXCEPT ![n] = [at |-> "done"]]}
    BY <1>17 DEF HandleReturn
  <2>3. "RETURNED" \in FPSStatus /\ Known(p) BY <2>2, SaidIsKnown DEF FPSStatus
  <2>4. HeardFromBank' /\ RecordedFirst'
    <3>1. CASE row' = row BY <2>1, <3>1, SameRecords
    <3>2. CASE row' = UpdateStatus(p, "RETURNED")
      BY <1>1, <2>1, <2>2, <2>3, <3>2, UpdateRow, RecordingSaid
    <3>3. QED BY <2>2, <3>1, <3>2 DEF MarkReturned
  <2>5. InHand' BY <2>1, <2>2 DEF TypeOK, RecordInv, InHand
  <2>6. QED BY <1>3, <2>1, <2>4, <2>5 DEF RecordInv
<1>18. ASSUME NEW n \in Returns, NotifyFunding(n) PROVE RecordInv'
  <2>1. UNCHANGED <<row, submit, hook, recall, bank, said, asked>>
    BY <1>18 DEF NotifyFunding, bankVars
  <2>2. InHand' BY <1>18, <2>1 DEF NotifyFunding, TypeOK, RecordInv, InHand
  <2>3. QED BY <1>3, <2>1, <2>2, SameRecords DEF RecordInv
<1>19. CASE Tick \/ UNCHANGED vars
  <2>1. UNCHANGED <<row, submit, hook, recall, return, bank, said, asked>>
    BY <1>19 DEF Tick, vars, procVars, bankVars, outVars
  <2>2. QED BY <1>2, <1>3, <2>1, SameRecords DEF RecordInv
<1>20. CASE Crash
  <2>1. UNCHANGED <<row, bank, said, asked>> BY <1>20 DEF Crash, bankVars, outVars
  <2>2. \A p \in Payments :
          \/ submit'[p] = submit[p]
          \/ submit'[p].at = "done" /\ submit[p].at \notin {"idle", "gaveUp"}
    BY <1>20 DEF Crash
  <2>3. HeardFromBank' BY <2>1, <2>2 DEF RecordInv, HeardFromBank, Known
  <2>4. RecordedFirst' BY <2>1, <2>2 DEF RecordInv, RecordedFirst, Known
  <2>5. InHand' BY <1>20, <2>1 DEF Crash, RecordInv, InHand
  <2>6. QED BY <1>3, <2>1, <2>3, <2>4, <2>5 DEF RecordInv
<1>21. QED
  BY <1>4, <1>5, <1>6, <1>7, <1>8, <1>9, <1>10, <1>11, <1>12, <1>13, <1>14, <1>15,
     <1>16, <1>17, <1>18, <1>19, <1>20 DEF Next, Submit

\* The two are invariant together; the theorems below take them apart.
LEMMA Invariant == Spec => [](TypeOK /\ RecordInv)
<1>1. Init => TypeOK /\ RecordInv BY InitType, InitInv
<1>2. (TypeOK /\ RecordInv) /\ [Next]_vars => (TypeOK /\ RecordInv)' BY NextType, NextInv
<1>3. QED BY <1>1, <1>2, PTL DEF Spec

\* Rows, goroutines, webhooks and the bank have their types in every reachable
\* state, so that no update of a row comes before the row was created.
THEOREM TypeCorrect == Spec => []TypeOK
BY Invariant, PTL

\* A row shows what the bank has said of the payment (or that its submission was
\* given up), a goroutine holds only such statuses in its hands, the bank hears
\* of a payment after its record exists, and is asked to recall only what it has
\* settled: whatever is reordered, repeated, lost, or interrupted by a crash.
THEOREM RecordsAreTrue == Spec => []RecordInv
BY Invariant, PTL

-----------------------------------------------------------------------------
(***************************************************************************)
(* The refinement of BankTransfers.                                        *)
(***************************************************************************)
\* The payments that are given up, as the refinement maps them.
GivenUp == {p \in Payments : submit[p].at = "gaveUp"}
Statuses == [p \in Payments |-> Status(p)]

\* An action that leaves these alone stutters.
LEMMA Stutter ==
  ASSUME UNCHANGED <<row, said, announced, reversed>>, GivenUp' = GivenUp
  PROVE  UNCHANGED Transfers!vars
BY DEF Transfers!vars, GivenUp, Status, Known

\* A status that the bank has said is recorded.
LEMMA RecordStep ==
  ASSUME NEW p \in Payments, NEW s \in said[p], s \in FPSStatus, Known(p),
         row'[p].status = s,
         \A q \in Payments : (row'[q] # Null) <=> Known(q),
         \A q \in Payments : q # p => row'[q] = row[q],
         UNCHANGED <<said, announced, reversed>>, GivenUp' = GivenUp,
         \A q \in Payments : Known(q) => row[q].status # "absent"
  PROVE  Transfers!Record(p, s)
<1>1. Statuses' = [Statuses EXCEPT ![p] = s] BY DEF Statuses, Status, Known
<1>2. Statuses[p] # "absent" BY DEF Statuses, Status
<1>3. QED BY <1>1, <1>2 DEF Transfers!Record, Statuses, GivenUp

LEMMA NextRefines ==
  TypeOK /\ RecordInv /\ [Next]_vars => [Transfers!Next]_Transfers!vars
<1> SUFFICES ASSUME TypeOK, RecordInv, [Next]_vars
             PROVE  [Transfers!Next]_Transfers!vars
  OBVIOUS
<1> USE ClockAssumption
<1>1. row \in Rows BY DEF TypeOK, Rows, Row, Times
<1>2. \A q \in Payments : Known(q) => row[q].status # "absent"
  BY <1>1 DEF Rows, Row, Known, FPSStatus
<1>3. ASSUME UNCHANGED submit PROVE GivenUp' = GivenUp BY <1>3 DEF GivenUp
<1>4. ASSUME NEW p \in Payments, Create(p) PROVE [Transfers!Next]_Transfers!vars
  <2>1. /\ submit[p].at = "idle" /\ ~Known(p)
        /\ UNCHANGED <<said, announced, reversed>>
        /\ row' \in {row, [row EXCEPT ![p] = NewPayment]}
        /\ submit' \in {[submit EXCEPT ![p] = [at |-> "sending"]],
                        [submit EXCEPT ![p] = [at |-> "refused"]]}
    BY <1>4 DEF Create, To, RecordInv, RecordedFirst, bankVars, outVars
  <2>2. GivenUp' = GivenUp BY <2>1 DEF GivenUp, TypeOK
  <2>3. CASE row' = row BY <2>1, <2>2, <2>3, Stutter
  <2>4. CASE row' = [row EXCEPT ![p] = NewPayment]
    <3>1. row'[p].status = "SUBMITTED" /\ row'[p] # Null BY <1>1, <2>4, NewRow
    <3>2. \A q \in Payments : q # p => row'[q] = row[q] BY <2>4, <1>1 DEF Rows
    <3>3. Statuses' = [Statuses EXCEPT ![p] = "SUBMITTED"]
      BY <3>1, <3>2 DEF Statuses, Status, Known
    <3>4. Statuses[p] = "absent" BY <2>1 DEF Statuses, Status
    <3>5. Transfers!Open(p) BY <2>1, <2>2, <3>3, <3>4 DEF Transfers!Open, Statuses, GivenUp
    <3>6. QED BY <3>5 DEF Transfers!Next
  <2>5. QED BY <2>1, <2>3, <2>4
<1>5. ASSUME NEW p \in Payments, Send(p) \/ Answered(p) \/ SubmitFails(p)
      PROVE  UNCHANGED Transfers!vars
  <2>1. UNCHANGED <<row, said, announced, reversed>>
    BY <1>5 DEF Send, Answered, SubmitFails, bankVars, outVars
  <2>2. GivenUp' = GivenUp BY <1>5 DEF Send, Answered, SubmitFails, To, GivenUp, TypeOK
  <2>3. QED BY <2>1, <2>2, Stutter
<1>6. ASSUME NEW p \in Payments, RecordAnswer(p) PROVE [Transfers!Next]_Transfers!vars
  <2> DEFINE s == submit[p].status
  <2>1. s \in said[p] /\ s \in FPSStatus /\ Known(p)
    BY <1>6 DEF RecordAnswer, TypeOK, RecordInv, RecordedFirst, HeardFromBank
  <2>2. UNCHANGED <<said, announced, reversed>> BY <1>6 DEF RecordAnswer, bankVars, outVars
  <2>3. GivenUp' = GivenUp BY <1>6 DEF RecordAnswer, To, GivenUp, TypeOK
  <2>4. row' \in {row, UpdateStatus(p, s)} BY <1>6 DEF RecordAnswer
  <2> HIDE DEF s
  <2>5. CASE row' = row BY <2>2, <2>3, <2>5, Stutter
  <2>6. CASE row' = UpdateStatus(p, s)
    <3>1. Transfers!Record(p, s)
      BY <1>1, <1>2, <2>1, <2>2, <2>3, <2>6, UpdateRow, RecordStep
    <3>2. QED BY <2>1, <3>1 DEF Transfers!Next
  <2>7. QED BY <2>4, <2>5, <2>6
<1>7. ASSUME NEW p \in Payments, RecordFailure(p) PROVE [Transfers!Next]_Transfers!vars
  <2>1. Known(p) /\ "FAILED" \in FPSStatus
    BY <1>7 DEF RecordFailure, RecordInv, RecordedFirst, FPSStatus
  <2>2. UNCHANGED <<said, announced, reversed>> BY <1>7 DEF RecordFailure, bankVars, outVars
  <2>3. CASE row' = row /\ submit' = [submit EXCEPT ![p] = [at |-> "done"]]
    <3>1. GivenUp' = GivenUp BY <1>7, <2>3 DEF RecordFailure, GivenUp, TypeOK
    <3>2. QED BY <2>2, <2>3, <3>1, Stutter
  <2>4. CASE row' = UpdateStatus(p, "FAILED") /\ submit' = [submit EXCEPT ![p] = [at |-> "gaveUp"]]
    <3>1. GivenUp' = GivenUp \cup {p} /\ p \notin GivenUp
      BY <1>7, <2>4 DEF RecordFailure, GivenUp, TypeOK
    <3>2. /\ row'[p].status = "FAILED"
          /\ \A q \in Payments : (row'[q] # Null) <=> Known(q)
          /\ \A q \in Payments : q # p => row'[q] = row[q]
      BY <1>1, <2>1, <2>4, UpdateRow
    <3>3. Statuses' = [Statuses EXCEPT ![p] = "FAILED"]
      BY <2>1, <3>2 DEF Statuses, Status, Known
    <3>4. Statuses[p] # "absent" BY <1>2, <2>1 DEF Statuses, Status
    <3>5. Transfers!GiveUp(p)
      BY <2>2, <3>1, <3>3, <3>4 DEF Transfers!GiveUp, Statuses, GivenUp
    <3>6. QED BY <3>5 DEF Transfers!Next
  <2>5. QED BY <1>7, <2>3, <2>4 DEF RecordFailure, MarkFailed, To
<1>8. ASSUME NEW p \in Payments, BankMoves(p) PROVE [Transfers!Next]_Transfers!vars
  <2>1. PICK s \in Moves(bank[p]) : said' = [said EXCEPT ![p] = @ \cup {s}]
    BY <1>8 DEF BankMoves
  <2>2. bank[p] # "none" /\ s \in FPSStatus BY DEF Moves, FPSStatus
  <2>3. Statuses[p] # "absent"
    BY <1>2, <2>2 DEF RecordInv, RecordedFirst, Statuses, Status
  <2>4. UNCHANGED <<row, submit, announced, reversed>>
    BY <1>8 DEF BankMoves, procVars, outVars
  <2>5. Statuses' = Statuses BY <2>4 DEF Statuses, Status, Known
  <2>6. Transfers!Say(p, s)
    BY <1>3, <2>1, <2>3, <2>4, <2>5 DEF Transfers!Say, Statuses, GivenUp
  <2>7. QED BY <2>2, <2>6 DEF Transfers!Next
<1>9. ASSUME NEW h \in Hooks, NEW p \in Payments, HandleAccepted(h, p)
      PROVE  [Transfers!Next]_Transfers!vars
  <2>1. "ACCEPTED" \in said[p] /\ Known(p) /\ "ACCEPTED" \in FPSStatus
    BY <1>9 DEF HandleAccepted, HookOnTime, FPSStatus
  <2>2. UNCHANGED <<submit, said, announced, reversed>>
    BY <1>9 DEF HandleAccepted, procVars, outVars
  <2>3. row' \in {row, UpdateStatus(p, "ACCEPTED")} BY <1>9 DEF HandleAccepted, MarkAccepted
  <2>4. CASE row' = row BY <1>3, <2>2, <2>4, Stutter
  <2>5. CASE row' = UpdateStatus(p, "ACCEPTED")
    <3>1. Transfers!Record(p, "ACCEPTED")
      BY <1>1, <1>2, <1>3, <2>1, <2>2, <2>5, UpdateRow, RecordStep
    <3>2. QED BY <2>1, <3>1 DEF Transfers!Next
  <2>6. QED BY <2>3, <2>4, <2>5
<1>10. ASSUME NEW h \in Hooks, NEW p \in Payments, NEW s \in {"SETTLED", "FAILED"},
              HandleFinal(h, p, s)
       PROVE  [Transfers!Next]_Transfers!vars
  <2>1. s \in said[p] /\ Known(p) /\ s \in FPSStatus
    BY <1>10 DEF HandleFinal, HookOnTime, FPSStatus
  <2>2. UNCHANGED <<submit, said, announced, reversed>> BY <1>10 DEF HandleFinal
  <2>3. row' \in Marked(p, s) \cup {row} BY <1>10 DEF HandleFinal
  <2>4. CASE row' = row BY <1>3, <2>2, <2>4, Stutter
  <2>5. CASE row' \in Marked(p, s)
    <3>1. /\ row'[p].status = s
          /\ \A q \in Payments : (row'[q] # Null) <=> Known(q)
          /\ \A q \in Payments : q # p => row'[q] = row[q]
      <4>1. "FAILED" \in FPSStatus BY DEF FPSStatus
      <4>2. settled[p] \in Times /\ clock \in Times BY DEF TypeOK, Times
      <4>3. QED BY <1>1, <2>1, <2>5, <4>1, <4>2, UpdateRow, SettleRow DEF Marked, MarkFailed
    <3>2. Transfers!Record(p, s)
      BY <1>2, <1>3, <2>1, <2>2, <3>1, RecordStep
    <3>3. QED BY <2>1, <3>2 DEF Transfers!Next
  <2>6. QED BY <2>3, <2>4, <2>5
<1>11. ASSUME NEW h \in Hooks, PublishSettlement(h) PROVE [Transfers!Next]_Transfers!vars
  <2> DEFINE p == hook[h].payment
             s == hook[h].status
  <2>1. p \in Payments /\ s \in {"SETTLED", "FAILED"} /\ s \in said[p]
    BY <1>11 DEF PublishSettlement, TypeOK, RecordInv, InHand
  <2>2. UNCHANGED <<row, submit, said, reversed>> BY <1>11 DEF PublishSettlement
  <2>3. announced' \in {announced, announced \cup {<<p, s>>}} BY <1>11 DEF PublishSettlement
  <2> HIDE DEF p, s
  <2>4. CASE announced' = announced BY <1>3, <2>2, <2>4, Stutter
  <2>5. CASE announced' = announced \cup {<<p, s>>}
    <3>1. Statuses' = Statuses BY <2>2 DEF Statuses, Status, Known
    <3>2. Transfers!Announce(p, s)
      BY <1>3, <2>1, <2>2, <2>5, <3>1 DEF Transfers!Announce, Statuses, GivenUp
    <3>3. QED BY <2>1, <3>2 DEF Transfers!Next, FPSStatus
  <2>6. QED BY <2>3, <2>4, <2>5
<1>12. ASSUME NEW c \in Recalls, CheckRecall(c) PROVE UNCHANGED Transfers!vars
  <2>1. UNCHANGED <<row, submit, said, announced, reversed>>
    BY <1>12 DEF CheckRecall, bankVars, outVars
  <2>2. QED BY <1>3, <2>1, Stutter
<1>13. ASSUME NEW c \in Recalls, AskRecall(c) PROVE [Transfers!Next]_Transfers!vars
  <2> DEFINE p == recall[c].payment
  <2>1. p \in Payments /\ "SETTLED" \in said[p]
    BY <1>13 DEF AskRecall, TypeOK, RecordInv, InHand
  <2>2. UNCHANGED <<row, submit, announced, reversed>> BY <1>13 DEF AskRecall
  <2>3. said' \in {said, [said EXCEPT ![p] = @ \cup {"RECALLED"}]} BY <1>13 DEF AskRecall
  <2> HIDE DEF p
  <2>4. CASE said' = said BY <1>3, <2>2, <2>4, Stutter
  <2>5. CASE said' = [said EXCEPT ![p] = @ \cup {"RECALLED"}]
    <3>1. Statuses' = Statuses BY <2>2 DEF Statuses, Status, Known
    <3>2. Statuses[p] # "absent" BY <1>2, <2>1, SaidIsKnown DEF Statuses, Status
    <3>3. Transfers!Say(p, "RECALLED")
      BY <1>3, <2>2, <2>5, <3>1, <3>2 DEF Transfers!Say, Statuses, GivenUp
    <3>4. QED BY <2>1, <3>3 DEF Transfers!Next, FPSStatus
  <2>6. QED BY <2>3, <2>4, <2>5
<1>14. ASSUME NEW c \in Recalls, RecordRecall(c) PROVE [Transfers!Next]_Transfers!vars
  <2> DEFINE p == recall[c].payment
  <2>1. p \in Payments /\ "RECALLED" \in said[p] /\ "RECALLED" \in FPSStatus
    BY <1>14 DEF RecordRecall, TypeOK, RecordInv, InHand, FPSStatus
  <2>2. UNCHANGED <<submit, said, announced, reversed>>
    BY <1>14 DEF RecordRecall, bankVars, outVars
  <2>3. row' \in {row, UpdateStatus(p, "RECALLED")} BY <1>14 DEF RecordRecall, MarkRecalled
  <2> HIDE DEF p
  <2>4. CASE row' = row BY <1>3, <2>2, <2>4, Stutter
  <2>5. CASE row' = UpdateStatus(p, "RECALLED")
    <3>1. Known(p) BY <2>1, SaidIsKnown
    <3>2. Transfers!Record(p, "RECALLED")
      BY <1>1, <1>2, <1>3, <2>1, <2>2, <2>5, <3>1, UpdateRow, RecordStep
    <3>3. QED BY <2>1, <3>2 DEF Transfers!Next
  <2>6. QED BY <2>3, <2>4, <2>5
<1>15. ASSUME NEW n \in Returns, HandleReturn(n) PROVE [Transfers!Next]_Transfers!vars
  <2>1. PICK p \in Payments : "RETURNED" \in said[p] /\ row' \in {row, MarkReturned(p)}
    BY <1>15 DEF HandleReturn
  <2>2. "RETURNED" \in FPSStatus /\ Known(p) BY <2>1, SaidIsKnown DEF FPSStatus
  <2>3. UNCHANGED <<submit, said, announced, reversed>>
    BY <1>15 DEF HandleReturn, bankVars, outVars
  <2>4. CASE row' = row BY <1>3, <2>3, <2>4, Stutter
  <2>5. CASE row' = UpdateStatus(p, "RETURNED")
    <3>1. Transfers!Record(p, "RETURNED")
      BY <1>1, <1>2, <1>3, <2>1, <2>2, <2>3, <2>5, UpdateRow, RecordStep
    <3>2. QED BY <2>2, <3>1 DEF Transfers!Next
  <2>6. QED BY <2>1, <2>4, <2>5 DEF MarkReturned
<1>16. ASSUME NEW n \in Returns, NotifyFunding(n) PROVE [Transfers!Next]_Transfers!vars
  <2> DEFINE p == return[n].payment
  <2>1. p \in Payments /\ "RETURNED" \in said[p]
    BY <1>16 DEF NotifyFunding, TypeOK, RecordInv, InHand
  <2>2. UNCHANGED <<row, submit, said, announced>>
    BY <1>16 DEF NotifyFunding, bankVars
  <2>3. reversed' \in {reversed, reversed \cup {p}} BY <1>16 DEF NotifyFunding
  <2> HIDE DEF p
  <2>4. CASE reversed' = reversed BY <1>3, <2>2, <2>4, Stutter
  <2>5. CASE reversed' = reversed \cup {p}
    <3>1. Statuses' = Statuses BY <2>2 DEF Statuses, Status, Known
    <3>2. Transfers!Reverse(p)
      BY <1>3, <2>1, <2>2, <2>5, <3>1 DEF Transfers!Reverse, Statuses, GivenUp
    <3>3. QED BY <2>1, <3>2 DEF Transfers!Next
  <2>6. QED BY <2>3, <2>4, <2>5
<1>17. CASE Tick \/ UNCHANGED vars
  <2>1. UNCHANGED <<row, submit, said, announced, reversed>>
    BY <1>17 DEF Tick, vars, procVars, bankVars, outVars
  <2>2. QED BY <1>3, <2>1, Stutter
<1>18. CASE Crash
  <2>1. UNCHANGED <<row, said, announced, reversed>> BY <1>18 DEF Crash, bankVars, outVars
  <2>2. GivenUp' = GivenUp BY <1>18 DEF Crash, GivenUp
  <2>3. QED BY <2>1, <2>2, Stutter
<1>19. QED
  BY <1>4, <1>5, <1>6, <1>7, <1>8, <1>9, <1>10, <1>11, <1>12, <1>13, <1>14, <1>15,
     <1>16, <1>17, <1>18 DEF Next, Submit

\* Every behaviour of the provider, with its faults and crashes, is one of the
\* abstract transfers: recorded before sent, shown and announced as the bank has
\* said, and reversed only when returned.
THEOREM FPSKeepsPromise == Spec => ImplementsBankTransfers
<1>1. Init => Transfers!Init BY DEF Init, Transfers!Init, Status, Known
<1>2. QED BY <1>1, NextRefines, Invariant, PTL DEF Spec, ImplementsBankTransfers, Transfers!Spec
-----------------------------------------------------------------------------
(***************************************************************************)
(* The safety half of SettledIsAnnounced.                                  *)
(***************************************************************************)
Owed(p, s) == <<p, s>> \in unacked /\ Known(p)
OwedInv ==
  \A p \in Payments, s \in {"SETTLED", "FAILED"} :
    s \in said[p] => <<p, s>> \in announced \cup dropped \/ <<p, s>> \in unacked

\* What does not touch the webhooks' books, or only adds to them, keeps it.
LEMMA BooksKept ==
  ASSUME OwedInv, said' = said, unacked \subseteq unacked',
         announced \subseteq announced', dropped \subseteq dropped'
  PROVE  OwedInv'
BY DEF OwedInv

LEMMA OwedStep == ASSUME TypeOK, OwedInv, [Next]_vars PROVE OwedInv'
<1>1. ASSUME NEW p \in Payments, Submit(p) PROVE OwedInv'
  <2>1. UNCHANGED <<said, unacked, announced, dropped>>
    BY <1>1 DEF Submit, Create, Send, Answered, SubmitFails, RecordAnswer, RecordFailure,
                bankVars, outVars
  <2>2. QED BY <2>1, BooksKept
<1>2. ASSUME NEW p \in Payments, BankMoves(p) PROVE OwedInv'
  <2>1. PICK s \in Moves(bank[p]) :
          /\ said' = [said EXCEPT ![p] = @ \cup {s}]
          /\ unacked' = unacked \cup ({<<p, s>>} \cap (Payments \X Hooked))
    BY <1>2 DEF BankMoves
  <2>2. announced' = announced /\ dropped' = dropped BY <1>2 DEF BankMoves, outVars
  <2>3. s \in {"SETTLED", "FAILED"} => <<p, s>> \in unacked' BY <2>1 DEF Hooked
  <2>4. said'[p] = said[p] \cup {s} /\ \A q \in Payments : q # p => said'[q] = said[q]
    BY <2>1 DEF TypeOK
  <2>5. unacked \subseteq unacked' BY <2>1
  <2>6. QED BY <2>2, <2>3, <2>4, <2>5 DEF OwedInv
<1>3. ASSUME NEW h \in Hooks, NEW p \in Payments, HandleAccepted(h, p) PROVE OwedInv'
  <2>1. /\ unacked' = unacked \ {<<p, "ACCEPTED">>}
        /\ UNCHANGED <<said, announced, dropped>>
    BY <1>3 DEF HandleAccepted, Acknowledge, outVars
  <2>2. QED BY <2>1 DEF OwedInv
<1>4. ASSUME NEW h \in Hooks, NEW p \in Payments, NEW s \in {"SETTLED", "FAILED"},
             HandleFinal(h, p, s)
      PROVE  OwedInv'
  <2>1. UNCHANGED <<said, announced>> BY <1>4 DEF HandleFinal
  <2>2. CASE UNCHANGED <<unacked, dropped>> BY <2>1, <2>2, BooksKept
  <2>3. CASE unacked' = unacked \ {<<p, s>>} /\ dropped' = dropped \cup {<<p, s>>}
    BY <2>1, <2>3 DEF OwedInv
  <2>4. QED BY <1>4, <2>2, <2>3 DEF HandleFinal, Drop, Acknowledge
<1>5. ASSUME NEW h \in Hooks, PublishSettlement(h) PROVE OwedInv'
  <2>1. PICK pair :
          /\ unacked' = unacked \ {pair}
          /\ \/ announced' = announced \cup {pair} /\ dropped' = dropped
             \/ dropped' = dropped \cup {pair} /\ announced' = announced
    BY <1>5 DEF PublishSettlement, Drop, Acknowledge
  <2>2. said' = said BY <1>5 DEF PublishSettlement
  <2>3. QED BY <2>1, <2>2 DEF OwedInv
<1>6. ASSUME NEW c \in Recalls, CheckRecall(c) \/ RecordRecall(c) PROVE OwedInv'
  <2>1. UNCHANGED <<said, unacked, announced, dropped>>
    BY <1>6 DEF CheckRecall, RecordRecall, bankVars, outVars
  <2>2. QED BY <2>1, BooksKept
<1>7. ASSUME NEW c \in Recalls, AskRecall(c) PROVE OwedInv'
  <2>1. UNCHANGED <<unacked, announced, dropped>> BY <1>7 DEF AskRecall
  <2>2. \A q \in Payments, s \in {"SETTLED", "FAILED"} : s \in said'[q] => s \in said[q]
    BY <1>7 DEF AskRecall, TypeOK
  <2>3. QED BY <2>1, <2>2 DEF OwedInv
<1>8. ASSUME NEW n \in Returns, HandleReturn(n) \/ NotifyFunding(n) PROVE OwedInv'
  <2>1. UNCHANGED <<said, unacked, announced, dropped>>
    BY <1>8 DEF HandleReturn, NotifyFunding, bankVars, outVars
  <2>2. QED BY <2>1, BooksKept
<1>9. CASE Tick \/ Crash \/ UNCHANGED vars
  <2>1. UNCHANGED <<said, unacked, announced, dropped>>
    BY <1>9 DEF Tick, Crash, vars, bankVars, outVars
  <2>2. QED BY <2>1, BooksKept
<1>10. QED BY <1>1, <1>2, <1>3, <1>4, <1>5, <1>6, <1>7, <1>8, <1>9 DEF Next

\* No settlement or failure is forgotten, whatever crashes in the middle of handling
\* it: until it is announced, or a statement or a publication has failed for it, the
\* bank has no answer to its webhook and will repeat it, and the payment it is about
\* is on record, so that a handler will take it.
THEOREM NothingIsForgotten ==
  Spec => [](\A p \in Payments, s \in {"SETTLED", "FAILED"} :
               s \in said[p] => <<p, s>> \in announced \cup dropped \/ Owed(p, s))
<1>1. Init => OwedInv BY DEF Init, OwedInv
<1>2. TypeOK /\ OwedInv /\ [Next]_vars => OwedInv' BY OwedStep
<1>3. RecordInv /\ OwedInv => \A p \in Payments, s \in {"SETTLED", "FAILED"} :
        s \in said[p] => <<p, s>> \in announced \cup dropped \/ Owed(p, s)
  BY SaidIsKnown DEF OwedInv, Owed
<1>4. QED BY <1>1, <1>2, <1>3, Invariant, PTL DEF Spec
=============================================================================
