-------------------------- MODULE SEPAReports_proofs --------------------------
(***************************************************************************)
(* Proofs about SEPAReports, for any number of payments, recalls, returns, *)
(* files, lines and ingestions, with and without faults and crashes.       *)
(***************************************************************************)
EXTENDS SEPAReports, WellFoundedInduction, FiniteSetTheorems, TLAPS

Known(p) == row[p] # NotFound
GivenUp == {p \in Payments : submit[p].at = "gaveUp"}

(***************************************************************************)
(* The invariant of the payments.                                          *)
(***************************************************************************)
\* A row shows what the bank has said, or that the submission was given up.
HeardFromBank ==
  \A p \in Payments :
    /\ Known(p) => row[p] \in said[p] \cup {"SUBMITTED"}
                     \cup (IF p \in GivenUp THEN {"REJECTED"} ELSE {})
    /\ submit[p].at = "updating" => submit[p].status \in said[p]
\* So does what recalls and returns hold in their hands.
InHand ==
  /\ \A c \in Recalls : recall[c].at = "marking" => "RECALLED" \in said[recall[c].payment]
  /\ \A n \in Returns : return[n].at = "reversing" => "RETURNED" \in said[return[n].payment]
\* The bank hears of a payment after its record exists.
RecordedFirst ==
  \A p \in Payments :
    /\ submit[p].at = "idle" => ~Known(p)
    /\ submit[p].at \in {"sending", "waiting", "updating", "failing", "gaveUp"} => Known(p)
    /\ bank[p] # "none" => Known(p) /\ submit[p].at \notin {"idle", "sending"}
    /\ bank[p] = "none" => said[p] = {}
PayInv == HeardFromBank /\ InHand /\ RecordedFirst

-----------------------------------------------------------------------------
LEMMA SaidIsKnown ==
  ASSUME PayInv, NEW p \in Payments, said[p] # {}
  PROVE  Known(p)
BY DEF PayInv, RecordedFirst

\* What was said stays said, so more of it disturbs nothing that is held.
LEMMA MoreSaid ==
  ASSUME PayTypeOK, InHand, UNCHANGED <<recall, return>>,
         \A p \in Payments : said[p] \subseteq said'[p]
  PROVE  InHand'
<1>1. /\ \A c \in Recalls : recall[c].at = "marking" => recall[c].payment \in Payments
      /\ \A n \in Returns : return[n].at = "reversing" => return[n].payment \in Payments
  BY DEF PayTypeOK
<1>2. QED BY <1>1 DEF InHand

LEMMA SameRecords ==
  ASSUME PayInv, UNCHANGED <<row, submit, bank, said>>
  PROVE  HeardFromBank' /\ RecordedFirst'
BY DEF PayInv, HeardFromBank, RecordedFirst, Known, GivenUp

\* Recording what the bank has said of a payment on record.
LEMMA RecordingSaid ==
  ASSUME PayTypeOK, PayInv, NEW p \in Payments, NEW s \in said[p], Known(p),
         row' = UpdateStatus(p, s), UNCHANGED <<submit, bank, said>>
  PROVE  /\ row' \in [Payments -> SEPAStatus \cup {NotFound}]
         /\ HeardFromBank' /\ RecordedFirst'
<1>1. s \in SEPAStatus /\ s # NotFound BY DEF PayTypeOK, SEPAStatus, NotFound
<1>2. /\ row'[p] = s
      /\ \A q \in Payments : q # p => row'[q] = row[q]
      /\ row' \in [Payments -> SEPAStatus \cup {NotFound}]
  BY <1>1 DEF UpdateStatus, PayTypeOK
<1>3. HeardFromBank' BY <1>2 DEF PayInv, HeardFromBank, Known, GivenUp
<1>4. RecordedFirst' BY <1>1, <1>2 DEF PayInv, RecordedFirst, Known
<1>5. QED BY <1>2, <1>3, <1>4

-----------------------------------------------------------------------------
(***************************************************************************)
(* The payments' steps keep types and invariant.                           *)
(***************************************************************************)
PayKept == PayTypeOK' /\ PayInv' /\ \A p \in Payments : said[p] \subseteq said'[p]

LEMMA SubmitKeeps ==
  ASSUME PayTypeOK, PayInv, NEW p \in Payments, Submit(p)
  PROVE  PayKept
<1>1. UNCHANGED <<recall, return, said, reversed>>
  BY DEF Submit, Create, Send, Answered, SubmitFails, RecordAnswer, RecordFailure
<1>2. InHand' BY <1>1 DEF PayInv, InHand
<1>3. ASSUME row' \in [Payments -> SEPAStatus \cup {NotFound}],
             bank' \in [Payments -> SEPAStatus \cup {"none", "sent"}],
             submit' \in [Payments ->
               [at : {"idle", "sending", "waiting", "failing", "done", "gaveUp"}]
               \cup [at : {"updating"}, status : SEPAStatus]],
             HeardFromBank', RecordedFirst'
      PROVE  PayKept
  BY <1>1, <1>2, <1>3 DEF PayKept, PayTypeOK, PayInv
<1>4. CASE Create(p)
  <2>1. PICK at \in {"sending", "done"} : submit' = [submit EXCEPT ![p] = [at |-> at]]
    BY <1>4 DEF Create, To
  <2>2. submit'[p].at = at /\ \A q \in Payments : q # p => submit'[q] = submit[q]
    BY <2>1 DEF PayTypeOK
  <2>3. /\ ~Known(p) /\ bank[p] = "none" /\ said[p] = {} /\ bank' = bank
        /\ submit[p].at = "idle"
    BY <1>4 DEF Create, PayInv, RecordedFirst
  <2>4. \/ row' = row /\ at = "done"
        \/ row' = [row EXCEPT ![p] = "SUBMITTED"]
    BY <1>4, <2>2 DEF Create, To, PayTypeOK, OrFails, UpdateStatus
  <2>5. /\ row' \in [Payments -> SEPAStatus \cup {NotFound}]
        /\ \A q \in Payments : q # p => row'[q] = row[q]
        /\ row'[p] = "SUBMITTED" \/ (row'[p] = row[p] /\ at = "done")
    BY <2>4 DEF PayTypeOK, SEPAStatus
  <2>6. HeardFromBank'
    BY <1>1, <2>2, <2>3, <2>5 DEF PayInv, HeardFromBank, Known, GivenUp
  <2>7. RecordedFirst'
    BY <1>1, <2>2, <2>3, <2>5 DEF PayInv, RecordedFirst, Known, NotFound
  <2>8. QED BY <1>3, <2>1, <2>3, <2>5, <2>6, <2>7 DEF PayTypeOK
<1>5. CASE Send(p)
  <2>1. HeardFromBank' BY <1>1, <1>5 DEF Send, To, PayTypeOK, PayInv, HeardFromBank, Known, GivenUp
  <2>2. RecordedFirst' BY <1>1, <1>5 DEF Send, To, PayTypeOK, PayInv, RecordedFirst, Known
  <2>3. QED BY <1>3, <1>5, <2>1, <2>2 DEF Send, To, PayTypeOK
<1>6. CASE Answered(p)
  <2>1. HeardFromBank'
    BY <1>1, <1>6 DEF Answered, PayTypeOK, PayInv, HeardFromBank, Known, GivenUp
  <2>2. RecordedFirst' BY <1>1, <1>6 DEF Answered, PayTypeOK, PayInv, RecordedFirst, Known
  <2>3. bank[p] \in SEPAStatus BY <1>6 DEF Answered, PayTypeOK
  <2>4. QED BY <1>3, <1>6, <2>1, <2>2, <2>3 DEF Answered, PayTypeOK
<1>7. CASE SubmitFails(p)
  <2>1. HeardFromBank'
    BY <1>1, <1>7 DEF SubmitFails, To, PayTypeOK, PayInv, HeardFromBank, Known, GivenUp
  <2>2. RecordedFirst' BY <1>1, <1>7 DEF SubmitFails, To, PayTypeOK, PayInv, RecordedFirst, Known
  <2>3. QED BY <1>3, <1>7, <2>1, <2>2 DEF SubmitFails, To, PayTypeOK
<1>8. CASE RecordAnswer(p)
  <2>1. submit[p].status \in said[p] /\ submit[p].status \in SEPAStatus /\ Known(p)
    BY <1>8 DEF RecordAnswer, PayTypeOK, PayInv, RecordedFirst, HeardFromBank
  <2>2. /\ \A q \in Payments : q # p => row'[q] = row[q]
        /\ row'[p] \in {row[p], submit[p].status}
        /\ row' \in [Payments -> SEPAStatus \cup {NotFound}]
    BY <1>8, <2>1 DEF RecordAnswer, OrFails, UpdateStatus, PayTypeOK
  <2>3. /\ submit'[p].at = "done" /\ submit[p].at = "updating" /\ bank' = bank
        /\ \A q \in Payments : q # p => submit'[q] = submit[q]
    BY <1>8 DEF RecordAnswer, To, PayTypeOK
  <2>4. submit[p].status # NotFound BY <2>1 DEF SEPAStatus, NotFound
  <2>5. HeardFromBank'
    BY <1>1, <2>1, <2>2, <2>3 DEF PayInv, HeardFromBank, Known, GivenUp
  <2>6. RecordedFirst'
    BY <1>1, <2>1, <2>2, <2>3, <2>4 DEF PayInv, RecordedFirst, Known
  <2>7. QED BY <1>3, <1>8, <2>2, <2>5, <2>6 DEF RecordAnswer, To, PayTypeOK
<1>9. CASE RecordFailure(p)
  <2>1. Known(p) BY <1>9 DEF RecordFailure, PayInv, RecordedFirst
  <2>2. /\ submit[p].at = "failing" /\ bank' = bank
        /\ \/ submit'[p].at = "done" /\ row' = row
           \/ submit'[p].at = "gaveUp" /\ row' = [row EXCEPT ![p] = "REJECTED"]
        /\ \A q \in Payments : q # p => submit'[q] = submit[q]
    BY <1>9 DEF RecordFailure, To, PayTypeOK, MarkRejected, UpdateStatus
  <2>3. /\ \A q \in Payments : q # p => row'[q] = row[q]
        /\ submit'[p].at = "gaveUp" => row'[p] = "REJECTED"
        /\ submit'[p].at = "done" => row'[p] = row[p]
        /\ row' \in [Payments -> SEPAStatus \cup {NotFound}]
    BY <2>2 DEF PayTypeOK, SEPAStatus
  <2>4. HeardFromBank'
    BY <1>1, <2>2, <2>3 DEF PayInv, HeardFromBank, Known, GivenUp
  <2>5. RecordedFirst'
    BY <1>1, <2>1, <2>2, <2>3 DEF PayInv, RecordedFirst, Known, NotFound
  <2>6. QED BY <1>3, <1>9, <2>3, <2>4, <2>5 DEF RecordFailure, To, PayTypeOK
<1>10. QED BY <1>4, <1>5, <1>6, <1>7, <1>8, <1>9 DEF Submit

LEMMA BankKeeps ==
  ASSUME PayTypeOK, PayInv, NEW p \in Payments, BankMoves(p)
  PROVE  PayKept
<1>1. PICK s \in Moves(bank[p]) :
        /\ bank' = [bank EXCEPT ![p] = s]
        /\ said' = [said EXCEPT ![p] = @ \cup {s}]
  BY DEF BankMoves
<1>2. bank[p] # "none" /\ s # "none" /\ s \in SEPAStatus BY DEF Moves, SEPAStatus
<1>3. UNCHANGED <<row, submit, recall, return, reversed>> BY DEF BankMoves, procVars
<1>4. \A q \in Payments : said[q] \subseteq said'[q] BY <1>1 DEF PayTypeOK
<1>5. HeardFromBank' BY <1>3, <1>4 DEF PayInv, HeardFromBank, Known, GivenUp
<1>6. RecordedFirst' BY <1>1, <1>2, <1>3 DEF PayTypeOK, PayInv, RecordedFirst, Known
<1>7. InHand' BY <1>3, <1>4, MoreSaid DEF PayInv
<1>8. PayTypeOK'
  <2>1. bank' \in [Payments -> SEPAStatus \cup {"none", "sent"}] BY <1>1, <1>2 DEF PayTypeOK
  <2>2. said' \in [Payments -> SUBSET SEPAStatus] BY <1>1, <1>2 DEF PayTypeOK
  <2>3. QED BY <1>3, <2>1, <2>2 DEF PayTypeOK
<1>9. QED BY <1>4, <1>5, <1>6, <1>7, <1>8 DEF PayKept, PayInv

LEMMA RecallKeeps ==
  ASSUME PayTypeOK, PayInv, NEW c \in Recalls, CheckRecall(c) \/ AskRecall(c) \/ RecordRecall(c)
  PROVE  PayKept
<1>1. UNCHANGED <<submit, return, reversed>> BY DEF CheckRecall, AskRecall, RecordRecall
<1>2. CASE CheckRecall(c)
  <2>1. PICK p \in Payments :
          recall' = [recall EXCEPT ![c] = [at |-> "asking", payment |-> p]]
    BY <1>2 DEF CheckRecall
  <2>2. UNCHANGED <<row, bank, said>> BY <1>2 DEF CheckRecall
  <2>3. InHand' BY <1>1, <2>1, <2>2 DEF PayTypeOK, PayInv, InHand
  <2>4. PayTypeOK' BY <1>1, <2>1, <2>2 DEF PayTypeOK
  <2>5. QED BY <1>1, <2>2, <2>3, <2>4, SameRecords DEF PayKept, PayInv
<1>3. CASE AskRecall(c)
  <2> DEFINE p == recall[c].payment
  <2>1. p \in Payments BY <1>3 DEF AskRecall, PayTypeOK
  <2>2. UNCHANGED row BY <1>3 DEF AskRecall
  <2>3. CASE recall' = [recall EXCEPT ![c] = [at |-> "done"]] /\ UNCHANGED <<bank, said>>
    <3>1. InHand' BY <1>1, <2>2, <2>3 DEF PayTypeOK, PayInv, InHand
    <3>2. PayTypeOK' BY <1>1, <2>2, <2>3 DEF PayTypeOK
    <3>3. QED BY <1>1, <2>2, <2>3, <3>1, <3>2, SameRecords DEF PayKept, PayInv
  <2>4. CASE /\ bank[p] \in {"ACCEPTED", "SETTLED"}
             /\ bank' \in {bank, [bank EXCEPT ![p] = "RECALLED"]}
             /\ said' = [said EXCEPT ![p] = @ \cup {"RECALLED"}]
             /\ recall' \in {[recall EXCEPT ![c].at = "marking"],
                             [recall EXCEPT ![c] = [at |-> "done"]]}
    <3>1. \A q \in Payments : said[q] \subseteq said'[q] BY <2>1, <2>4 DEF PayTypeOK
    <3>2. /\ recall'[c].at = "marking" =>
               recall'[c].payment = p /\ "RECALLED" \in said'[p]
          /\ \A d \in Recalls : d # c => recall'[d] = recall[d]
          /\ recall' \in [Recalls -> [at : {"idle", "done"}]
               \cup [at : {"asking", "marking"}, payment : Payments]]
      <4>1. recall[c] \in [at : {"asking"}, payment : Payments]
        BY <1>3 DEF AskRecall, PayTypeOK
      <4>2. [recall[c] EXCEPT !.at = "marking"] \in [at : {"marking"}, payment : Payments]
        BY <4>1
      <4>3. [recall[c] EXCEPT !.at = "marking"].payment = p BY <4>1
      <4>4. QED BY <2>1, <2>4, <4>2, <4>3 DEF PayTypeOK
    <3> HIDE DEF p
    <3>3. HeardFromBank' BY <1>1, <2>2, <3>1 DEF PayInv, HeardFromBank, Known, GivenUp
    <3>4. RecordedFirst'
      BY <1>1, <2>1, <2>2, <2>4 DEF PayTypeOK, PayInv, RecordedFirst, Known
    <3>5. InHand'
      <4>1. /\ \A d \in Recalls : recall[d].at = "marking" => recall[d].payment \in Payments
            /\ \A n \in Returns : return[n].at = "reversing" => return[n].payment \in Payments
        BY DEF PayTypeOK
      <4>2. QED BY <1>1, <3>1, <3>2, <4>1 DEF PayInv, InHand
    <3>6. PayTypeOK'
      <4>1. "RECALLED" \in SEPAStatus BY DEF SEPAStatus
      <4>2. bank' \in [Payments -> SEPAStatus \cup {"none", "sent"}]
        BY <2>1, <2>4, <4>1 DEF PayTypeOK
      <4>3. said' \in [Payments -> SUBSET SEPAStatus] BY <2>1, <2>4, <4>1 DEF PayTypeOK
      <4>4. QED BY <1>1, <2>2, <3>2, <4>2, <4>3 DEF PayTypeOK
    <3>7. QED BY <3>1, <3>3, <3>4, <3>5, <3>6 DEF PayKept, PayInv
  <2>5. QED BY <1>3, <2>3, <2>4 DEF AskRecall
<1>4. CASE RecordRecall(c)
  <2>1. /\ recall[c].payment \in Payments
        /\ "RECALLED" \in said[recall[c].payment]
    BY <1>4 DEF RecordRecall, PayTypeOK, PayInv, InHand
  <2>2. Known(recall[c].payment) BY <2>1, SaidIsKnown
  <2>3. UNCHANGED <<bank, said>> /\ recall' = [recall EXCEPT ![c] = [at |-> "done"]]
    BY <1>4 DEF RecordRecall
  <2>4. /\ HeardFromBank' /\ RecordedFirst'
        /\ row' \in [Payments -> SEPAStatus \cup {NotFound}]
    <3>1. CASE row' = row BY <1>1, <2>3, <3>1, SameRecords DEF PayTypeOK
    <3>2. CASE row' = UpdateStatus(recall[c].payment, "RECALLED")
      BY <1>1, <2>1, <2>2, <2>3, <3>2, RecordingSaid
    <3>3. QED BY <1>4, <3>1, <3>2 DEF RecordRecall, MarkRecalled, OrFails
  <2>5. InHand' BY <1>1, <2>3 DEF PayTypeOK, PayInv, InHand
  <2>6. PayTypeOK' BY <1>1, <2>3, <2>4 DEF PayTypeOK
  <2>7. QED BY <2>3, <2>4, <2>5, <2>6 DEF PayKept, PayInv
<1>5. QED BY <1>2, <1>3, <1>4

LEMMA ReturnKeeps ==
  ASSUME PayTypeOK, PayInv, NEW n \in Returns, HandleReturn(n) \/ NotifyFunding(n)
  PROVE  PayKept
<1>1. UNCHANGED <<submit, recall, bank, said>> BY DEF HandleReturn, NotifyFunding
<1>2. CASE HandleReturn(n)
  <2>1. PICK p \in Payments :
          /\ "RETURNED" \in said[p]
          /\ row' \in {row, MarkReturned(p)}
          /\ return' \in {[return EXCEPT ![n] = [at |-> "reversing", payment |-> p]],
                          [return EXCEPT ![n] = [at |-> "done"]]}
    BY <1>2 DEF HandleReturn
  <2>2. Known(p) BY <2>1, SaidIsKnown
  <2>3. /\ HeardFromBank' /\ RecordedFirst'
        /\ row' \in [Payments -> SEPAStatus \cup {NotFound}]
    <3>1. CASE row' = row BY <1>1, <3>1, SameRecords DEF PayTypeOK
    <3>2. CASE row' = UpdateStatus(p, "RETURNED")
      BY <1>1, <2>1, <2>2, <3>2, RecordingSaid
    <3>3. QED BY <2>1, <3>1, <3>2 DEF MarkReturned
  <2>4. InHand' BY <1>1, <2>1 DEF PayTypeOK, PayInv, InHand
  <2>5. PayTypeOK' BY <1>1, <1>2, <2>1, <2>3 DEF HandleReturn, PayTypeOK
  <2>6. QED BY <1>1, <2>3, <2>4, <2>5 DEF PayKept, PayInv
<1>3. CASE NotifyFunding(n)
  <2>1. /\ row' = row /\ return' = [return EXCEPT ![n] = [at |-> "done"]]
        /\ reversed' \subseteq reversed \cup {return[n].payment}
    BY <1>3 DEF NotifyFunding
  <2>2. return[n].payment \in Payments BY <1>3 DEF NotifyFunding, PayTypeOK
  <2>3. InHand' BY <1>1, <2>1 DEF PayTypeOK, PayInv, InHand
  <2>4. PayTypeOK' BY <1>1, <2>1, <2>2 DEF PayTypeOK
  <2>5. QED BY <1>1, <2>1, <2>3, <2>4, SameRecords DEF PayKept, PayInv
<1>4. QED BY <1>2, <1>3

LEMMA CrashKeeps == ASSUME PayTypeOK, PayInv, PayCrash PROVE PayKept
<1>1. UNCHANGED <<row, bank, said, reversed>> BY DEF PayCrash
<1>2. \A p \in Payments :
        \/ submit'[p] = submit[p]
        \/ submit'[p].at = "done" /\ submit[p].at \notin {"idle", "gaveUp"}
  BY DEF PayCrash
<1>3. HeardFromBank' BY <1>1, <1>2 DEF PayInv, HeardFromBank, Known, GivenUp
<1>4. RecordedFirst' BY <1>1, <1>2 DEF PayInv, RecordedFirst, Known
<1>5. InHand' BY <1>1 DEF PayCrash, PayInv, InHand
<1>6. PayTypeOK' BY <1>1 DEF PayCrash, PayTypeOK
<1>7. QED BY <1>1, <1>3, <1>4, <1>5, <1>6 DEF PayKept, PayInv

LEMMA PayNextKeeps == ASSUME PayTypeOK, PayInv, PayNext PROVE PayKept
BY SubmitKeeps, BankKeeps, RecallKeeps, ReturnKeeps DEF PayNext

-----------------------------------------------------------------------------
(***************************************************************************)
(* The invariant of the files.                                             *)
(***************************************************************************)
First(S) == CHOOSE k \in S : \A j \in S : k <= j
Working(i) == ingest[i].at \in {"applying", "publishing"}
PaymentOf(f, k) == Content[f].lines[k].payment
Says(f, k) == LineStatus(Content[f].type, Content[f].lines[k])
Booked(f) == ParsedLines(f, Content[f].type)

\* The bank stands by the files it has issued.
IssuedIsSaid ==
  \A f \in issued : \A k \in Booked(f) :
    PaymentOf(f, k) \in Payments => Says(f, k) \in said[PaymentOf(f, k)]
\* An ingestion at work has claimed its file, has yet to store what is to do, and
\* has counted only lines it stored.
Progress(i) ==
  LET f == ingest[i].file
      todo == ingest[i].todo
  IN  Working(i) =>
        /\ f \in issued
        /\ reports[f] # Null
        /\ todo \subseteq Booked(f)
        /\ \A k \in todo : applied[f][k] = 0 \/ (k = First(todo) /\ ingest[i].at = "publishing")
        /\ ingest[i].count <= Cardinality(Stored(f) \ todo)
        /\ ingest[i].at = "publishing" =>
             /\ todo # {}
             /\ applied[f][First(todo)] > 0
             /\ PaymentOf(f, First(todo)) \in Payments
             /\ Terminal(Says(f, First(todo)))
\* Nobody else is at work on it, and nobody was before it was claimed.
Alone ==
  \A i, j \in Ingesters :
    Working(i) /\ Working(j) /\ ingest[i].file = ingest[j].file => i = j
Unclaimed ==
  \A f \in Files : reports[f] = Null => \A k \in Lines(f) : applied[f][k] = 0
FileInv ==
  /\ IssuedIsSaid /\ Alone /\ Unclaimed /\ AppliedOnce /\ CountIsTrue
  /\ \A i \in Ingesters : Progress(i)
IInv == PayInv /\ FileInv

-----------------------------------------------------------------------------
(***************************************************************************)
(* Lines and counts.                                                       *)
(***************************************************************************)
LEMMA FirstLine ==
  ASSUME NEW S \in SUBSET Nat, S # {}
  PROVE  First(S) \in S
<1> DEFINE R == {ss \in Nat \X Nat : ss[1] < ss[2]}
<1>1. R = OpToRel(<, Nat) BY DEF OpToRel
<1>2. IsWellFoundedOn(R, Nat) BY <1>1, NatLessThanWellFounded
<1>3. \A j, k \in Nat : j < k => <<j, k>> \in R OBVIOUS
<1> HIDE DEF R
<1>4. PICK k \in S : \A j \in S : <<j, k>> \notin R BY <1>2, WFMin
<1>5. \A j \in S : ~(j < k) BY <1>3, <1>4
<1>6. \A j \in S : k <= j BY <1>5
<1>7. QED BY <1>6 DEF First

\* What the lines of a file are.
LEMMA LinesType ==
  ASSUME NEW f \in Files
  PROVE  /\ Lines(f) \subseteq Nat /\ IsFiniteSet(Lines(f))
         /\ \A type : ParsedLines(f, type) \subseteq Lines(f)
         /\ \A type : ParsedLines(f, type) \subseteq Booked(f)
         /\ \A k \in Lines(f) : PaymentOf(f, k) \in Payments \cup {Foreign}
<1> DEFINE X == IF Content[f].type = "pain.002" THEN Pain002 ELSE Camt053
<1>1. Content[f].lines \in Seq(X) BY ContentAssumption
<1>2. \A x \in X : x.payment \in Payments \cup {Foreign} BY DEF Pain002, Camt053
<1> HIDE DEF X
<1>3. Len(Content[f].lines) \in Nat /\ Lines(f) = 1 .. Len(Content[f].lines)
  BY <1>1 DEF Lines
<1>4. IsFiniteSet(Lines(f)) BY <1>3, FS_Interval
<1>5. \A k \in Lines(f) : Content[f].lines[k] \in X BY <1>1, <1>3
<1>6. QED BY <1>2, <1>3, <1>4, <1>5 DEF ParsedLines, Booked, PaymentOf

LEMMA StoredFinite ==
  ASSUME NEW f \in Files, NEW S
  PROVE  IsFiniteSet(Stored(f) \ S) /\ Cardinality(Stored(f) \ S) \in Nat
<1>1. Stored(f) \ S \subseteq Lines(f) BY DEF Stored
<1>2. QED BY <1>1, LinesType, FS_Subset, FS_CardinalityType

LEMMA CountMore ==
  ASSUME NEW S, NEW T, IsFiniteSet(T), S \subseteq T
  PROVE  /\ Cardinality(S) <= Cardinality(T)
         /\ \A k \in T \ S : Cardinality(S) + 1 <= Cardinality(T)
<1>1. IsFiniteSet(S) /\ Cardinality(S) <= Cardinality(T) BY FS_Subset
<1>2. ASSUME NEW k \in T \ S PROVE Cardinality(S) + 1 <= Cardinality(T)
  <2>1. Cardinality(S \cup {k}) = Cardinality(S) + 1 BY <1>1, <1>2, FS_AddElement
  <2>2. S \cup {k} \subseteq T BY <1>2
  <2>3. Cardinality(S \cup {k}) <= Cardinality(T) BY <2>2, FS_Subset
  <2>4. QED BY <2>1, <2>3
<1>3. QED BY <1>1, <1>2

\* What an ingestion at work has in hand.
LEMMA WorkingType ==
  ASSUME TypeOK, FileInv, NEW i \in Ingesters, Working(i)
  PROVE  /\ ingest[i] \in [at : {"applying", "publishing"}, file : Files,
                           todo : SUBSET Nat, count : Nat]
         /\ ingest[i].todo \subseteq Lines(ingest[i].file)
<1>1. ingest[i] \in [at : {"applying", "publishing"}, file : Files,
                     todo : SUBSET Nat, count : Nat]
  BY DEF TypeOK, Working
<1>2. ingest[i].todo \subseteq Booked(ingest[i].file) BY DEF FileInv, Progress
<1>3. QED BY <1>1, <1>2, LinesType DEF Booked

-----------------------------------------------------------------------------
(***************************************************************************)
(* The files' steps.                                                       *)
(***************************************************************************)
\* Steps that leave the files alone, while the bank may say more.
LEMMA SameFiles ==
  ASSUME TypeOK, FileInv, UNCHANGED <<issued, reports, ingest, applied>>,
         \A p \in Payments : said[p] \subseteq said'[p]
  PROVE  FileInv'
<1>1. IssuedIsSaid' BY DEF FileInv, IssuedIsSaid
<1>2. Alone' /\ Unclaimed' /\ AppliedOnce' /\ CountIsTrue'
  BY DEF FileInv, Alone, Working, Unclaimed, AppliedOnce, CountIsTrue, Stored
<1>3. \A i \in Ingesters : Progress(i)' BY DEF FileInv, Progress, Working, Stored
<1>4. QED BY <1>1, <1>2, <1>3 DEF FileInv

LEMMA IssueKeeps ==
  ASSUME TypeOK, FileInv, NEW f \in Files, Issue(f)
  PROVE  FileInv'
<1>1. issued' = issued \cup {f} /\ UNCHANGED <<payVars, reports, ingest, applied>>
  BY DEF Issue
<1>2. IssuedIsSaid'
  BY <1>1 DEF Issue, FileInv, IssuedIsSaid, Booked, PaymentOf, Says, payVars
<1>3. Alone' /\ Unclaimed' /\ AppliedOnce' /\ CountIsTrue'
  BY <1>1 DEF FileInv, Alone, Working, Unclaimed, AppliedOnce, CountIsTrue, Stored
<1>4. \A i \in Ingesters : Progress(i)' BY <1>1 DEF FileInv, Progress, Working, Stored
<1>5. QED BY <1>2, <1>3, <1>4 DEF FileInv

\* Nobody is at work after a crash, and what was claimed stays claimed.
LEMMA CrashKeepsFiles ==
  ASSUME TypeOK, FileInv, Crash
  PROVE  FileInv'
<1>1. UNCHANGED <<issued, reports, applied, said>> BY DEF Crash, PayCrash
<1>2. \A i \in Ingesters : ~Working(i)' BY DEF Crash, Working
<1>3. IssuedIsSaid' BY <1>1 DEF FileInv, IssuedIsSaid
<1>4. Alone' /\ \A i \in Ingesters : Progress(i)' BY <1>2 DEF Alone, Progress
<1>5. Unclaimed' /\ AppliedOnce' /\ CountIsTrue'
  BY <1>1 DEF FileInv, Unclaimed, AppliedOnce, CountIsTrue, Stored
<1>6. QED BY <1>3, <1>4, <1>5 DEF FileInv

LEMMA ClaimKeeps ==
  ASSUME TypeOK, FileInv, NEW i \in Ingesters, NEW f \in Files, NEW type, Claim(i, f, type)
  PROVE  TypeOK' /\ FileInv'
<1>1. /\ ingest[i].at = "idle" /\ f \in issued /\ reports[f] = Null
      /\ reports' = [reports EXCEPT ![f] = [status |-> "PENDING", updated |-> 0]]
      /\ UNCHANGED <<payVars, issued, applied, announced, refused, crashes>>
  BY DEF Claim, Claimed
<1>2. UNCHANGED said BY <1>1 DEF payVars
<1>3. PICK new \in {ingest[i],
                    [at |-> "applying", file |-> f, todo |-> ParsedLines(f, type), count |-> 0],
                    [at |-> "failing", file |-> f]} : ingest' = [ingest EXCEPT ![i] = new]
  BY DEF Claim, Parsed, TypeOK
<1>4. /\ ingest'[i] = new /\ \A j \in Ingesters : j # i => ingest'[j] = ingest[j]
  BY <1>3 DEF TypeOK
<1>5. reports'[f] # Null /\ reports'[f].updated = 0
      /\ \A g \in Files : g # f => reports'[g] = reports[g]
  BY <1>1, NullAssumption DEF TypeOK
<1>6. \A k \in Lines(f) : applied[f][k] = 0 BY <1>1 DEF FileInv, Unclaimed
<1>7. ParsedLines(f, type) \subseteq Nat /\ ParsedLines(f, type) \subseteq Booked(f)
      /\ ParsedLines(f, type) \subseteq Lines(f)
  BY LinesType
<1>8. TypeOK'
  <2>1. reports' \in [Files ->
          [status : {"PENDING", "PROCESSED", "FAILED"}, updated : Nat] \cup {Null}]
    BY <1>1 DEF TypeOK
  <2>2. ingest' \in [Ingesters ->
          [at : {"idle"}] \cup [at : {"failing"}, file : Files]
          \cup [at : {"applying", "publishing"}, file : Files, todo : SUBSET Nat, count : Nat]]
    BY <1>3, <1>7 DEF TypeOK
  <2>3. PayTypeOK' BY <1>1 DEF TypeOK, PayTypeOK, payVars, procVars
  <2>4. QED BY <1>1, <2>1, <2>2, <2>3 DEF TypeOK
<1>9. Working(i)' =>
        new = [at |-> "applying", file |-> f, todo |-> ParsedLines(f, type), count |-> 0]
  BY <1>1, <1>3, <1>4 DEF Working
<1>10. IssuedIsSaid' BY <1>1, <1>2 DEF FileInv, IssuedIsSaid
<1>11. Alone'
  <2>1. \A j \in Ingesters : j # i /\ Working(j)' => ingest'[j].file # f
    BY <1>1, <1>4 DEF FileInv, Progress, Working
  <2>2. Working(i)' => ingest'[i].file = f BY <1>4, <1>9
  <2>3. QED BY <1>4, <2>1, <2>2 DEF FileInv, Alone, Working
<1>12. Unclaimed' /\ AppliedOnce'
  BY <1>1, <1>5 DEF FileInv, Unclaimed, AppliedOnce
<1>13. CountIsTrue'
  <2>1. Cardinality(Stored(f)) \in Nat
    <3>1. Stored(f) = Stored(f) \ {} OBVIOUS
    <3>2. QED BY <3>1, StoredFinite
  <2>2. \A g \in Files : Stored(g)' = Stored(g) BY <1>1 DEF Stored
  <2>3. ASSUME NEW g \in Files, reports'[g] # Null
        PROVE  reports'[g].updated <= Cardinality(Stored(g))
    <3>1. CASE g = f BY <1>5, <2>1, <3>1
    <3>2. CASE g # f BY <1>5, <2>3, <3>2 DEF FileInv, CountIsTrue
    <3>3. QED BY <3>1, <3>2
  <2>4. QED BY <2>2, <2>3 DEF CountIsTrue
<1>14. ASSUME NEW j \in Ingesters PROVE Progress(j)'
  <2>1. CASE j = i /\ Working(i)'
    <3>1. ingest'[i] = [at |-> "applying", file |-> f, todo |-> ParsedLines(f, type), count |-> 0]
      BY <1>4, <1>9, <2>1
    <3>2. 0 <= Cardinality(Stored(f) \ ParsedLines(f, type)) BY StoredFinite
    <3>3. Stored(f)' = Stored(f) BY <1>1 DEF Stored
    <3>4. QED BY <1>1, <1>5, <1>6, <1>7, <2>1, <3>1, <3>2, <3>3 DEF Progress
  <2>2. CASE j # i
    <3>1. Progress(j) BY DEF FileInv
    <3>2. QED BY <1>1, <1>4, <1>5, <2>2, <3>1 DEF Progress, Working, Stored, TypeOK
  <2>3. QED BY <2>1, <2>2 DEF Progress
<1>15. QED
  BY <1>8, <1>10, <1>11, <1>12, <1>13, <1>14 DEF FileInv

LEMMA CloseKeeps ==
  ASSUME TypeOK, FileInv, NEW i \in Ingesters, MarkProcessed(i) \/ MarkFailed(i)
  PROVE  TypeOK' /\ FileInv'
<1> DEFINE f == ingest[i].file
<1>1. f \in Files BY DEF MarkProcessed, MarkFailed, TypeOK
<1>2. PICK status \in {"PROCESSED", "FAILED"}, updated \in {ingest[i].count, 0} :
        /\ CloseReport(i, status, updated)
        /\ updated = ingest[i].count => Working(i)  \/ updated = 0
        /\ updated = 0 \/ (Working(i) /\ ingest[i].todo = {})
  BY DEF MarkProcessed, MarkFailed, Working
<1>3. updated \in Nat /\ updated <= Cardinality(Stored(f))
  <2>1. CASE updated = 0
    <3>1. Stored(f) = Stored(f) \ {} OBVIOUS
    <3>2. Cardinality(Stored(f)) \in Nat BY <1>1, <3>1, StoredFinite
    <3>3. QED BY <2>1, <3>2
  <2>2. CASE Working(i) /\ ingest[i].todo = {} /\ updated = ingest[i].count
    <3>1. ingest[i].count \in Nat BY <2>2, WorkingType
    <3>2. ingest[i].count <= Cardinality(Stored(f) \ {}) BY <2>2 DEF FileInv, Progress
    <3>3. Stored(f) = Stored(f) \ {} OBVIOUS
    <3>4. QED BY <2>2, <3>1, <3>2, <3>3
  <2>3. QED BY <1>2, <2>1, <2>2
<1> DEFINE closed == [status |-> status, updated |-> updated]
<1>4. /\ reports' = reports \/ reports' = [reports EXCEPT ![f] = closed]
      /\ ingest' = [ingest EXCEPT ![i] = [at |-> "idle"]]
      /\ UNCHANGED <<payVars, issued, applied, announced, refused, crashes>>
  BY <1>2 DEF CloseReport
<1>5. closed \in [status : {"PENDING", "PROCESSED", "FAILED"}, updated : Nat] /\ closed # Null
      /\ closed.updated = updated
  BY <1>3, NullAssumption
<1> HIDE DEF f, closed
<1>6. /\ ~Working(i)' /\ \A j \in Ingesters : j # i => ingest'[j] = ingest[j]
  BY <1>4 DEF TypeOK, Working
<1>7. /\ \A g \in Files : reports'[g] = reports[g] \/ (g = f /\ reports'[g] = closed)
      /\ \A g \in Files : Stored(g)' = Stored(g)
  BY <1>1, <1>4 DEF TypeOK, Stored
<1>8. TypeOK'
  <2>1. reports' \in [Files ->
          [status : {"PENDING", "PROCESSED", "FAILED"}, updated : Nat] \cup {Null}]
    BY <1>1, <1>4, <1>5 DEF TypeOK
  <2>2. PayTypeOK' BY <1>4 DEF TypeOK, PayTypeOK, payVars, procVars
  <2>3. QED BY <1>4, <2>1, <2>2 DEF TypeOK
<1>9. IssuedIsSaid' BY <1>4 DEF FileInv, IssuedIsSaid, payVars
<1>10. Alone' BY <1>6 DEF FileInv, Alone, Working
<1>11. Unclaimed' /\ AppliedOnce'
  BY <1>4, <1>5, <1>7 DEF FileInv, Unclaimed, AppliedOnce
<1>12. CountIsTrue'
  <2>1. ASSUME NEW g \in Files, reports'[g] # Null
        PROVE  reports'[g].updated <= Cardinality(Stored(g))
    <3>1. CASE reports'[g] = reports[g] BY <2>1, <3>1 DEF FileInv, CountIsTrue
    <3>2. CASE g = f /\ reports'[g] = closed BY <1>3, <1>5, <3>2
    <3>3. QED BY <1>7, <3>1, <3>2
  <2>2. QED BY <1>7, <2>1 DEF CountIsTrue
<1>13. ASSUME NEW j \in Ingesters PROVE Progress(j)'
  <2>1. CASE j = i BY <1>6, <2>1 DEF Progress
  <2>2. CASE j # i
    <3>1. Progress(j) BY DEF FileInv
    <3>2. Working(j)' <=> Working(j) BY <1>6, <2>2 DEF Working
    <3>3. CASE Working(j)
      <4>1. PICK g \in Files : g = ingest[j].file BY <3>3, WorkingType
      <4>2. ingest'[j] = ingest[j] BY <1>6, <2>2
      <4>3. issued' = issued /\ applied' = applied /\ Stored(g)' = Stored(g) BY <1>4, <1>7
      <4>4. reports[g] # Null BY <3>1, <3>3, <4>1 DEF Progress
      <4>5. reports'[g] # Null BY <1>5, <1>7, <4>4
      <4>6. QED BY <3>1, <3>3, <4>1, <4>2, <4>3, <4>5 DEF Progress
    <3>4. QED BY <3>2, <3>3 DEF Progress
  <2>3. QED BY <2>1, <2>2
<1>14. QED BY <1>8, <1>9, <1>10, <1>11, <1>12, <1>13 DEF FileInv

\* The lines of an ingestion's file are stored in a step, its own progress apart:
\* nothing else is disturbed.
LEMMA LineStep ==
  ASSUME TypeOK, FileInv, NEW i \in Ingesters, Working(i), NEW k \in Lines(ingest[i].file),
         \/ applied' = applied
         \/ /\ applied[ingest[i].file][k] = 0
            /\ applied' = [applied EXCEPT ![ingest[i].file][k] = @ + 1],
         ingest'[i].file = ingest[i].file,
         \A j \in Ingesters : j # i => ingest'[j] = ingest[j],
         UNCHANGED <<issued, reports, said>>,
         Progress(i)'
  PROVE  FileInv' /\ \A f \in Files : applied'[f] \in [Lines(f) -> Nat] /\ DOMAIN applied' = Files
<1>1. PICK f \in Files : f = ingest[i].file BY WorkingType
<1>2. reports[f] # Null BY <1>1 DEF FileInv, Progress
<1>3. /\ DOMAIN applied' = Files
      /\ \A g \in Files : applied'[g] \in [Lines(g) -> Nat]
      /\ \A g \in Files : g # f => applied'[g] = applied[g]
      /\ \A j \in Lines(f) :
           applied'[f][j] = applied[f][j] \/ (applied[f][j] = 0 /\ applied'[f][j] = 1)
  BY <1>1 DEF TypeOK
<1>4. \A g \in Files : g # f => Stored(g)' = Stored(g) BY <1>3 DEF Stored
<1>5. Stored(f) \subseteq Stored(f)' BY <1>1, <1>3 DEF Stored, TypeOK
<1>6. IssuedIsSaid' BY DEF FileInv, IssuedIsSaid
<1>7. Alone' BY DEF FileInv, Alone, Working
<1>8. Unclaimed' BY <1>2, <1>3 DEF FileInv, Unclaimed
<1>9. AppliedOnce'
  <2>1. ASSUME NEW g \in Files, NEW j \in Lines(g) PROVE applied'[g][j] <= 1
    <3>1. applied[g][j] <= 1 BY DEF FileInv, AppliedOnce
    <3>2. QED BY <1>3, <3>1
  <2>2. QED BY <2>1 DEF AppliedOnce
<1>10. CountIsTrue'
  <2>1. ASSUME NEW g \in Files, reports[g] # Null
        PROVE  reports[g].updated <= Cardinality(Stored(g)')
    <3>1. reports[g].updated <= Cardinality(Stored(g)) BY <2>1 DEF FileInv, CountIsTrue
    <3>2. CASE g # f BY <1>4, <3>1, <3>2
    <3>3. CASE g = f
      <4>1. Stored(f)' \subseteq Lines(f) BY DEF Stored
      <4>2. IsFiniteSet(Stored(f)') BY <1>1, <4>1, LinesType, FS_Subset
      <4>3. Cardinality(Stored(f)') \in Nat BY <4>2, FS_CardinalityType
      <4>4. Stored(f) = Stored(f) \ {} OBVIOUS
      <4>5. Cardinality(Stored(f)) \in Nat BY <1>1, <4>4, StoredFinite
      <4>6. Cardinality(Stored(f)) <= Cardinality(Stored(f)') BY <1>5, <4>2, CountMore
      <4>7. reports[g].updated \in Nat BY <2>1 DEF TypeOK
      <4>8. QED BY <3>1, <3>3, <4>3, <4>5, <4>6, <4>7
    <3>4. QED BY <3>2, <3>3
  <2>2. QED BY <2>1 DEF CountIsTrue
<1>11. ASSUME NEW j \in Ingesters, j # i PROVE Progress(j)'
  <2>1. Progress(j) BY DEF FileInv
  <2>2. Working(j) => ingest[j].file \in Files /\ ingest[j].file # f
    BY <1>1, <1>11, WorkingType DEF FileInv, Alone
  <2>3. Working(j)' <=> Working(j) BY <1>11 DEF Working
  <2>4. CASE Working(j)
    <3>1. PICK g \in Files : g = ingest[j].file /\ g # f BY <2>2, <2>4
    <3>2. ingest'[j] = ingest[j] /\ applied'[g] = applied[g] BY <1>3, <1>11, <3>1
    <3>3. Stored(g)' = Stored(g) BY <3>2 DEF Stored
    <3>4. QED BY <2>1, <2>4, <3>1, <3>2, <3>3 DEF Progress
  <2>5. QED BY <2>3, <2>4 DEF Progress
<1>12. QED BY <1>3, <1>6, <1>7, <1>8, <1>9, <1>10, <1>11 DEF FileInv

\* The line that is applied next.
LEMMA NextLineType ==
  ASSUME TypeOK, FileInv, NEW i \in Ingesters, Working(i), ingest[i].todo # {}
  PROVE  LET f == ingest[i].file
             k == NextLine(i)
         IN  /\ f \in Files
             /\ k = First(ingest[i].todo)
             /\ k \in ingest[i].todo /\ k \in Lines(f)
             /\ Line(i).payment = PaymentOf(f, k)
             /\ StatusOf(i) = Says(f, k)
             /\ StatusOf(i) \in SEPAStatus
             /\ PaymentOf(f, k) \in Payments => StatusOf(i) \in said[PaymentOf(f, k)]
<1> DEFINE f == ingest[i].file
           k == NextLine(i)
<1>1. f \in Files /\ ingest[i].todo \subseteq Nat /\ ingest[i].todo \subseteq Lines(f)
  BY WorkingType
<1>2. k = First(ingest[i].todo) BY DEF NextLine, First
<1>3. k \in ingest[i].todo BY <1>1, <1>2, FirstLine
<1>4. f \in issued /\ k \in Booked(f) BY <1>3 DEF FileInv, Progress
<1>5. Line(i).payment = PaymentOf(f, k) /\ StatusOf(i) = Says(f, k)
  BY DEF Line, PaymentOf, StatusOf, Says
<1> HIDE DEF k, f
<1>6. Says(f, k) # "skipped" BY <1>4 DEF Booked, ParsedLines, Says
<1>7. Says(f, k) \in SEPAStatus
  BY <1>6 DEF Says, LineStatus, MapPain002Status, SEPAStatus
<1>8. PaymentOf(f, k) \in Payments => Says(f, k) \in said[PaymentOf(f, k)]
  BY <1>4 DEF FileInv, IssuedIsSaid
<1>9. QED BY <1>1, <1>2, <1>3, <1>5, <1>7, <1>8 DEF k, f

\* Counting a line that was stored, or passing one over that may have been.
LEMMA CountLine ==
  ASSUME TypeOK, FileInv, NEW i \in Ingesters, Working(i), NEW f \in Files,
         f = ingest[i].file, NEW k \in ingest[i].todo, NEW by \in {0, 1},
         LineDone(i, k, by), UNCHANGED <<issued, reports>>,
         \A j \in Lines(f) : applied[f][j] > 0 => applied'[f][j] > 0,
         by = 1 => applied'[f][k] > 0,
         \A j \in ingest[i].todo \ {k} : applied'[f][j] = 0
  PROVE  /\ Progress(i)'
         /\ ingest'[i].file = f
         /\ \A j \in Ingesters : j # i => ingest'[j] = ingest[j]
         /\ ingest' \in [Ingesters ->
              [at : {"idle"}] \cup [at : {"failing"}, file : Files]
              \cup [at : {"applying", "publishing"}, file : Files, todo : SUBSET Nat, count : Nat]]
<1>1. /\ ingest[i] \in [at : {"applying", "publishing"}, file : Files,
                        todo : SUBSET Nat, count : Nat]
      /\ ingest[i].todo \subseteq Lines(f)
  BY WorkingType
<1> DEFINE new == [ingest[i] EXCEPT !.at = "applying", !.todo = @ \ {k}, !.count = @ + by]
<1>2. ingest' = [ingest EXCEPT ![i] = new] BY DEF LineDone, TypeOK
<1> DEFINE left == ingest[i].todo \ {k}
           counted == ingest[i].count + by
<1>11. left \in SUBSET Nat /\ counted \in Nat BY <1>1
<1>12. new = [at |-> "applying", file |-> f, todo |-> left, count |-> counted]
  <2> DEFINE r == ingest[i]
             r1 == [r EXCEPT !.at = "applying"]
             r2 == [r1 EXCEPT !.todo = left]
             r3 == [r2 EXCEPT !.count = counted]
  <2>1. r1 \in [at : {"applying"}, file : {f}, todo : SUBSET Nat, count : Nat] BY <1>1
  <2> HIDE DEF r1
  <2>2. r2 \in [at : {"applying"}, file : {f}, todo : {left}, count : Nat] BY <2>1
  <2> HIDE DEF r2
  <2>3. r3 \in [at : {"applying"}, file : {f}, todo : {left}, count : {counted}] BY <2>2
  <2> HIDE DEF r3
  <2>4. r3 = [at |-> "applying", file |-> f, todo |-> left, count |-> counted] BY <2>3
  <2>5. new = r3 BY DEF r3, r2, r1
  <2>6. QED BY <2>4, <2>5
<1> HIDE DEF left, counted
<1>3. new \in [at : {"applying"}, file : Files, todo : SUBSET Nat, count : Nat] BY <1>11, <1>12
<1> USE DEF left, counted
<1>4. /\ new.at = "applying" /\ new.file = f /\ new.todo = ingest[i].todo \ {k}
      /\ new.count = ingest[i].count + by
  BY <1>12
<1> HIDE DEF new
<1>5. ingest'[i] = new /\ \A j \in Ingesters : j # i => ingest'[j] = ingest[j]
  BY <1>2 DEF TypeOK
<1>6. PICK S : S = Stored(f) \ ingest[i].todo OBVIOUS
<1>7. PICK T : T = Stored(f)' \ (ingest[i].todo \ {k}) OBVIOUS
<1>8. new.count <= Cardinality(T)
  <2>1. Stored(f)' = {j \in Lines(f) : applied'[f][j] > 0} BY DEF Stored
  <2>2. S \subseteq T /\ (by = 1 => k \in T \ S)
    BY <1>1, <1>6, <1>7, <2>1 DEF Stored
  <2>3. IsFiniteSet(T)
    <3>1. T \subseteq Lines(f) BY <1>7, <2>1
    <3>2. QED BY <3>1, LinesType, FS_Subset
  <2>4. Cardinality(S) \in Nat BY <1>6, StoredFinite
  <2>5. Cardinality(T) \in Nat BY <2>3, FS_CardinalityType
  <2>6. ingest[i].count <= Cardinality(S) BY <1>6 DEF FileInv, Progress
  <2>7. Cardinality(S) <= Cardinality(T) /\ (by = 1 => Cardinality(S) + 1 <= Cardinality(T))
    BY <2>2, <2>3, CountMore
  <2>8. QED BY <1>1, <1>4, <2>4, <2>5, <2>6, <2>7
<1>9. Progress(i)'
  <2>1. /\ f \in issued /\ reports[f] # Null /\ ingest[i].todo \subseteq Booked(f)
    BY DEF FileInv, Progress
  <2>2. QED BY <1>4, <1>5, <1>7, <1>8, <2>1 DEF Progress
<1>10. QED BY <1>2, <1>3, <1>4, <1>5, <1>9 DEF TypeOK

LEMMA PublishKeeps ==
  ASSUME TypeOK, FileInv, NEW i \in Ingesters, PublishLine(i)
  PROVE  TypeOK' /\ FileInv'
<1>1. /\ ingest[i].at = "publishing" /\ Working(i)
      /\ LineDone(i, NextLine(i), 1)
      /\ UNCHANGED <<payVars, issued, reports, applied, refused, crashes>>
      /\ announced' \subseteq announced \cup {<<Line(i).payment, StatusOf(i)>>}
  BY DEF PublishLine, Working
<1>2. PICK f \in Files : f = ingest[i].file BY <1>1, WorkingType
<1>3. /\ ingest[i].todo # {} /\ applied[f][First(ingest[i].todo)] > 0
      /\ PaymentOf(f, First(ingest[i].todo)) \in Payments
  BY <1>1, <1>2 DEF FileInv, Progress
<1>4. PICK k \in ingest[i].todo :
        /\ k = NextLine(i) /\ k = First(ingest[i].todo) /\ k \in Lines(f)
        /\ Line(i).payment = PaymentOf(f, k)
        /\ StatusOf(i) \in SEPAStatus
  BY <1>1, <1>2, <1>3, NextLineType
<1>5. \A j \in ingest[i].todo \ {k} : applied[f][j] = 0
  BY <1>1, <1>2, <1>4 DEF FileInv, Progress
<1>6. /\ Progress(i)' /\ ingest'[i].file = f
      /\ \A j \in Ingesters : j # i => ingest'[j] = ingest[j]
      /\ ingest' \in [Ingesters ->
              [at : {"idle"}] \cup [at : {"failing"}, file : Files]
              \cup [at : {"applying", "publishing"}, file : Files, todo : SUBSET Nat, count : Nat]]
  BY <1>1, <1>2, <1>3, <1>4, <1>5, CountLine
<1>7. FileInv' BY <1>1, <1>2, <1>4, <1>6, LineStep DEF payVars
<1>8. announced' \subseteq Payments \X SEPAStatus BY <1>1, <1>3, <1>4 DEF TypeOK
<1>9. PayTypeOK' BY <1>1 DEF TypeOK, PayTypeOK, payVars, procVars
<1>10. QED BY <1>1, <1>6, <1>7, <1>8, <1>9 DEF TypeOK

LEMMA ApplyKeeps ==
  ASSUME TypeOK, PayInv, FileInv, NEW i \in Ingesters, ApplyLine(i)
  PROVE  TypeOK' /\ PayInv' /\ FileInv'
<1>1. /\ ingest[i].at = "applying" /\ Working(i) /\ ingest[i].todo # {}
      /\ UNCHANGED <<procVars, bank, said, reversed, issued, reports, announced, refused, crashes>>
  BY DEF ApplyLine, Working
<1>2. PICK f \in Files : f = ingest[i].file BY <1>1, WorkingType
<1>3. PICK k \in ingest[i].todo :
        /\ k = NextLine(i) /\ k = First(ingest[i].todo) /\ k \in Lines(f)
        /\ Line(i).payment = PaymentOf(f, k)
        /\ StatusOf(i) = Says(f, k)
        /\ StatusOf(i) \in SEPAStatus
        /\ PaymentOf(f, k) \in Payments => StatusOf(i) \in said[PaymentOf(f, k)]
  BY <1>1, <1>2, NextLineType
<1>4. \A j \in ingest[i].todo : applied[f][j] = 0
  BY <1>1, <1>2 DEF FileInv, Progress
<1> DEFINE p == PaymentOf(f, k)
           s == StatusOf(i)
           stored == /\ row' = UpdateStatus(p, s)
                     /\ applied' = [applied EXCEPT ![f][k] = @ + 1]
<1>5. \/ /\ Updatable(p, s) /\ stored
         /\ IF Terminal(s) THEN ingest' = [ingest EXCEPT ![i].at = "publishing"]
            ELSE LineDone(i, k, 1)
      \/ /\ LineDone(i, k, 0)
         /\ UNCHANGED <<row, applied>> \/ (Updatable(p, s) /\ stored)
  BY <1>2, <1>3 DEF ApplyLine, StoreLine
<1>6. Updatable(p, s) => p \in Payments /\ Known(p) /\ s \in said[p]
  BY <1>2, <1>3, LinesType DEF Updatable, Known
<1>7. stored => /\ applied'[f][k] = 1
                /\ \A j \in Lines(f) : j # k => applied'[f][j] = applied[f][j]
  BY <1>3, <1>4 DEF TypeOK
<1>8. PayTypeOK /\ UNCHANGED <<submit, recall, return, bank, said, reversed>>
  BY <1>1 DEF TypeOK, procVars
<1>9. PayTypeOK' /\ PayInv'
  <2>1. InHand' BY <1>8 DEF PayInv, InHand
  <2>2. CASE row' = row
    <3>1. PayTypeOK' BY <1>8, <2>2 DEF PayTypeOK
    <3>2. QED BY <1>8, <2>1, <2>2, <3>1, SameRecords DEF PayInv
  <2>3. CASE Updatable(p, s) /\ stored
    <3>1. /\ row' \in [Payments -> SEPAStatus \cup {NotFound}]
          /\ HeardFromBank' /\ RecordedFirst'
      BY <1>6, <1>8, <2>3, RecordingSaid
    <3>2. PayTypeOK' BY <1>8, <3>1 DEF PayTypeOK
    <3>3. QED BY <2>1, <3>1, <3>2 DEF PayInv
  <2>4. QED BY <1>5, <2>2, <2>3
<1>10. applied' = applied \/ (applied[f][k] = 0 /\ applied' = [applied EXCEPT ![f][k] = @ + 1])
  BY <1>4, <1>5
<1>11. /\ Progress(i)' /\ ingest'[i].file = f
       /\ \A j \in Ingesters : j # i => ingest'[j] = ingest[j]
       /\ ingest' \in [Ingesters ->
              [at : {"idle"}] \cup [at : {"failing"}, file : Files]
              \cup [at : {"applying", "publishing"}, file : Files, todo : SUBSET Nat, count : Nat]]
  <2>1. /\ \A j \in Lines(f) : applied[f][j] > 0 => applied'[f][j] > 0
        /\ \A j \in ingest[i].todo \ {k} : applied'[f][j] = 0
        /\ stored => applied'[f][k] > 0
    <3>1. ingest[i].todo \subseteq Lines(f) BY <1>1, <1>2, WorkingType
    <3>2. CASE applied' = applied BY <1>4, <1>7, <3>2
    <3>3. CASE stored BY <1>4, <1>7, <3>1, <3>3
    <3>4. QED BY <1>5, <3>2, <3>3
  <2> HIDE DEF p, s
  <2>2. CASE LineDone(i, k, 0) BY <1>1, <1>2, <2>1, <2>2, CountLine
  <2>3. CASE stored /\ LineDone(i, k, 1) BY <1>1, <1>2, <2>1, <2>3, CountLine
  <2>4. CASE Updatable(p, s) /\ stored /\ Terminal(s) /\ ingest' = [ingest EXCEPT ![i].at = "publishing"]
    <3>1. /\ ingest[i] \in [at : {"applying", "publishing"}, file : Files,
                            todo : SUBSET Nat, count : Nat]
          /\ ingest[i].todo \subseteq Lines(f)
      BY <1>1, <1>2, WorkingType
    <3> DEFINE new == [ingest[i] EXCEPT !.at = "publishing"]
    <3>2. ingest' = [ingest EXCEPT ![i] = new] BY <2>4 DEF TypeOK
    <3>3. /\ new \in [at : {"publishing"}, file : Files, todo : SUBSET Nat, count : Nat]
          /\ new.at = "publishing" /\ new.file = f /\ new.todo = ingest[i].todo
          /\ new.count = ingest[i].count
      BY <1>2, <3>1
    <3> HIDE DEF new
    <3>4. ingest'[i] = new /\ \A j \in Ingesters : j # i => ingest'[j] = ingest[j]
      BY <3>2 DEF TypeOK
    <3>5. Stored(f)' \ ingest[i].todo = Stored(f) \ ingest[i].todo
      <4>1. Stored(f)' = {j \in Lines(f) : applied'[f][j] > 0} BY DEF Stored
      <4>2. QED BY <1>7, <2>4, <4>1 DEF Stored
    <3>6. /\ f \in issued /\ reports[f] # Null /\ ingest[i].todo \subseteq Booked(f)
          /\ ingest[i].count <= Cardinality(Stored(f) \ ingest[i].todo)
      BY <1>1, <1>2 DEF FileInv, Progress
    <3>7. PICK S : S = Stored(f)' \ ingest[i].todo OBVIOUS
    <3>8. ingest[i].count <= Cardinality(S) BY <3>5, <3>6, <3>7
    <3>9. UNCHANGED <<issued, reports>> BY <1>1
    <3>10. PaymentOf(f, k) \in Payments /\ Terminal(Says(f, k)) BY <1>3, <1>6, <2>4 DEF p, s
    <3>11. Progress(i)'
      <4>1. \A j \in ingest[i].todo : applied'[f][j] = 0 \/ j = First(ingest[i].todo)
        BY <1>3, <2>1
      <4>2. /\ ingest[i].todo # {} /\ applied'[f][First(ingest[i].todo)] > 0
            /\ PaymentOf(f, First(ingest[i].todo)) \in Payments
            /\ Terminal(Says(f, First(ingest[i].todo)))
        BY <1>1, <1>3, <2>1, <2>4, <3>10
      <4>3. reports'[f] # Null /\ f \in issued' BY <3>6, <3>9
      <4> DEFINE todo == ingest[i].todo
      <4>4. ingest'[i].file = f /\ ingest'[i].todo = todo /\ ingest'[i].at = "publishing"
            /\ ingest'[i].count = ingest[i].count
        BY <3>3, <3>4
      <4>5. ingest[i].count <= Cardinality(Stored(f)' \ todo) BY <3>7, <3>8
      <4> HIDE DEF todo
      <4>6. QED BY <3>6, <4>1, <4>2, <4>3, <4>4, <4>5 DEF Progress, todo
    <3>12. QED BY <3>2, <3>3, <3>4, <3>11 DEF TypeOK
  <2>5. QED BY <1>5, <2>2, <2>3, <2>4
<1>12. FileInv' /\ (\A g \in Files : applied'[g] \in [Lines(g) -> Nat]) /\ DOMAIN applied' = Files
  BY <1>1, <1>2, <1>3, <1>10, <1>11, LineStep
<1>13. TypeOK' BY <1>1, <1>9, <1>11, <1>12 DEF TypeOK
<1>14. QED BY <1>9, <1>12, <1>13

LEMMA InitHolds == ASSUME Init PROVE TypeOK /\ IInv
<1>1. PayTypeOK BY DEF Init, PayInit, PayTypeOK
<1>2. /\ ingest \in [Ingesters -> [at : {"idle"}]]
      /\ \A f \in Files : reports[f] = Null /\ \A k \in Lines(f) : applied[f][k] = 0
      /\ DOMAIN applied = Files /\ \A f \in Files : applied[f] \in [Lines(f) -> Nat]
      /\ reports \in [Files -> {Null}]
  BY DEF Init
<1>3. TypeOK BY <1>1, <1>2, CrashAssumption DEF Init, TypeOK
<1>4. PayInv
  BY DEF Init, PayInit, PayInv, HeardFromBank, InHand, RecordedFirst, Known, NotFound
<1>5. \A i \in Ingesters : ~Working(i) BY <1>2 DEF Working
<1>6. \A i \in Ingesters : Progress(i) BY <1>5 DEF Progress
<1>7. IssuedIsSaid /\ Alone /\ Unclaimed /\ AppliedOnce /\ CountIsTrue
  BY <1>2, <1>5 DEF Init, IssuedIsSaid, Alone, Unclaimed, AppliedOnce, CountIsTrue
<1>8. QED BY <1>3, <1>4, <1>6, <1>7 DEF IInv, FileInv

LEMMA NextKeeps ==
  ASSUME TypeOK, IInv, [Next]_vars
  PROVE  TypeOK' /\ IInv'
<1>1. PayTypeOK /\ PayInv /\ FileInv BY DEF TypeOK, IInv
<1>2. CASE PayNext /\ UNCHANGED repVars
  <2>1. PayKept BY <1>1, <1>2, PayNextKeeps
  <2>2. FileInv' BY <1>1, <1>2, <2>1, SameFiles DEF PayKept, repVars
  <2>3. TypeOK' BY <1>2, <2>1 DEF PayKept, TypeOK, repVars
  <2>4. QED BY <2>1, <2>2, <2>3 DEF PayKept, IInv
<1>3. CASE UNCHANGED vars
  <2>1. UNCHANGED <<payVars, repVars>> BY <1>3 DEF vars
  <2>2. PayTypeOK' /\ PayInv'
    BY <1>1, <2>1 DEF PayTypeOK, PayInv, HeardFromBank, InHand, RecordedFirst, Known,
                      GivenUp, payVars, procVars
  <2>3. FileInv' BY <1>1, <2>1, SameFiles DEF payVars, repVars
  <2>4. TypeOK' BY <2>1, <2>2 DEF TypeOK, repVars
  <2>5. QED BY <2>2, <2>3, <2>4 DEF IInv
<1>4. ASSUME UNCHANGED payVars PROVE PayTypeOK' /\ PayInv'
  BY <1>1, <1>4 DEF PayTypeOK, PayInv, HeardFromBank, InHand, RecordedFirst, Known,
                    GivenUp, payVars, procVars
<1>5. ASSUME NEW f \in Files, Issue(f) PROVE TypeOK' /\ IInv'
  <2>1. PayTypeOK' /\ PayInv' BY <1>4, <1>5 DEF Issue
  <2>2. FileInv' BY <1>1, <1>5, IssueKeeps
  <2>3. TypeOK' BY <1>5, <2>1 DEF Issue, TypeOK
  <2>4. QED BY <2>1, <2>2, <2>3 DEF IInv
<1>6. CASE Crash
  <2>1. PayKept BY <1>1, <1>6, CrashKeeps DEF Crash
  <2>2. FileInv' BY <1>1, <1>6, CrashKeepsFiles
  <2>3. crashes' \in 0 .. MaxCrashes BY <1>6, CrashAssumption DEF Crash, TypeOK
  <2>4. TypeOK' BY <1>6, <2>1, <2>3 DEF PayKept, Crash, TypeOK
  <2>5. QED BY <2>1, <2>2, <2>4 DEF PayKept, IInv
<1>7. ASSUME NEW i \in Ingesters, NEW f \in Files, NEW type, Claim(i, f, type)
      PROVE  TypeOK' /\ IInv'
  <2>1. PayInv' BY <1>4, <1>7 DEF Claim
  <2>2. QED BY <1>1, <1>7, <2>1, ClaimKeeps DEF IInv
<1>8. ASSUME NEW i \in Ingesters, NEW f \in Files, Refuse(i, f) PROVE TypeOK' /\ IInv'
  <2>1. PayTypeOK' /\ PayInv' BY <1>4, <1>8 DEF Refuse
  <2>2. FileInv' BY <1>1, <1>8, SameFiles DEF Refuse, payVars
  <2>3. TypeOK' BY <1>8, <2>1 DEF Refuse, TypeOK
  <2>4. QED BY <2>1, <2>2, <2>3 DEF IInv
<1>9. ASSUME NEW i \in Ingesters, ApplyLine(i) PROVE TypeOK' /\ IInv'
  BY <1>1, <1>9, ApplyKeeps DEF IInv
<1>10. ASSUME NEW i \in Ingesters, PublishLine(i) PROVE TypeOK' /\ IInv'
  <2>1. PayInv' BY <1>4, <1>10 DEF PublishLine
  <2>2. QED BY <1>1, <1>10, <2>1, PublishKeeps DEF IInv
<1>11. ASSUME NEW i \in Ingesters, MarkProcessed(i) \/ MarkFailed(i) PROVE TypeOK' /\ IInv'
  <2>1. PayInv' BY <1>4, <1>11 DEF MarkProcessed, MarkFailed, CloseReport
  <2>2. QED BY <1>1, <1>11, <2>1, CloseKeeps DEF IInv
<1>12. QED
  BY <1>2, <1>3, <1>5, <1>6, <1>7, <1>8, <1>9, <1>10, <1>11
     DEF Next, Ingest, IngestFile, IngestFromReader

LEMMA Invariant == Spec => [](TypeOK /\ IInv)
BY InitHolds, NextKeeps, PTL DEF Spec

-----------------------------------------------------------------------------
(***************************************************************************)
(* Theorems.                                                               *)
(***************************************************************************)
\* The variables keep the types of their Go and SQL counterparts.
THEOREM TypeCorrect == Spec => []TypeOK
BY Invariant, PTL

\* However often and however concurrently files are ingested, and however often
\* the process dies meanwhile, no line of a file is stored twice.
THEOREM LinesAppliedOnce == Spec => []AppliedOnce
<1>1. IInv => AppliedOnce BY DEF IInv, FileInv
<1>2. QED BY <1>1, Invariant, PTL

\* No report is closed with more lines than were stored of its file.
THEOREM CountsAreTrue == Spec => []CountIsTrue
<1>1. IInv => CountIsTrue BY DEF IInv, FileInv
<1>2. QED BY <1>1, Invariant, PTL

-----------------------------------------------------------------------------
(***************************************************************************)
(* The provider implements BankTransfers.                                  *)
(***************************************************************************)
LEMMA Stutter ==
  ASSUME UNCHANGED <<row, said, announced, reversed>>, GivenUp' = GivenUp
  PROVE  UNCHANGED Transfers!vars
BY DEF Transfers!vars, GivenUp

LEMMA RecordStep ==
  ASSUME NEW p \in Payments, NEW s \in said[p], s \in SEPAStatus, Known(p),
         row' = UpdateStatus(p, s), UNCHANGED <<said, announced, reversed>>,
         GivenUp' = GivenUp
  PROVE  Transfers!Next
<1>1. Transfers!Record(p, s)
  BY DEF Transfers!Record, Known, NotFound, UpdateStatus, GivenUp
<1>2. QED BY <1>1 DEF Transfers!Next

LEMMA SayStep ==
  ASSUME NEW p \in Payments, NEW s \in SEPAStatus, Known(p),
         said' = [said EXCEPT ![p] = @ \cup {s}], UNCHANGED <<row, announced, reversed>>,
         GivenUp' = GivenUp
  PROVE  Transfers!Next
<1>1. Transfers!Say(p, s) BY DEF Transfers!Say, Known, NotFound, GivenUp
<1>2. QED BY <1>1 DEF Transfers!Next

LEMMA SubmitRefines ==
  ASSUME TypeOK, IInv, NEW p \in Payments, Submit(p), UNCHANGED announced
  PROVE  [Transfers!Next]_Transfers!vars
<1>1. PayTypeOK /\ PayInv BY DEF TypeOK, IInv
<1>2. UNCHANGED <<said, reversed>>
  BY DEF Submit, Create, Send, Answered, SubmitFails, RecordAnswer, RecordFailure
<1>3. ASSUME submit[p].at # "gaveUp", submit'[p].at # "gaveUp",
             \A q \in Payments : q # p => submit'[q] = submit[q]
      PROVE  GivenUp' = GivenUp
  BY <1>3 DEF GivenUp
<1>4. CASE Create(p)
  <2>1. GivenUp' = GivenUp BY <1>1, <1>3, <1>4 DEF Create, To, PayTypeOK
  <2>2. row[p] = NotFound BY <1>1, <1>4 DEF Create, PayInv, RecordedFirst, Known
  <2>3. row' = row \/ row' = [row EXCEPT ![p] = "SUBMITTED"]
    BY <1>4 DEF Create, OrFails, UpdateStatus
  <2>4. CASE row' = row BY <1>2, <2>1, <2>4, Stutter
  <2>5. CASE row' = [row EXCEPT ![p] = "SUBMITTED"]
    <3>1. Transfers!Open(p) BY <1>2, <2>1, <2>2, <2>5 DEF Transfers!Open, NotFound, GivenUp
    <3>2. QED BY <3>1 DEF Transfers!Next
  <2>6. QED BY <2>3, <2>4, <2>5
<1>5. CASE Send(p) \/ Answered(p) \/ SubmitFails(p)
  <2>1. UNCHANGED row BY <1>5 DEF Send, Answered, SubmitFails
  <2>2. GivenUp' = GivenUp
    BY <1>1, <1>3, <1>5 DEF Send, Answered, SubmitFails, To, PayTypeOK
  <2>3. QED BY <1>2, <2>1, <2>2, Stutter
<1>6. CASE RecordAnswer(p)
  <2>1. submit[p].status \in said[p] /\ submit[p].status \in SEPAStatus /\ Known(p)
    BY <1>1, <1>6 DEF RecordAnswer, PayTypeOK, PayInv, RecordedFirst, HeardFromBank
  <2>2. GivenUp' = GivenUp BY <1>1, <1>3, <1>6 DEF RecordAnswer, To, PayTypeOK
  <2>3. row' = row \/ row' = UpdateStatus(p, submit[p].status)
    BY <1>6 DEF RecordAnswer, OrFails
  <2>4. QED BY <1>2, <2>1, <2>2, <2>3, Stutter, RecordStep
<1>7. CASE RecordFailure(p)
  <2>1. Known(p) /\ submit[p].at = "failing"
    BY <1>1, <1>7 DEF RecordFailure, PayInv, RecordedFirst
  <2>2. CASE UNCHANGED row /\ To(p, "done")
    <3>1. GivenUp' = GivenUp BY <1>1, <1>3, <2>1, <2>2 DEF To, PayTypeOK
    <3>2. QED BY <1>2, <2>2, <3>1, Stutter
  <2>3. CASE row' = MarkRejected(p) /\ To(p, "gaveUp")
    <3>1. GivenUp' = GivenUp \cup {p} /\ p \notin GivenUp
      BY <1>1, <2>1, <2>3 DEF To, PayTypeOK, GivenUp
    <3>2. Transfers!GiveUp(p)
      BY <1>2, <2>1, <2>3, <3>1
         DEF Transfers!GiveUp, MarkRejected, UpdateStatus, GivenUp, Known, NotFound
    <3>3. QED BY <3>2 DEF Transfers!Next
  <2>4. QED BY <1>7, <2>2, <2>3 DEF RecordFailure
<1>8. QED BY <1>4, <1>5, <1>6, <1>7 DEF Submit

LEMMA RecallRefines ==
  ASSUME TypeOK, IInv, NEW c \in Recalls, CheckRecall(c) \/ AskRecall(c) \/ RecordRecall(c),
         UNCHANGED announced
  PROVE  [Transfers!Next]_Transfers!vars
<1>1. PayTypeOK /\ PayInv BY DEF TypeOK, IInv
<1>2. UNCHANGED <<submit, reversed>> /\ GivenUp' = GivenUp
  BY DEF CheckRecall, AskRecall, RecordRecall, GivenUp
<1>3. CASE CheckRecall(c) BY <1>2, <1>3, Stutter DEF CheckRecall
<1>4. CASE AskRecall(c)
  <2> DEFINE p == recall[c].payment
  <2>1. p \in Payments /\ UNCHANGED row BY <1>1, <1>4 DEF AskRecall, PayTypeOK
  <2>2. \/ UNCHANGED said
        \/ /\ bank[p] \in {"ACCEPTED", "SETTLED"}
           /\ said' = [said EXCEPT ![p] = @ \cup {"RECALLED"}]
    BY <1>4 DEF AskRecall
  <2> HIDE DEF p
  <2>3. CASE UNCHANGED said BY <1>2, <2>1, <2>3, Stutter
  <2>4. CASE /\ bank[p] \in {"ACCEPTED", "SETTLED"}
             /\ said' = [said EXCEPT ![p] = @ \cup {"RECALLED"}]
    <3>1. Known(p) /\ "RECALLED" \in SEPAStatus
      BY <1>1, <2>1, <2>4 DEF PayInv, RecordedFirst, SEPAStatus
    <3>2. QED BY <1>2, <2>1, <2>4, <3>1, SayStep
  <2>5. QED BY <2>2, <2>3, <2>4
<1>5. CASE RecordRecall(c)
  <2>1. recall[c].payment \in Payments /\ "RECALLED" \in said[recall[c].payment]
    BY <1>1, <1>5 DEF RecordRecall, PayTypeOK, PayInv, InHand
  <2>2. Known(recall[c].payment) /\ "RECALLED" \in SEPAStatus
    BY <1>1, <2>1, SaidIsKnown DEF SEPAStatus
  <2>3. UNCHANGED said /\ (row' = row \/ row' = UpdateStatus(recall[c].payment, "RECALLED"))
    BY <1>5 DEF RecordRecall, OrFails, MarkRecalled
  <2>4. QED BY <1>2, <2>1, <2>2, <2>3, Stutter, RecordStep
<1>6. QED BY <1>3, <1>4, <1>5

LEMMA ReturnRefines ==
  ASSUME TypeOK, IInv, NEW n \in Returns, HandleReturn(n) \/ NotifyFunding(n),
         UNCHANGED announced
  PROVE  [Transfers!Next]_Transfers!vars
<1>1. PayTypeOK /\ PayInv BY DEF TypeOK, IInv
<1>2. UNCHANGED <<submit, said>> /\ GivenUp' = GivenUp
  BY DEF HandleReturn, NotifyFunding, GivenUp
<1>3. CASE HandleReturn(n)
  <2>1. PICK p \in Payments : "RETURNED" \in said[p] /\ row' \in {row, MarkReturned(p)}
    BY <1>3 DEF HandleReturn
  <2>2. Known(p) /\ "RETURNED" \in SEPAStatus BY <1>1, <2>1, SaidIsKnown DEF SEPAStatus
  <2>3. UNCHANGED reversed /\ (row' = row \/ row' = UpdateStatus(p, "RETURNED"))
    BY <1>3, <2>1 DEF HandleReturn, MarkReturned
  <2>4. QED BY <1>2, <2>1, <2>2, <2>3, Stutter, RecordStep
<1>4. CASE NotifyFunding(n)
  <2> DEFINE p == return[n].payment
  <2>1. p \in Payments /\ "RETURNED" \in said[p] /\ UNCHANGED row
    BY <1>1, <1>4 DEF NotifyFunding, PayTypeOK, PayInv, InHand
  <2>2. reversed' = reversed \/ reversed' = reversed \cup {p} BY <1>4 DEF NotifyFunding
  <2> HIDE DEF p
  <2>3. CASE reversed' = reversed BY <1>2, <2>1, <2>3, Stutter
  <2>4. CASE reversed' = reversed \cup {p}
    <3>1. Transfers!Reverse(p) BY <1>2, <2>1, <2>4 DEF Transfers!Reverse, GivenUp
    <3>2. QED BY <2>1, <3>1 DEF Transfers!Next
  <2>5. QED BY <2>2, <2>3, <2>4
<1>5. QED BY <1>3, <1>4

\* A line that is stored records what the bank has said, and its publication
\* announces it.
LEMMA LineRefines ==
  ASSUME TypeOK, IInv, NEW i \in Ingesters, ApplyLine(i) \/ PublishLine(i)
  PROVE  [Transfers!Next]_Transfers!vars
<1>1. Working(i) /\ UNCHANGED <<submit, said, reversed>> /\ GivenUp' = GivenUp
  BY DEF ApplyLine, PublishLine, Working, procVars, payVars, GivenUp
<1>2. PICK f \in Files : f = ingest[i].file BY <1>1, WorkingType DEF IInv
<1>3. ingest[i].todo # {} BY DEF ApplyLine, PublishLine, IInv, FileInv, Progress, Working
<1>4. PICK k \in ingest[i].todo :
        /\ k = NextLine(i) /\ k = First(ingest[i].todo)
        /\ Line(i).payment = PaymentOf(f, k)
        /\ k \in Lines(f) /\ StatusOf(i) = Says(f, k)
        /\ StatusOf(i) \in SEPAStatus
        /\ PaymentOf(f, k) \in Payments => StatusOf(i) \in said[PaymentOf(f, k)]
  BY <1>1, <1>2, <1>3, NextLineType DEF IInv
<1> DEFINE p == Line(i).payment
           s == StatusOf(i)
<1>5. CASE ApplyLine(i)
  <2>1. /\ UNCHANGED announced
        /\ row' = row \/ (Updatable(p, s) /\ row' = UpdateStatus(p, s))
    BY <1>5 DEF ApplyLine, StoreLine
  <2>2. Updatable(p, s) => p \in Payments /\ Known(p) /\ s \in said[p] /\ s \in SEPAStatus
    BY <1>2, <1>4, LinesType DEF Updatable, Known
  <2> HIDE DEF p, s
  <2>3. QED BY <1>1, <2>1, <2>2, Stutter, RecordStep
<1>6. CASE PublishLine(i)
  <2>1. UNCHANGED row /\ announced' \in {announced, announced \cup {<<p, s>>}}
    BY <1>6 DEF PublishLine, payVars
  <2>2. p \in Payments /\ Terminal(s)
    BY <1>2, <1>4, <1>6 DEF PublishLine, IInv, FileInv, Progress, Working
  <2>3. s \in said[p] \cap {"SETTLED", "REJECTED"} /\ s \in SEPAStatus
    BY <1>4, <2>2 DEF Terminal
  <2> HIDE DEF p, s
  <2>4. CASE announced' = announced BY <1>1, <2>1, <2>4, Stutter
  <2>5. CASE announced' = announced \cup {<<p, s>>}
    <3>1. Transfers!Announce(p, s)
      BY <1>1, <2>1, <2>3, <2>5 DEF Transfers!Announce, GivenUp
    <3>2. QED BY <2>2, <2>3, <3>1 DEF Transfers!Next
  <2>6. QED BY <2>1, <2>4, <2>5
<1>7. QED BY <1>5, <1>6

LEMMA NextRefines ==
  ASSUME TypeOK, IInv, [Next]_vars
  PROVE  [Transfers!Next]_Transfers!vars
<1>1. ASSUME UNCHANGED <<row, submit, said, announced, reversed>>
      PROVE  UNCHANGED Transfers!vars
  BY <1>1, Stutter DEF GivenUp
<1>2. CASE PayNext /\ UNCHANGED repVars
  <2>1. UNCHANGED announced BY <1>2 DEF repVars
  <2>2. ASSUME NEW p \in Payments, BankMoves(p) PROVE Transfers!Next
    <3>1. PICK s \in Moves(bank[p]) : said' = [said EXCEPT ![p] = @ \cup {s}]
      BY <2>2 DEF BankMoves
    <3>2. s \in SEPAStatus /\ bank[p] # "none" BY DEF Moves, SEPAStatus
    <3>3. Known(p) BY <3>2 DEF IInv, PayInv, RecordedFirst
    <3>4. UNCHANGED <<row, reversed>> /\ GivenUp' = GivenUp
      BY <2>2 DEF BankMoves, procVars, GivenUp
    <3>5. QED BY <2>1, <3>1, <3>2, <3>3, <3>4, SayStep
  <2>3. QED BY <1>2, <2>1, <2>2, SubmitRefines, RecallRefines, ReturnRefines DEF PayNext
<1>3. CASE Crash
  <2>1. UNCHANGED <<row, said, announced, reversed>> BY <1>3 DEF Crash, PayCrash
  <2>2. GivenUp' = GivenUp BY <1>3 DEF Crash, PayCrash, GivenUp
  <2>3. QED BY <2>1, <2>2, Stutter
<1>4. CASE \E i \in Ingesters : ApplyLine(i) \/ PublishLine(i) BY <1>4, LineRefines
<1>5. CASE \/ UNCHANGED vars
           \/ \E f \in Files : Issue(f)
           \/ \E i \in Ingesters : \/ \E f \in Files : \/ Refuse(i, f)
                                                     \/ \E type : Claim(i, f, type)
                                   \/ MarkProcessed(i) \/ MarkFailed(i)
  <2>1. UNCHANGED <<row, submit, said, announced, reversed>>
    BY <1>5 DEF vars, payVars, procVars, repVars, Issue, Refuse, Claim, MarkProcessed,
                MarkFailed, CloseReport
  <2>2. QED BY <1>1, <2>1
<1>6. QED BY <1>2, <1>3, <1>4, <1>5 DEF Next, Ingest, IngestFile, IngestFromReader

\* Every behaviour of the provider and its report files, with faults and crashes,
\* is one of the abstract transfers: files, answers, recalls and returns reach the
\* row in any order, and it shows only what the bank has said.
THEOREM SEPAKeepsPromise == Spec => ImplementsBankTransfers
<1>1. Init => Transfers!Init BY DEF Init, PayInit, Transfers!Init, NotFound
<1>2. QED BY <1>1, NextRefines, Invariant, PTL DEF Spec, ImplementsBankTransfers, Transfers!Spec
=============================================================================
