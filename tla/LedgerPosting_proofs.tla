------------------------ MODULE LedgerPosting_proofs ------------------------
(***************************************************************************)
(* Proofs about LedgerPosting, for every set of accounts and requests,     *)
(* every word size, both schema variants, with and without faults; and     *)
(* about MoneyArithmetic, which shares with it int64 and the facts about   *)
(* sums and wrapping.                                                      *)
(***************************************************************************)
EXTENDS LedgerPosting, MoneyArithmetic, FiniteSetTheorems, WellFoundedInduction, TLAPS

\* int64 arithmetic yields an int64.
LEMMA WrapType == ASSUME NEW n \in Int PROVE Wrap(n) \in Int64
<1>1. (n + Int64Half) % (2 * Int64Half) \in 0 .. (2 * Int64Half - 1)
  BY Int64Assumption
<1>2. QED BY <1>1, Int64Assumption DEF Wrap, Int64

\* A posted row holds an int64.
LEMMA ApplyType ==
  ASSUME NEW balance \in Int64, NEW line,
         line.amount \in Int64
  PROVE  Apply(balance, line) \in Int64
<1>1. Delta(line) \in Int BY Int64Assumption DEF Delta, Int64
<1>2. balance + Delta(line) \in Int BY <1>1, Int64Assumption DEF Int64
<1>3. QED BY <1>2, WrapType DEF Apply

-----------------------------------------------------------------------------
(***************************************************************************)
(* Type correctness.                                                       *)
(***************************************************************************)
\* The current balance of an account, read in a well-typed table, is an int64.
LEMMA CurrentBalanceType ==
  ASSUME NEW table \in [Requests -> Seq(RowType)], NEW account
  PROVE  CurrentBalance(table, account) \subseteq Int64
<1>1. 0 \in Int64 BY Int64Assumption DEF Int64
<1>2. ASSUME NEW e \in Balanced(table, account)
      PROVE  table[e[1]][e[2]].balanceAfter \in Int64
  <2>1. PICK r \in Requests : \E i \in DOMAIN table[r] :
          e = <<r, i>> /\ table[e[1]][e[2]].balanceAfter # Null
    BY DEF Balanced
  <2>2. table[r] \in Seq(RowType) OBVIOUS
  <2>3. table[e[1]][e[2]] \in RowType BY <2>1, <2>2
  <2>4. QED BY <2>1, <2>3 DEF RowType
<1>3. QED BY <1>1, <1>2 DEF CurrentBalance

\* What a posting transaction reads is a well-typed table.
LEMMA ViewType ==
  ASSUME TypeOK, NEW r \in Requests
  PROVE  View(r) \in [Requests -> Seq(RowType)]
BY DEF TypeOK, View

\* What a reader scans of a sequence of rows: rows, and a prefix of them.
LEMMA ScannedType ==
  ASSUME NEW S, NEW rows \in Seq(S), NEW scanned \in Scanned(rows)
  PROVE  scanned \in Seq(S) /\ scanned \in Prefixes(rows)
<1>1. rows = SubSeq(rows, 1, Len(rows)) OBVIOUS
<1>2. Len(rows) \in 0 .. Len(rows) OBVIOUS
<1>3. rows \in Prefixes(rows) BY <1>1, <1>2 DEF Prefixes
<1>4. scanned \in Prefixes(rows) BY <1>3 DEF Scanned
<1>5. PICK n \in 0 .. Len(rows) : scanned = SubSeq(rows, 1, n)
  BY <1>4 DEF Prefixes
<1>6. \A i \in 1 .. n : rows[i] \in S OBVIOUS
<1>7. SubSeq(rows, 1, n) \in Seq(S) BY <1>6
<1>8. QED BY <1>4, <1>5, <1>7

\* The row of a line is a row of the table.
LEMMA RowHasType ==
  ASSUME NEW line \in Line, line.account \in Accounts, NEW stamp \in 0 .. MaxClock
  PROVE  Row(line, stamp) \in RowType
BY DEF Row, RowType, Line

\* The initial state is well typed.
LEMMA InitType == Init => TypeOK
BY ClockAssumption DEF Init, TypeOK, ReaderType

\* Every step keeps the types.
LEMMA NextType == TypeOK /\ [Next]_vars => TypeOK'
<1> SUFFICES ASSUME TypeOK, [Next]_vars PROVE TypeOK'
  OBVIOUS
<1>1. CASE Tick
  BY <1>1, ClockAssumption DEF Tick, TypeOK, dbVars, envVars, txVars
<1>2. CASE Crash
  <2>1. phase' \in [Requests -> {"idle"} \cup InFlight \cup Answers]
    BY <1>2 DEF Crash, TypeOK, Answers, InFlight
  <2>2. /\ request' \in [Requests -> Seq(Line)]
        /\ since' \in [Requests -> 0 .. MaxClock]
    BY <1>2, ClockAssumption DEF Crash
  <2>3. /\ snapshot' \in [Requests -> SUBSET Requests]
        /\ work' \in [Requests -> Seq(RowType)]
    BY <1>2 DEF Crash
  <2>4. reader' \in [Readers -> ReaderType]
    BY <1>2 DEF Crash, TypeOK, ReaderType
  <2>5. UNCHANGED <<dbVars, envVars>> BY <1>2 DEF Crash
  <2>6. QED BY <2>1, <2>2, <2>3, <2>4, <2>5 DEF TypeOK, dbVars, envVars
<1>3. ASSUME NEW r \in Requests, Receive(r) PROVE TypeOK'
  <2>1. UNCHANGED <<envVars, dbVars, txVars, reader>> BY <1>3 DEF Receive
  <2>2. PICK lines \in Inputs :
          IF ValidInput(lines)
          THEN /\ phase' = [phase EXCEPT ![r] = "received"]
               /\ request' = [request EXCEPT ![r] = lines]
               /\ since' = [since EXCEPT ![r] = clock]
          ELSE /\ phase' = [phase EXCEPT ![r] = "400"]
               /\ UNCHANGED <<request, since>>
    BY <1>3 DEF Receive
  <2>3. lines \in Seq(Line) BY InputsAssumption
  <2>4. phase' \in [Requests -> {"idle"} \cup InFlight \cup Answers]
    BY <2>2 DEF TypeOK, InFlight, Answers
  <2>5. request' \in [Requests -> Seq(Line)] BY <2>2, <2>3 DEF TypeOK
  <2>6. since' \in [Requests -> 0 .. MaxClock] BY <2>2 DEF TypeOK
  <2>7. QED
    BY <2>1, <2>4, <2>5, <2>6 DEF TypeOK, dbVars, envVars, txVars
<1>4. ASSUME NEW r \in Requests, CreateBatch(r) PROVE TypeOK'
  <2>1. entries' \in [Requests -> Seq(RowType)]
    <3>1. PICK stamp \in Stamps(r) :
            entries' = [entries EXCEPT ![r] =
              [i \in DOMAIN request[r] |-> Row(request[r][i], stamp[i])]]
      BY <1>4 DEF CreateBatch
    <3>2. request[r] \in Seq(Line) BY DEF TypeOK
    <3>3. \A i \in DOMAIN request[r] : Row(request[r][i], stamp[i]) \in RowType
      <4> SUFFICES ASSUME NEW i \in DOMAIN request[r]
                   PROVE  Row(request[r][i], stamp[i]) \in RowType
        OBVIOUS
      <4>1. request[r][i] \in Line BY <3>2
      <4>2. request[r][i].account \in Accounts
        BY <1>4 DEF CreateBatch, Creatable
      <4>3. stamp[i] \in 0 .. MaxClock
        <5>1. stamp[i] \in since[r] .. clock BY <3>1 DEF Stamps
        <5>2. since[r] \in 0 .. MaxClock /\ clock \in 0 .. MaxClock BY DEF TypeOK
        <5>3. QED BY <5>1, <5>2, ClockAssumption
      <4>4. QED BY <4>1, <4>2, <4>3, RowHasType
    <3>4. [i \in DOMAIN request[r] |-> Row(request[r][i], stamp[i])] \in Seq(RowType)
      BY <3>2, <3>3
    <3>5. QED BY <3>1, <3>4 DEF TypeOK
  <2>2. late' \subseteq Requests \X Requests BY <1>4 DEF CreateBatch, TypeOK
  <2>3. /\ phase' \in [Requests -> {"idle"} \cup InFlight \cup Answers]
        /\ request' \in [Requests -> Seq(Line)]
        /\ since' \in [Requests -> 0 .. MaxClock]
        /\ batches' \in [Requests -> {"absent", "pending", "posted"}]
    BY <1>4, ClockAssumption DEF CreateBatch, Forget, TypeOK, InFlight, Answers
  <2>4. QED
    BY <1>4, <2>1, <2>2, <2>3 DEF CreateBatch, TypeOK, txVars
<1>5. ASSUME NEW r \in Requests, CreateBatchFails(r) PROVE TypeOK'
  BY <1>5, ClockAssumption
  DEF CreateBatchFails, Forget, TypeOK, dbVars, envVars, txVars, InFlight, Answers
<1>6. ASSUME NEW r \in Requests, BeginPost(r) PROVE TypeOK'
  BY <1>6 DEF BeginPost, Posted, TypeOK, dbVars, envVars, InFlight, Answers
<1>7. ASSUME NEW r \in Requests, PostEntry(r) PROVE TypeOK'
  <2> DEFINE i == Len(work[r]) + 1
             row == entries[r][i]
  <2>1. PICK current \in CurrentBalance(View(r), row.account) :
          work' = [work EXCEPT ![r] = Append(@, PostedRow(row, current))]
    BY <1>7 DEF PostEntry
  <2>2. row \in RowType
    <3>1. i \in DOMAIN entries[r] BY <1>7 DEF PostEntry
    <3>2. entries[r] \in Seq(RowType) BY DEF TypeOK
    <3>3. QED BY <3>1, <3>2
  <2>3. Apply(current, row) \in Int64
    BY <2>2, ViewType, CurrentBalanceType, ApplyType DEF RowType
  <2>4. PostedRow(row, current) \in RowType
    BY <2>2, <2>3 DEF RowType, PostedRow
  <2>5. work' \in [Requests -> Seq(RowType)]
    <3>1. work[r] \in Seq(RowType) BY DEF TypeOK
    <3>2. QED BY <2>1, <2>4, <3>1 DEF TypeOK
  <2>6. QED BY <1>7, <2>5 DEF PostEntry, TypeOK, dbVars, envVars
<1>8. ASSUME NEW r \in Requests, CommitPost(r) PROVE TypeOK'
  <2>1. entries' \in [Requests -> Seq(RowType)]
    BY <1>8 DEF CommitPost, UpdateRows, TypeOK
  <2>2. batches' \in [Requests -> {"absent", "pending", "posted"}]
    BY <1>8 DEF CommitPost, TypeOK
  <2>3. journal' \in Seq(Requests) BY <1>8 DEF CommitPost, TypeOK
  <2>4. phase' \in [Requests -> {"idle"} \cup InFlight \cup Answers]
    BY <1>8 DEF CommitPost, TypeOK, InFlight, Answers
  <2>5. snapshot' \in [Requests -> SUBSET Requests] /\ work' \in [Requests -> Seq(RowType)]
    BY <1>8 DEF CommitPost, EndTransaction, TypeOK
  <2>6. QED
    BY <1>8, <2>1, <2>2, <2>3, <2>4, <2>5 DEF CommitPost, TypeOK, envVars
<1>9. ASSUME NEW r \in Requests, PostFails(r) PROVE TypeOK'
  BY <1>9 DEF PostFails, OnPostError, EndTransaction, Rollback, TypeOK,
              dbVars, envVars, InFlight, Answers
<1>10. ASSUME NEW r \in Requests, Fetch(r) PROVE TypeOK'
  BY <1>10 DEF Fetch, TypeOK, dbVars, envVars, txVars, InFlight, Answers
<1>11. ASSUME NEW c \in Readers, NEW r \in Requests, ReadBatch(c, r) PROVE TypeOK'
  BY <1>11 DEF ReadBatch, TypeOK, dbVars, envVars, txVars, ReaderType
<1>12. ASSUME NEW c \in Readers, ReadEntries(c) PROVE TypeOK'
  <2> DEFINE read == entries[reader[c].batch]
  <2>1. reader[c].batch \in Requests /\ reader[c].status \in {"pending", "posted"}
    BY <1>12 DEF ReadEntries, TypeOK, ReaderType
  <2>2. PICK rows \in Scanned(read) :
          reader' = [reader EXCEPT ![c] =
                      [at |-> "answered", batch |-> @.batch, status |-> @.status,
                       rows |-> rows]]
    BY <1>12 DEF ReadEntries
  <2>3. rows \in Seq(RowType)
    <3>1. read \in Seq(RowType) BY <2>1 DEF TypeOK
    <3>2. QED BY <3>1, ScannedType
  <2>4. reader' \in [Readers -> ReaderType]
    BY <2>1, <2>2, <2>3 DEF TypeOK, ReaderType
  <2>5. QED
    BY <1>12, <2>4 DEF ReadEntries, TypeOK, dbVars, envVars, txVars
<1>13. ASSUME NEW c \in Readers, ReadFails(c) PROVE TypeOK'
  BY <1>13 DEF ReadFails, TypeOK, dbVars, envVars, txVars, ReaderType
<1>14. CASE UNCHANGED vars
  BY <1>14 DEF vars, TypeOK, dbVars, envVars, txVars
<1>15. QED
  BY <1>1, <1>2, <1>3, <1>4, <1>5, <1>6, <1>7, <1>8, <1>9, <1>10, <1>11, <1>12,
     <1>13, <1>14 DEF Next, Serve

\* Every variable keeps the type of its Go or SQL counterpart, whatever fails
\* and however the requests interleave.
THEOREM TypeCorrect == Spec => []TypeOK
<1>1. QED BY InitType, NextType, PTL DEF Spec

-----------------------------------------------------------------------------
(***************************************************************************)
(* The inductive invariant.  What matters in it: the rows a transaction    *)
(* has computed stay legal while other requests move, because a posting    *)
(* transaction sees only posted batches and those no longer change.        *)
(***************************************************************************)
\* Two tables with the same posted entries on an account give it the same balance.
LEMMA SameBalance ==
  ASSUME NEW t1, NEW t2, NEW account,
         \A q \in Requests :
           \/ t1[q] = t2[q]
           \/ /\ \A i \in DOMAIN t1[q] : t1[q][i].account = account => ~HasBalance(t1[q][i])
              /\ \A i \in DOMAIN t2[q] : t2[q][i].account = account => ~HasBalance(t2[q][i])
  PROVE  CurrentBalance(t1, account) = CurrentBalance(t2, account)
<1>1. ASSUME NEW q \in Requests, NEW i \in DOMAIN t1[q],
             t1[q][i].account = account, t1[q][i].balanceAfter # Null
      PROVE  t1[q] = t2[q]
  BY <1>1 DEF HasBalance
<1>2. ASSUME NEW q \in Requests, NEW i \in DOMAIN t2[q],
             t2[q][i].account = account, t2[q][i].balanceAfter # Null
      PROVE  t1[q] = t2[q]
  BY <1>2 DEF HasBalance
<1>3. Balanced(t1, account) = Balanced(t2, account)
  BY <1>1, <1>2 DEF Balanced
<1>4. \A e \in Balanced(t1, account) : t1[e[1]][e[2]] = t2[e[1]][e[2]]
  BY <1>1 DEF Balanced
<1>5. QED BY <1>3, <1>4 DEF CurrentBalance

\* The part of the invariant that concerns one request in a transaction is
\* untouched by steps that keep its own rows and the batches it sees.
LEMMA WorkStaysLegal ==
  ASSUME NEW r \in Requests, WorkIsLegal(r),
         work'[r] = work[r], snapshot'[r] = snapshot[r], entries'[r] = entries[r],
         \A q \in snapshot[r] : entries'[q] = entries[q]
  PROVE  WorkIsLegal(r)'
<1>1. View(r)' = View(r) BY DEF View
<1>2. QED BY <1>1 DEF WorkIsLegal

\* A first part of a sequence survives an append.
LEMMA SubSeqOfAppend ==
  ASSUME NEW S, NEW s \in Seq(S), NEW e, NEW n \in 1 .. Len(s) + 1
  PROVE  SubSeq(Append(s, e), 1, n - 1) = SubSeq(s, 1, n - 1)
<1>1. \A i \in 1 .. n - 1 : Append(s, e)[i] = s[i] OBVIOUS
<1>2. QED BY <1>1

\* A computed row is the stored row with an int64 balance.
LEMMA WorkRow ==
  ASSUME TypeOK, NEW r \in Requests, WorkIsLegal(r), NEW i \in 1 .. Len(work[r])
  PROVE  /\ i \in DOMAIN entries[r]
         /\ HasBalance(work[r][i])
         /\ SameLine(work[r][i], entries[r][i])
<1> DEFINE table == [View(r) EXCEPT ![r] = SubSeq(work[r], 1, i - 1)]
<1>1. work[r] \in Seq(RowType) /\ entries[r] \in Seq(RowType) BY DEF TypeOK
<1>2. i \in DOMAIN entries[r] BY <1>1 DEF WorkIsLegal
<1>3. entries[r][i] \in RowType BY <1>1, <1>2
<1>4. PICK current \in CurrentBalance(table, entries[r][i].account) :
        work[r][i] = PostedRow(entries[r][i], current)
  BY DEF WorkIsLegal
<1>5. SubSeq(work[r], 1, i - 1) \in Seq(RowType) BY <1>1
<1>6. table \in [Requests -> Seq(RowType)] BY <1>5, ViewType
<1>7. current \in Int64 BY <1>4, <1>6, CurrentBalanceType
<1>8. Apply(current, entries[r][i]) \in Int64 BY <1>3, <1>7, ApplyType DEF RowType
<1>9. Apply(current, entries[r][i]) # Null
  BY <1>8, NullAssumption, Int64Assumption DEF Int64
<1>10. HasBalance(work[r][i]) BY <1>3, <1>4, <1>9 DEF HasBalance, PostedRow, RowType
<1>11. SameLine(work[r][i], entries[r][i]) BY <1>3, <1>4 DEF SameLine, PostedRow, RowType
<1>12. QED BY <1>2, <1>10, <1>11

\* The invariant holds initially.
LEMMA InitInv == Init => IInv
BY DEF Init, IInv, PostedAllOrNothing, PhaseMatchesBatch, TransactionInv,
       InTransaction, ReaderInv

\* Every step keeps the invariant.
LEMMA NextInv == TypeOK /\ IInv /\ [Next]_vars => IInv'
<1> SUFFICES ASSUME TypeOK, IInv, [Next]_vars PROVE IInv'
  OBVIOUS
<1> USE DEF IInv
<1>1. ASSUME dbVars' = dbVars, txVars' = txVars, reader' = reader,
             \A q \in Requests : InTransaction(q)' <=> InTransaction(q)
      PROVE  PostedAllOrNothing' /\ TransactionInv' /\ ReaderInv'
  <2>1. PostedAllOrNothing' BY <1>1 DEF dbVars, PostedAllOrNothing
  <2>2. TransactionInv'
    <3>1. \A q \in Requests : WorkIsLegal(q) => WorkIsLegal(q)'
      BY <1>1, WorkStaysLegal DEF dbVars, envVars, txVars
    <3>2. QED BY <1>1, <3>1 DEF dbVars, envVars, txVars, TransactionInv, Posted
  <2>3. ReaderInv' BY <1>1 DEF dbVars, ReaderInv
  <2>4. QED BY <2>1, <2>2, <2>3
<1>2. CASE Tick
  <2>1. PhaseMatchesBatch' BY <1>2 DEF Tick, dbVars, PhaseMatchesBatch
  <2>2. QED BY <1>1, <1>2, <2>1 DEF Tick, InTransaction
<1>3. CASE Crash
  <2>1. PostedAllOrNothing' BY <1>3 DEF Crash, dbVars, PostedAllOrNothing
  <2>2. PhaseMatchesBatch' BY <1>3 DEF Crash, dbVars, PhaseMatchesBatch, InFlight, TypeOK
  <2>3. TransactionInv' BY <1>3 DEF Crash, TransactionInv, InTransaction, InFlight, TypeOK
  <2>4. ReaderInv' BY <1>3 DEF Crash, ReaderInv
  <2>5. QED BY <2>1, <2>2, <2>3, <2>4
<1>4. ASSUME NEW r \in Requests, Receive(r) PROVE IInv'
  <2>1. PhaseMatchesBatch' BY <1>4 DEF Receive, dbVars, PhaseMatchesBatch, TypeOK
  <2>2. QED BY <1>1, <1>4, <2>1 DEF Receive, InTransaction, TypeOK
<1>5. ASSUME NEW r \in Requests, CreateBatchFails(r) PROVE IInv'
  <2>1. PhaseMatchesBatch' BY <1>5 DEF CreateBatchFails, dbVars, PhaseMatchesBatch, TypeOK
  <2>2. QED BY <1>1, <1>5, <2>1 DEF CreateBatchFails, InTransaction, TypeOK
<1>6. ASSUME NEW r \in Requests, Fetch(r) PROVE IInv'
  <2>1. PhaseMatchesBatch' BY <1>6 DEF Fetch, dbVars, PhaseMatchesBatch, TypeOK
  <2>2. QED BY <1>1, <1>6, <2>1 DEF Fetch, InTransaction, TypeOK
<1>7. ASSUME NEW r \in Requests, CreateBatch(r) PROVE IInv'
  <2>1. batches[r] = "absent" BY <1>7 DEF CreateBatch, PhaseMatchesBatch
  <2>2. batches' = [batches EXCEPT ![r] = "pending"] BY <1>7 DEF CreateBatch
  <2>3. /\ DOMAIN entries'[r] # {}
        /\ \A i \in DOMAIN entries'[r] : ~HasBalance(entries'[r][i])
        /\ \A q \in Requests \ {r} : entries'[q] = entries[q]
    <3>1. PICK stamp \in Stamps(r) :
            entries' = [entries EXCEPT ![r] =
              [i \in DOMAIN request[r] |-> Row(request[r][i], stamp[i])]]
      BY <1>7 DEF CreateBatch
    <3>2. request[r] \in Seq(Line) /\ request[r] # <<>>
      BY <1>7 DEF CreateBatch, Creatable, BuildFails, TypeOK
    <3>3. 1 \in DOMAIN request[r] BY <3>2
    <3>4. entries'[r] = [i \in DOMAIN request[r] |-> Row(request[r][i], stamp[i])]
      BY <3>1 DEF TypeOK
    <3>5. \A i \in DOMAIN entries'[r] : ~HasBalance(entries'[r][i])
      BY <3>4 DEF HasBalance, Row
    <3>6. \A q \in Requests \ {r} : entries'[q] = entries[q] BY <3>1 DEF TypeOK
    <3>7. QED BY <3>3, <3>4, <3>5, <3>6
  <2>4. PostedAllOrNothing'
    <3>1. /\ batches'[r] = "pending"
          /\ \A q \in Requests \ {r} : batches'[q] = batches[q]
      BY <2>2 DEF TypeOK
    <3>2. QED BY <2>3, <3>1 DEF PostedAllOrNothing
  <2>5. PhaseMatchesBatch'
    BY <1>7, <2>2 DEF CreateBatch, PhaseMatchesBatch, TypeOK
  <2>6. TransactionInv'
    <3> SUFFICES ASSUME NEW q \in Requests
                 PROVE IF InTransaction(q)' THEN snapshot'[q] \subseteq Posted' /\ WorkIsLegal(q)'
                       ELSE snapshot'[q] = {} /\ work'[q] = <<>>
      BY DEF TransactionInv
    <3>1. InTransaction(q)' <=> InTransaction(q)
      BY <1>7 DEF CreateBatch, InTransaction, TypeOK
    <3>2. snapshot' = snapshot /\ work' = work BY <1>7 DEF CreateBatch, txVars
    <3>3. CASE ~InTransaction(q) BY <3>1, <3>2, <3>3 DEF TransactionInv
    <3>4. CASE InTransaction(q)
      <4>1. q # r BY <1>7, <3>4 DEF CreateBatch, InTransaction
      <4>2. snapshot[q] \subseteq Posted /\ WorkIsLegal(q) BY <3>4 DEF TransactionInv
      <4>3. r \notin Posted BY <2>1 DEF Posted
      <4>4. Posted \subseteq Posted' BY <2>1, <2>2 DEF Posted, TypeOK
      <4>5. \A p \in snapshot[q] : entries'[p] = entries[p]
        BY <2>3, <4>2, <4>3 DEF Posted
      <4>6. WorkIsLegal(q)' BY <2>3, <3>2, <4>1, <4>2, <4>5, WorkStaysLegal
      <4>7. QED BY <3>1, <3>2, <3>4, <4>2, <4>4, <4>6
    <3>5. QED BY <3>3, <3>4
  <2>7. ReaderInv'
    BY <1>7, <2>1, <2>2, <2>3 DEF CreateBatch, ReaderInv, TypeOK, ReaderType
  <2>8. QED BY <2>4, <2>5, <2>6, <2>7
<1>8. ASSUME NEW r \in Requests, BeginPost(r) PROVE IInv'
  <2>1. dbVars' = dbVars /\ reader' = reader /\ phase' = [phase EXCEPT ![r] = "posting"]
    BY <1>8 DEF BeginPost
  <2>2. PostedAllOrNothing' /\ ReaderInv'
    BY <2>1 DEF dbVars, PostedAllOrNothing, ReaderInv
  <2>3. PhaseMatchesBatch'
    BY <1>8, <2>1 DEF BeginPost, dbVars, PhaseMatchesBatch, TypeOK
  <2>4. TransactionInv'
    <3> SUFFICES ASSUME NEW q \in Requests
                 PROVE IF InTransaction(q)' THEN snapshot'[q] \subseteq Posted' /\ WorkIsLegal(q)'
                       ELSE snapshot'[q] = {} /\ work'[q] = <<>>
      BY DEF TransactionInv
    <3>1. CASE q = r
      <4>1. snapshot'[r] = Posted' /\ work'[r] = <<>>
        BY <1>8, <2>1 DEF BeginPost, TypeOK, Posted, dbVars
      <4>2. entries'[r] \in Seq(RowType) BY <2>1 DEF TypeOK, dbVars
      <4>3. WorkIsLegal(r)' BY <4>1, <4>2 DEF WorkIsLegal
      <4>4. QED BY <2>1, <3>1, <4>1, <4>3 DEF InTransaction, TypeOK
    <3>2. CASE q # r
      <4>1. snapshot'[q] = snapshot[q] /\ work'[q] = work[q] /\ phase'[q] = phase[q]
        BY <1>8, <3>2 DEF BeginPost, TypeOK
      <4>2. WorkIsLegal(q) => WorkIsLegal(q)'
        BY <2>1, <4>1, WorkStaysLegal DEF dbVars
      <4>3. QED BY <2>1, <4>1, <4>2 DEF TransactionInv, InTransaction, dbVars, Posted
    <3>3. QED BY <3>1, <3>2
  <2>5. QED BY <2>2, <2>3, <2>4
<1>9. ASSUME NEW r \in Requests, PostEntry(r) PROVE IInv'
  <2> DEFINE n == Len(work[r]) + 1
             row == entries[r][n]
  <2>1. phase' = phase /\ dbVars' = dbVars /\ snapshot' = snapshot /\ reader' = reader
    BY <1>9 DEF PostEntry
  <2>2. PICK current \in CurrentBalance(View(r), row.account) :
          work' = [work EXCEPT ![r] = Append(@, PostedRow(row, current))]
    BY <1>9 DEF PostEntry
  <2>3. PostedAllOrNothing' /\ PhaseMatchesBatch' /\ ReaderInv'
    BY <2>1 DEF dbVars, PostedAllOrNothing, PhaseMatchesBatch, ReaderInv
  <2>4. WorkIsLegal(r)'
    <3>1. work[r] \in Seq(RowType) /\ entries[r] \in Seq(RowType) BY DEF TypeOK
    <3>2. work'[r] = Append(work[r], PostedRow(row, current)) BY <2>2 DEF TypeOK
    <3>3. n \in DOMAIN entries[r] BY <1>9 DEF PostEntry
    <3>4. Len(work'[r]) = n /\ n <= Len(entries[r]) BY <3>1, <3>2, <3>3
    <3>5. WorkIsLegal(r) BY <1>9 DEF PostEntry, TransactionInv
    <3>6. \A i \in 1 .. n :
            [View(r)' EXCEPT ![r] = SubSeq(work'[r], 1, i - 1)]
              = [View(r) EXCEPT ![r] = SubSeq(work[r], 1, i - 1)]
      <4> SUFFICES ASSUME NEW i \in 1 .. n
                   PROVE [View(r)' EXCEPT ![r] = SubSeq(work'[r], 1, i - 1)]
                           = [View(r) EXCEPT ![r] = SubSeq(work[r], 1, i - 1)]
        OBVIOUS
      <4>1. SubSeq(work'[r], 1, i - 1) = SubSeq(work[r], 1, i - 1)
        <5>1. i \in 1 .. Len(work[r]) + 1 OBVIOUS
        <5> HIDE DEF n, row
        <5>2. SubSeq(Append(work[r], PostedRow(row, current)), 1, i - 1)
                = SubSeq(work[r], 1, i - 1)
          BY <3>1, <5>1, SubSeqOfAppend, Zenon
        <5>3. QED BY <3>2, <5>2
      <4>2. QED BY <2>1, <4>1 DEF View, dbVars
    <3>7. [View(r) EXCEPT ![r] = SubSeq(work[r], 1, n - 1)] = View(r)
      <4>1. SubSeq(work[r], 1, n - 1) = work[r] BY <3>1
      <4>2. QED BY <4>1 DEF View
    <3>8. \A i \in 1 .. Len(work[r]) : work'[r][i] = work[r][i] BY <3>1, <3>2
    <3>9. work'[r][n] = PostedRow(row, current) BY <3>1, <3>2
    <3>10. ASSUME NEW i \in 1 .. Len(work'[r])
           PROVE \E cur \in CurrentBalance(
                     [View(r)' EXCEPT ![r] = SubSeq(work'[r], 1, i - 1)],
                     entries[r][i].account) :
                   work'[r][i] = PostedRow(entries[r][i], cur)
      <4>1. CASE i = n
        <5>1. n \in 1 .. n BY <3>1
        <5> HIDE DEF n, row
        <5>2. [View(r)' EXCEPT ![r] = SubSeq(work'[r], 1, n - 1)] = View(r)
          BY <3>6, <3>7, <5>1
        <5>3. row = entries[r][n] BY DEF row
        <5>4. QED BY <2>2, <3>9, <4>1, <5>2, <5>3
      <4>2. CASE i # n
        <5>1. i \in 1 .. Len(work[r]) BY <3>1, <3>4, <4>2
        <5>2. QED BY <3>4, <3>5, <3>6, <3>8, <5>1 DEF WorkIsLegal
      <4>3. QED BY <4>1, <4>2
    <3>11. entries' = entries BY <2>1 DEF dbVars
    <3>12. QED BY <3>4, <3>10, <3>11 DEF WorkIsLegal
  <2>5. TransactionInv'
    <3> SUFFICES ASSUME NEW q \in Requests
                 PROVE IF InTransaction(q)' THEN snapshot'[q] \subseteq Posted' /\ WorkIsLegal(q)'
                       ELSE snapshot'[q] = {} /\ work'[q] = <<>>
      BY DEF TransactionInv
    <3>1. CASE q = r
      BY <1>9, <2>1, <2>4, <3>1 DEF PostEntry, TransactionInv, InTransaction, dbVars, Posted
    <3>2. CASE q # r
      <4>1. work'[q] = work[q] BY <2>2, <3>2 DEF TypeOK
      <4>2. WorkIsLegal(q) => WorkIsLegal(q)'
        BY <2>1, <4>1, WorkStaysLegal DEF dbVars
      <4>3. QED BY <2>1, <4>1, <4>2 DEF TransactionInv, InTransaction, dbVars, Posted
    <3>3. QED BY <3>1, <3>2
  <2>6. QED BY <2>3, <2>5
<1>10. ASSUME NEW r \in Requests, CommitPost(r) PROVE IInv'
  <2>1. /\ InTransaction(r)
        /\ entries' = [entries EXCEPT ![r] = work[r]]
        /\ batches' = [batches EXCEPT ![r] = "posted"]
        /\ snapshot' = [snapshot EXCEPT ![r] = {}]
        /\ work' = [work EXCEPT ![r] = <<>>]
        /\ reader' = reader
        /\ phase'[r] \in {"posted", "500"}
        /\ \A q \in Requests \ {r} : phase'[q] = phase[q]
    BY <1>10 DEF CommitPost, UpdateRows, EndTransaction, TypeOK
  <2>2. batches[r] = "pending" BY <2>1 DEF InTransaction, PhaseMatchesBatch
  <2>3. WorkIsLegal(r) /\ work[r] \in Seq(RowType) /\ entries[r] \in Seq(RowType)
    BY <2>1 DEF TransactionInv, TypeOK
  <2>4. DOMAIN work[r] = 1 .. Len(work[r]) /\ Len(work[r]) = Len(entries[r])
    BY <1>10, <2>3 DEF CommitPost
  <2>5. entries'[r] = work[r] /\ \A q \in Requests \ {r} : entries'[q] = entries[q]
    BY <2>1 DEF TypeOK
  <2>6. batches'[r] = "posted" /\ \A q \in Requests \ {r} : batches'[q] = batches[q]
    BY <2>1 DEF TypeOK
  <2>7. PostedAllOrNothing'
    <3> SUFFICES ASSUME NEW q \in Requests
                 PROVE /\ batches'[q] = "absent" <=> entries'[q] = <<>>
                       /\ \A i \in DOMAIN entries'[q] :
                            HasBalance(entries'[q][i]) <=> batches'[q] = "posted"
      BY DEF PostedAllOrNothing, HasBalance
    <3>1. CASE q = r
      <4>1. entries[r] # <<>> BY <2>2 DEF PostedAllOrNothing
      <4>2. work[r] # <<>> BY <2>3, <2>4, <4>1
      <4>3. \A i \in DOMAIN work[r] : HasBalance(work[r][i]) BY <2>3, <2>4, WorkRow
      <4>4. QED BY <2>5, <2>6, <3>1, <4>2, <4>3
    <3>2. CASE q # r BY <2>5, <2>6, <3>2 DEF PostedAllOrNothing
    <3>3. QED BY <3>1, <3>2
  <2>8. PhaseMatchesBatch' BY <2>1, <2>6 DEF PhaseMatchesBatch
  <2>9. TransactionInv'
    <3> SUFFICES ASSUME NEW q \in Requests
                 PROVE IF InTransaction(q)' THEN snapshot'[q] \subseteq Posted' /\ WorkIsLegal(q)'
                       ELSE snapshot'[q] = {} /\ work'[q] = <<>>
      BY DEF TransactionInv
    <3>1. CASE q = r BY <2>1, <3>1 DEF InTransaction, TypeOK
    <3>2. CASE q # r
      <4>1. snapshot'[q] = snapshot[q] /\ work'[q] = work[q] /\ phase'[q] = phase[q]
        BY <2>1, <3>2 DEF TypeOK
      <4>2. CASE ~InTransaction(q) BY <4>1, <4>2 DEF TransactionInv, InTransaction
      <4>3. CASE InTransaction(q)
        <5>1. snapshot[q] \subseteq Posted /\ WorkIsLegal(q) BY <4>3 DEF TransactionInv
        <5>2. r \notin snapshot[q] BY <2>2, <5>1 DEF Posted
        <5>3. Posted \subseteq Posted' BY <2>6 DEF Posted
        <5>4. \A p \in snapshot[q] : entries'[p] = entries[p]
          BY <2>5, <5>1, <5>2 DEF Posted
        <5>5. WorkIsLegal(q)' BY <2>5, <3>2, <4>1, <5>1, <5>4, WorkStaysLegal
        <5>6. QED BY <4>1, <4>3, <5>1, <5>3, <5>5 DEF InTransaction
      <4>4. QED BY <4>2, <4>3
    <3>3. QED BY <3>1, <3>2
  <2>10. ReaderInv'
    BY <2>1, <2>2, <2>5, <2>6 DEF ReaderInv, TypeOK, ReaderType
  <2>11. QED BY <2>7, <2>8, <2>9, <2>10
<1>11. ASSUME NEW r \in Requests, PostFails(r) PROVE IInv'
  <2>1. /\ phase' = [phase EXCEPT ![r] = "500"]
        /\ snapshot' = [snapshot EXCEPT ![r] = {}]
        /\ work' = [work EXCEPT ![r] = <<>>]
        /\ dbVars' = dbVars
        /\ reader' = reader
    BY <1>11 DEF PostFails, OnPostError, EndTransaction, Rollback
  <2>2. PostedAllOrNothing' /\ ReaderInv'
    BY <2>1 DEF dbVars, PostedAllOrNothing, ReaderInv
  <2>3. PhaseMatchesBatch' BY <2>1 DEF dbVars, PhaseMatchesBatch, TypeOK
  <2>4. TransactionInv'
    <3> SUFFICES ASSUME NEW q \in Requests
                 PROVE IF InTransaction(q)' THEN snapshot'[q] \subseteq Posted' /\ WorkIsLegal(q)'
                       ELSE snapshot'[q] = {} /\ work'[q] = <<>>
      BY DEF TransactionInv
    <3>1. CASE q = r BY <2>1, <3>1 DEF InTransaction, TypeOK
    <3>2. CASE q # r
      <4>1. snapshot'[q] = snapshot[q] /\ work'[q] = work[q] /\ phase'[q] = phase[q]
        BY <2>1, <3>2 DEF TypeOK
      <4>2. WorkIsLegal(q) => WorkIsLegal(q)' BY <2>1, <4>1, WorkStaysLegal DEF dbVars
      <4>3. QED BY <2>1, <4>1, <4>2 DEF TransactionInv, InTransaction, dbVars, Posted
    <3>3. QED BY <3>1, <3>2
  <2>5. QED BY <2>2, <2>3, <2>4
<1>12. ASSUME NEW c \in Readers, NEW r \in Requests, ReadBatch(c, r) PROVE IInv'
  <2>1. /\ phase' = phase /\ dbVars' = dbVars /\ txVars' = txVars
        /\ reader' = [reader EXCEPT ![c] =
                        [at |-> "entries", batch |-> r, status |-> batches[r]]]
    BY <1>12 DEF ReadBatch
  <2>2. PostedAllOrNothing' /\ PhaseMatchesBatch'
    BY <2>1 DEF dbVars, PostedAllOrNothing, PhaseMatchesBatch
  <2>3. TransactionInv'
    <3>1. \A q \in Requests : WorkIsLegal(q) => WorkIsLegal(q)'
      BY <2>1, WorkStaysLegal DEF dbVars, envVars, txVars
    <3>2. QED BY <2>1, <3>1 DEF dbVars, envVars, txVars, TransactionInv, InTransaction, Posted
  <2>4. ReaderInv' BY <2>1 DEF dbVars, ReaderInv, TypeOK
  <2>5. QED BY <2>2, <2>3, <2>4
<1>13. ASSUME NEW c \in Readers, ReadEntries(c) PROVE IInv'
  <2>1. /\ phase' = phase /\ dbVars' = dbVars /\ txVars' = txVars
        /\ reader[c].at = "entries"
        /\ \E rows \in Scanned(entries[reader[c].batch]) :
             reader' = [reader EXCEPT ![c] =
                          [at |-> "answered", batch |-> reader[c].batch,
                           status |-> reader[c].status, rows |-> rows]]
    BY <1>13 DEF ReadEntries, TypeOK
  <2>2. PostedAllOrNothing' /\ PhaseMatchesBatch'
    BY <2>1 DEF dbVars, PostedAllOrNothing, PhaseMatchesBatch
  <2>3. TransactionInv'
    <3>1. \A q \in Requests : WorkIsLegal(q) => WorkIsLegal(q)'
      BY <2>1, WorkStaysLegal DEF dbVars, envVars, txVars
    <3>2. QED BY <2>1, <3>1 DEF dbVars, envVars, txVars, TransactionInv, InTransaction, Posted
  <2>4. ReaderInv'
    <3>1. PICK rows \in Scanned(entries[reader[c].batch]) :
            reader' = [reader EXCEPT ![c] =
                          [at |-> "answered", batch |-> reader[c].batch,
                           status |-> reader[c].status, rows |-> rows]]
      BY <2>1
    <3>2. rows \in Prefixes(entries[reader[c].batch])
      <4>1. entries[reader[c].batch] \in Seq(RowType)
        BY <2>1 DEF TypeOK, ReaderType
      <4>2. QED BY <3>1, <4>1, ScannedType
    <3>3. reader \in [Readers -> ReaderType] BY DEF TypeOK
    <3>4. QED BY <2>1, <3>1, <3>2, <3>3 DEF dbVars, ReaderInv
  <2>5. QED BY <2>2, <2>3, <2>4
<1>14. ASSUME NEW c \in Readers, ReadFails(c) PROVE IInv'
  <2>1. /\ phase' = phase /\ dbVars' = dbVars /\ txVars' = txVars
        /\ reader' = [reader EXCEPT ![c] = [at |-> "idle"]]
    BY <1>14 DEF ReadFails
  <2>2. PostedAllOrNothing' /\ PhaseMatchesBatch'
    BY <2>1 DEF dbVars, PostedAllOrNothing, PhaseMatchesBatch
  <2>3. TransactionInv'
    <3>1. \A q \in Requests : WorkIsLegal(q) => WorkIsLegal(q)'
      BY <2>1, WorkStaysLegal DEF dbVars, envVars, txVars
    <3>2. QED BY <2>1, <3>1 DEF dbVars, envVars, txVars, TransactionInv, InTransaction, Posted
  <2>4. ReaderInv' BY <2>1 DEF dbVars, ReaderInv, TypeOK
  <2>5. QED BY <2>2, <2>3, <2>4
<1>15. CASE UNCHANGED vars
  <2>1. PhaseMatchesBatch' BY <1>15 DEF vars, dbVars, PhaseMatchesBatch
  <2>2. QED BY <1>1, <1>15, <2>1 DEF vars, InTransaction
<1>16. QED
  BY <1>2, <1>3, <1>4, <1>5, <1>6, <1>7, <1>8, <1>9, <1>10, <1>11, <1>12, <1>13, <1>14, <1>15
     DEF Next, Serve

-----------------------------------------------------------------------------
(***************************************************************************)
(* The safety theorems.                                                    *)
(***************************************************************************)
\* The strengthening is an invariant of the service: it holds of the empty
\* database and every step preserves it.
THEOREM InvariantHolds == Spec => []IInv
<1>1. Init => IInv BY InitInv
<1>2. TypeOK /\ IInv /\ [Next]_vars => IInv' BY NextInv
<1>3. QED BY <1>1, <1>2, TypeCorrect, PTL DEF Spec

\* Posting is all or nothing, for any number of requests, accounts, faults and
\* any width of the integers.
THEOREM AllOrNothing == Spec => []PostedAllOrNothing
<1>1. IInv => PostedAllOrNothing BY DEF IInv
<1>2. QED BY <1>1, InvariantHolds, PTL

\* An answer 201 is only given for a posted batch, 400 only when nothing was
\* written.
THEOREM AnswersAreTrue == Spec => []AnswerIsTruth
<1>1. IInv => AnswerIsTruth BY DEF IInv, PhaseMatchesBatch, AnswerIsTruth
<1>2. QED BY <1>1, InvariantHolds, PTL

\* A reader that has seen a batch posted is given its final balances, although
\* the two statements of GET /batches/{id} share no transaction.
THEOREM ReadsAreConsistent == Spec => []ReadIsConsistent
<1>1. TypeOK /\ IInv => ReadIsConsistent
  <2> SUFFICES ASSUME TypeOK, IInv, NEW c \in Readers,
                      reader[c].at = "answered", reader[c].status = "posted"
               PROVE  /\ \A i \in DOMAIN reader[c].rows : HasBalance(reader[c].rows[i])
                      /\ reader[c].rows \in Prefixes(entries[reader[c].batch])
    BY DEF ReadIsConsistent
  <2> DEFINE read == entries[reader[c].batch]
  <2>1. reader[c].batch \in Requests /\ read \in Seq(RowType)
    BY DEF TypeOK, ReaderType
  <2>2. /\ batches[reader[c].batch] = "posted"
        /\ reader[c].rows \in Prefixes(read)
    BY DEF IInv, ReaderInv
  <2>3. \A i \in DOMAIN read : HasBalance(read[i])
    BY <2>1, <2>2 DEF IInv, PostedAllOrNothing
  <2>4. PICK n \in 0 .. Len(read) : reader[c].rows = SubSeq(read, 1, n)
    BY <2>2 DEF Prefixes
  <2>5. \A i \in DOMAIN SubSeq(read, 1, n) :
          i \in DOMAIN read /\ SubSeq(read, 1, n)[i] = read[i]
    <3> HIDE DEF read
    <3>1. QED BY <2>1
  <2>6. QED BY <2>2, <2>3, <2>4, <2>5
<1>2. QED BY <1>1, TypeCorrect, InvariantHolds, PTL

\* A row has its own line.
LEMMA SameLineReflexive ==
  ASSUME TypeOK
  PROVE  \A r \in Requests : \A i \in DOMAIN entries[r] : SameLine(entries[r][i], entries[r][i])
<1>1. \A row \in RowType : SameLine(row, row)
  <2> SUFFICES ASSUME NEW row \in RowType PROVE SameLine(row, row) OBVIOUS
  <2>1. row = [account |-> row.account, type |-> row.type, amount |-> row.amount,
               createdAt |-> row.createdAt, balanceAfter |-> row.balanceAfter]
    BY DEF RowType
  <2>2. [row EXCEPT !.balanceAfter = row.balanceAfter] = row BY <2>1
  <2>3. QED BY <2>2 DEF SameLine
<1>2. \A r \in Requests : \A i \in DOMAIN entries[r] : entries[r][i] \in RowType
  BY DEF TypeOK
<1>3. QED BY <1>1, <1>2

\* No step rewrites history: rows keep their line, posted batches do not change.
THEOREM AppendOnly == Spec => LedgerAppendOnly
<1> DEFINE
      Kept(r) ==
        /\ batches[r] # "absent" =>
             /\ DOMAIN entries'[r] = DOMAIN entries[r]
             /\ \A i \in DOMAIN entries[r] : SameLine(entries'[r][i], entries[r][i])
        /\ batches[r] = "posted" =>
             batches'[r] = "posted" /\ entries'[r] = entries[r]
<1>1. TypeOK /\ IInv /\ [Next]_vars => \A r \in Requests : Kept(r)
  <2> SUFFICES ASSUME TypeOK, IInv, [Next]_vars PROVE \A r \in Requests : Kept(r)
    OBVIOUS
  <2>1. ASSUME entries' = entries, batches' = batches
        PROVE  \A r \in Requests : Kept(r)
    <3>1. \A r \in Requests : \A i \in DOMAIN entries[r] : SameLine(entries[r][i], entries[r][i])
      BY SameLineReflexive
    <3>2. QED BY <2>1, <3>1
  <2>2. ASSUME NEW q \in Requests, CreateBatch(q) PROVE \A r \in Requests : Kept(r)
    <3>1. batches[q] = "absent" BY <2>2 DEF CreateBatch, IInv, PhaseMatchesBatch
    <3>2. \A r \in Requests \ {q} : entries'[r] = entries[r] /\ batches'[r] = batches[r]
      BY <2>2 DEF CreateBatch, TypeOK
    <3>3. \A r \in Requests : \A i \in DOMAIN entries[r] : SameLine(entries[r][i], entries[r][i])
      BY SameLineReflexive
    <3>4. QED BY <3>1, <3>2, <3>3
  <2>3. ASSUME NEW q \in Requests, CommitPost(q) PROVE \A r \in Requests : Kept(r)
    <3>1. /\ batches[q] = "pending"
          /\ WorkIsLegal(q)
          /\ entries'[q] = work[q]
      BY <2>3 DEF CommitPost, UpdateRows, InTransaction, IInv, PhaseMatchesBatch,
                  TransactionInv, TypeOK
    <3>2. \A r \in Requests \ {q} : entries'[r] = entries[r] /\ batches'[r] = batches[r]
      BY <2>3 DEF CommitPost, UpdateRows, TypeOK
    <3>3. \A r \in Requests : \A i \in DOMAIN entries[r] : SameLine(entries[r][i], entries[r][i])
      BY SameLineReflexive
    <3>4. /\ DOMAIN work[q] = 1 .. Len(work[q])
          /\ DOMAIN work[q] = DOMAIN entries[q]
      BY <2>3 DEF CommitPost, TypeOK
    <3>5. \A i \in DOMAIN entries[q] : SameLine(work[q][i], entries[q][i])
      BY <3>1, <3>4, WorkRow
    <3>6. QED BY <3>1, <3>2, <3>3, <3>4, <3>5
  <2>4. CASE UNCHANGED vars BY <2>1, <2>4 DEF vars, dbVars
  <2>5. CASE Tick \/ Crash BY <2>1, <2>5 DEF Tick, Crash, dbVars
  <2>6. ASSUME NEW q \in Requests,
               \/ Receive(q) \/ CreateBatchFails(q) \/ BeginPost(q)
               \/ PostEntry(q) \/ PostFails(q) \/ Fetch(q)
        PROVE  \A r \in Requests : Kept(r)
    <3>1. entries' = entries /\ batches' = batches
      BY <2>6 DEF Receive, CreateBatchFails, BeginPost, PostEntry, PostFails,
                  Rollback, Fetch, dbVars
    <3>2. QED BY <2>1, <3>1
  <2>7. ASSUME NEW c \in Readers,
               ReadEntries(c) \/ ReadFails(c) \/ \E q \in Requests : ReadBatch(c, q)
        PROVE  \A r \in Requests : Kept(r)
    BY <2>1, <2>7 DEF ReadEntries, ReadFails, ReadBatch, dbVars
  <2>8. QED BY <2>2, <2>3, <2>4, <2>5, <2>6, <2>7 DEF Next, Serve
<1>2. QED BY <1>1, TypeCorrect, InvariantHolds, PTL DEF Spec, LedgerAppendOnly

-----------------------------------------------------------------------------
(***************************************************************************)
(* Refinement: concurrent posting on snapshots implements atomic posting.  *)
(* The database refuses a commit that misses a posting on one of its       *)
(* accounts, so at the commit what the transaction read is still current.  *)
(***************************************************************************)
LEMMA SameAsLatest ==
  ASSUME NEW table, NEW account
  PROVE  CurrentBalance(table, account) = Serial!Latest(table, account)
<1> DEFINE ids == UNION {{<<q, i>> : i \in DOMAIN table[q]} : q \in Requests}
           bal(e) == table[e[1]][e[2]].balanceAfter
           at(e) == table[e[1]][e[2]].createdAt
           posted == {e \in ids : table[e[1]][e[2]].account = account /\ bal(e) # Null}
           latest == {e \in posted : \A f \in posted : at(f) <= at(e)}
<1>1. CurrentBalance(table, account) =
        IF posted = {} THEN {0} ELSE {bal(e) : e \in latest}
  BY DEF CurrentBalance, Balanced
<1>2. Serial!Latest(table, account) =
        {bal(e) : e \in latest} \cup (IF posted = {} THEN {0} ELSE {})
  BY DEF Serial!Latest
<1>3. posted = {} => {bal(e) : e \in latest} = {} OBVIOUS
<1> HIDE DEF posted, latest, bal
<1>4. QED BY <1>1, <1>2, <1>3

\* No row of the account went untracked while another posting to it was under way.
Tracked(account) ==
  \A p \in late : account \notin AccountsOf(p[1]) \cap AccountsOf(p[2])

\* What a step adds to late, it adds when a batch is created.
LEMMA LateSteps ==
  ASSUME [Next]_vars
  PROVE  \/ late' = late
         \/ ~LateRowsTracked /\ late \subseteq late'
<1>1. CASE Tick \/ Crash BY <1>1 DEF Tick, Crash, envVars
<1>2. ASSUME NEW r \in Requests, CreateBatch(r)
      PROVE  late' = late \/ (~LateRowsTracked /\ late \subseteq late')
  BY <1>2 DEF CreateBatch
<1>3. ASSUME NEW r \in Requests,
             \/ Receive(r) \/ CreateBatchFails(r) \/ BeginPost(r)
             \/ PostEntry(r) \/ CommitPost(r) \/ PostFails(r) \/ Fetch(r)
      PROVE  late' = late
  BY <1>3 DEF Receive, CreateBatchFails, BeginPost, PostEntry, CommitPost,
              PostFails, Fetch, envVars
<1>4. ASSUME NEW c \in Readers,
             ReadEntries(c) \/ ReadFails(c) \/ \E r \in Requests : ReadBatch(c, r)
      PROVE  late' = late
  BY <1>4 DEF ReadEntries, ReadFails, ReadBatch, envVars
<1>5. CASE UNCHANGED vars BY <1>5 DEF vars, envVars
<1>6. QED BY <1>1, <1>2, <1>3, <1>4, <1>5 DEF Next, Serve

\* Where the database tracks the updates of late rows, none goes untracked.
LEMMA NothingLate == LateRowsTracked /\ Spec => [](LateRowsTracked /\ late = {})
<1> DEFINE Nothing == LateRowsTracked /\ late = {}
<1>1. LateRowsTracked /\ Init => Nothing BY DEF Init
<1>2. Nothing /\ [Next]_vars => Nothing' BY LateSteps
<1>3. QED BY <1>1, <1>2, PTL DEF Spec

\* A posting that committed unseen by r's, and was not refused for it, has none of
\* r's tracked accounts.
LEMMA UnseenIsElsewhere ==
  ASSUME TypeOK, NEW r \in Requests, ~Conflict(r),
         NEW q \in Posted \ snapshot[r],
         NEW account \in AccountsOf(r), Tracked(account)
  PROVE  account \notin AccountsOf(q)
<1>1. SUFFICES ASSUME account \in AccountsOf(q) PROVE FALSE OBVIOUS
<1>2. AccountsOf(q) \cap AccountsOf(r) # {} BY <1>1
<1>3. <<q, r>> \in late \/ <<r, q>> \in late BY <1>2 DEF Conflict
<1>4. account \notin AccountsOf(q) \cap AccountsOf(r) BY <1>3 DEF Tracked
<1>5. QED BY <1>1, <1>4

\* A row a transaction has computed is legal in the table it commits to, if its
\* account is tracked.
LegalRow(r, i) ==
  \E current \in Serial!Latest([entries EXCEPT ![r] = SubSeq(work[r], 1, i - 1)],
                               work[r][i].account) :
    work[r][i] = [entries[r][i] EXCEPT !.balanceAfter = Apply(current, work[r][i])]

LEMMA RowIsLegal ==
  ASSUME TypeOK, IInv, NEW r \in Requests, CommitPost(r),
         NEW i \in DOMAIN work[r], Tracked(work[r][i].account)
  PROVE  LegalRow(r, i)
<1> DEFINE account == entries[r][i].account
           seen == [View(r) EXCEPT ![r] = SubSeq(work[r], 1, i - 1)]
           real == [entries EXCEPT ![r] = SubSeq(work[r], 1, i - 1)]
<1>1. /\ InTransaction(r)
      /\ Len(work[r]) = Len(entries[r])
      /\ ~Conflict(r)
  BY DEF CommitPost
<1>2. /\ work[r] \in Seq(RowType)
      /\ entries[r] \in Seq(RowType)
      /\ snapshot[r] \subseteq Posted
      /\ WorkIsLegal(r)
  BY <1>1 DEF TypeOK, IInv, TransactionInv
<1>3. i \in DOMAIN entries[r] /\ i \in 1 .. Len(work[r]) BY <1>1, <1>2
<1>4. PICK current \in CurrentBalance(seen, account) :
        work[r][i] = PostedRow(entries[r][i], current)
  BY <1>2, <1>3 DEF WorkIsLegal
<1>5. entries[r][i] \in RowType
  <2>1. i \in 1 .. Len(entries[r]) BY <1>1, <1>3
  <2>2. \A j \in 1 .. Len(entries[r]) : entries[r][j] \in RowType BY <1>2
  <2>3. QED BY <2>1, <2>2
<1>6. /\ work[r][i].account = account
      /\ work[r][i].type = entries[r][i].type
      /\ work[r][i].amount = entries[r][i].amount
  BY <1>4, <1>5 DEF PostedRow, RowType
<1>7. account \in AccountsOf(r) /\ Tracked(account) BY <1>3, <1>6 DEF AccountsOf
<1>8. \A q \in Requests :
        \/ seen[q] = real[q]
        \/ /\ \A j \in DOMAIN seen[q] : seen[q][j].account = account => ~HasBalance(seen[q][j])
           /\ \A j \in DOMAIN real[q] : real[q][j].account = account => ~HasBalance(real[q][j])
  <2>1. ASSUME NEW q \in Requests, seen[q] # real[q]
        PROVE  /\ \A j \in DOMAIN seen[q] : FALSE
               /\ \A j \in DOMAIN real[q] :
                    real[q][j].account = account => ~HasBalance(real[q][j])
    <3>1. q # r BY <2>1 DEF View, TypeOK
    <3>2. real[q] = entries[q] BY <3>1 DEF TypeOK
    <3>3. q \notin snapshot[r] /\ seen[q] = <<>> BY <2>1, <3>1, <3>2 DEF View
    <3>4. CASE batches[q] = "posted"
      <4>1. q \in Posted \ snapshot[r] BY <3>3, <3>4 DEF Posted
      <4> HIDE DEF seen, real, account
      <4>2. account \notin AccountsOf(q) BY <1>1, <1>7, <4>1, UnseenIsElsewhere
      <4>3. \A j \in DOMAIN entries[q] : entries[q][j].account # account
        BY <4>2 DEF AccountsOf
      <4>4. QED BY <3>2, <3>3, <4>3
    <3>5. CASE batches[q] # "posted"
      <4>1. \A j \in DOMAIN entries[q] : ~HasBalance(entries[q][j])
        BY <3>5 DEF IInv, PostedAllOrNothing
      <4> HIDE DEF seen, real, account
      <4>2. QED BY <3>2, <3>3, <4>1
    <3>6. QED BY <3>4, <3>5
  <2> HIDE DEF seen, real, account
  <2>2. QED BY <2>1
<1>9. current \in Serial!Latest(real, account)
  <2> HIDE DEF seen, real, account
  <2>1. CurrentBalance(seen, account) = CurrentBalance(real, account) BY <1>8, SameBalance
  <2>2. QED BY <1>4, <2>1, SameAsLatest
<1>10. Apply(current, work[r][i]) = Apply(current, entries[r][i])
  BY <1>6 DEF Apply, Delta
<1>11. work[r][i] = [entries[r][i] EXCEPT !.balanceAfter = Apply(current, work[r][i])]
  BY <1>4, <1>10 DEF PostedRow
<1>12. QED BY <1>6, <1>9, <1>11 DEF LegalRow

\* So a commit is a posting of the serial ledger, if all accounts of the batch are
\* tracked.
LEMMA CommitIsLegal ==
  ASSUME TypeOK, IInv, NEW r \in Requests, CommitPost(r),
         \A account \in AccountsOf(r) : Tracked(account)
  PROVE  Serial!LegalPosting(r, work[r])
<1>1. /\ work[r] \in Seq(RowType) /\ entries[r] \in Seq(RowType)
      /\ Len(work[r]) = Len(entries[r])
      /\ WorkIsLegal(r)
  BY DEF CommitPost, TypeOK, IInv, TransactionInv
<1>2. DOMAIN work[r] = DOMAIN entries[r] /\ DOMAIN work[r] = 1 .. Len(work[r])
  BY <1>1
<1>3. ASSUME NEW i \in DOMAIN work[r] PROVE LegalRow(r, i)
  <2>1. SameLine(work[r][i], entries[r][i]) BY <1>1, <1>2, WorkRow
  <2>2. work[r][i] \in RowType /\ entries[r][i] \in RowType BY <1>1, <1>2
  <2>3. work[r][i].account = entries[r][i].account BY <2>1, <2>2 DEF SameLine, RowType
  <2>4. work[r][i].account \in AccountsOf(r) BY <1>2, <2>3 DEF AccountsOf
  <2>5. QED BY <2>4, RowIsLegal
<1>4. \A balance, line : Serial!Apply(balance, line) = Apply(balance, line)
  BY DEF Serial!Apply, Serial!Delta, Serial!NormalBalance, Serial!Wrap,
         Apply, Delta, NormalBalance, Wrap
<1>5. QED BY <1>2, <1>3, <1>4 DEF Serial!LegalPosting, LegalRow

\* A step of the service is a step of the serial ledger, or none, but for the commit
\* of a posting one of whose accounts had a late row.
UntrackedCommit ==
  \E r \in Requests : CommitPost(r) /\ \E account \in AccountsOf(r) : ~Tracked(account)
LEMMA StepIsSerial ==
  ASSUME TypeOK, IInv, [Next]_vars
  PROVE  [Serial!Next]_Serial!vars \/ UntrackedCommit
<1> SUFFICES ASSUME ~UntrackedCommit PROVE [Serial!Next]_Serial!vars OBVIOUS
<1>1. ASSUME dbVars' = dbVars PROVE UNCHANGED Serial!vars
  BY <1>1 DEF dbVars, Serial!vars
<1>2. ASSUME NEW r \in Requests, CreateBatch(r) PROVE Serial!Create(r)
  <2>1. PICK stamp \in Stamps(r) :
          entries' = [entries EXCEPT ![r] =
            [i \in DOMAIN request[r] |-> Row(request[r][i], stamp[i])]]
    BY <1>2 DEF CreateBatch
  <2>2. entries'[r] = [i \in DOMAIN request[r] |-> Row(request[r][i], stamp[i])]
    BY <2>1 DEF TypeOK
  <2>3. request[r] \in Seq(Line) /\ request[r] # <<>>
    BY <1>2 DEF CreateBatch, Creatable, BuildFails, TypeOK
  <2>4. 1 \in DOMAIN entries'[r] BY <2>2, <2>3
  <2>5. entries'[r] # <<>> BY <2>4
  <2>6. \A i \in DOMAIN entries'[r] : entries'[r][i].balanceAfter = Null
    BY <2>2 DEF Row
  <2>7. batches[r] = "absent" BY <1>2 DEF CreateBatch, IInv, PhaseMatchesBatch
  <2>8. batches' = [batches EXCEPT ![r] = "pending"] /\ UNCHANGED journal
    BY <1>2 DEF CreateBatch
  <2>9. entries' = [entries EXCEPT ![r] = entries'[r]] BY <2>1, <2>2
  <2>10. QED BY <2>5, <2>6, <2>7, <2>8, <2>9 DEF Serial!Create
<1>3. ASSUME NEW r \in Requests, CommitPost(r) PROVE Serial!Post(r)
  <2>1. batches[r] = "pending"
    BY <1>3 DEF CommitPost, InTransaction, IInv, PhaseMatchesBatch
  <2>2. /\ entries' = [entries EXCEPT ![r] = work[r]]
        /\ entries'[r] = work[r]
        /\ batches' = [batches EXCEPT ![r] = "posted"]
        /\ journal' = Append(journal, r)
    BY <1>3 DEF CommitPost, UpdateRows, TypeOK
  <2>3. Serial!LegalPosting(r, work[r]) BY <1>3, CommitIsLegal DEF UntrackedCommit
  <2>4. QED BY <2>1, <2>2, <2>3 DEF Serial!Post
<1>4. CASE UNCHANGED vars BY <1>1, <1>4 DEF vars
<1>5. CASE Tick \/ Crash BY <1>1, <1>5 DEF Tick, Crash
<1>6. ASSUME NEW r \in Requests,
             \/ Receive(r) \/ CreateBatchFails(r) \/ BeginPost(r)
             \/ PostEntry(r) \/ PostFails(r) \/ Fetch(r)
      PROVE  UNCHANGED Serial!vars
  BY <1>1, <1>6 DEF Receive, CreateBatchFails, BeginPost, PostEntry, PostFails,
                    Rollback, Fetch
<1>7. ASSUME NEW c \in Readers,
             ReadEntries(c) \/ ReadFails(c) \/ \E r \in Requests : ReadBatch(c, r)
      PROVE  UNCHANGED Serial!vars
  BY <1>1, <1>7 DEF ReadEntries, ReadFails, ReadBatch
<1>8. QED BY <1>2, <1>3, <1>4, <1>5, <1>6, <1>7 DEF Next, Serve, Serial!Next

\* Every behaviour of the concurrent service, with its failures and crashes, is
\* one of the serial ledger as long as no posting commits that touches an account
\* with a late row: whatever the database tracks, only such a commit can depart
\* from it.
THEOREM OnlyUntrackedDepart ==
  Spec => Serial!Init /\ [][[Serial!Next]_Serial!vars \/ UntrackedCommit]_vars
<1>1. Init => Serial!Init BY DEF Init, Serial!Init
<1>2. TypeOK /\ IInv /\ [Next]_vars => [Serial!Next]_Serial!vars \/ UntrackedCommit
  BY StepIsSerial
<1>3. QED BY <1>1, <1>2, TypeCorrect, InvariantHolds, PTL DEF Spec

\* Where the database tracks late rows there is no such commit, and every behaviour
\* of the concurrent service is a behaviour of the serial ledger.
THEOREM PostingIsSerial ==
  LateRowsTracked /\ Spec => ImplementsSerialPosting
<1>1. Init => Serial!Init BY DEF Init, Serial!Init
<1>2. TypeOK /\ IInv /\ LateRowsTracked /\ late = {} /\ [Next]_vars
        => [Serial!Next]_Serial!vars
  BY StepIsSerial DEF UntrackedCommit, Tracked
<1>3. QED
  BY <1>1, <1>2, TypeCorrect, InvariantHolds, NothingLate, PTL
     DEF Spec, ImplementsSerialPosting, Serial!Spec
-----------------------------------------------------------------------------
(***************************************************************************)
(* Sums over finite sets.  A sum is a recursive function, chosen among the *)
(* functions that satisfy its equation: one exists, two agree where both   *)
(* are defined, and so the equation holds of the sum.  Each of these, and  *)
(* each lemma after them, holds because a smallest set for which it fails  *)
(* would fail with one element less.                                       *)
(***************************************************************************)
\* A set of naturals has a least element.
LEMMA NatMinimum ==
  ASSUME NEW S, S \subseteq Nat, S # {}
  PROVE  \E n \in S : \A k \in S : n <= k
<1> DEFINE R == {ss \in Nat \X Nat : ss[1] < ss[2]}
<1>1. R = OpToRel(<, Nat) BY DEF OpToRel
<1>2. IsWellFoundedOn(R, Nat) BY <1>1, NatLessThanWellFounded
<1>3. \A j, k \in Nat : j < k => <<j, k>> \in R OBVIOUS
<1> HIDE DEF R
<1>4. PICK n \in S : \A k \in S : <<k, n>> \notin R BY <1>2, WFMin
<1>5. \A k \in S : ~(k < n) BY <1>3, <1>4
<1>6. QED BY <1>5

\* Among subsets of a finite set there is one none of whose parts is among them.
LEMMA SmallestSet ==
  ASSUME NEW S, IsFiniteSet(S), NEW W, W \subseteq SUBSET S, W # {}
  PROVE  \E s \in W : IsFiniteSet(s) /\ \A x \in s : s \ {x} \notin W
<1> DEFINE Sizes == {Cardinality(s) : s \in W}
<1>1. \A s \in W : IsFiniteSet(s) /\ Cardinality(s) \in Nat
  BY FS_Subset, FS_CardinalityType
<1>2. Sizes \subseteq Nat /\ Sizes # {} BY <1>1
<1>3. PICK n \in Sizes : \A k \in Sizes : n <= k
  <2> HIDE DEF Sizes
  <2>1. QED BY <1>2, NatMinimum
<1>4. PICK s \in W : Cardinality(s) = n BY <1>3
<1>5. ASSUME NEW x \in s, s \ {x} \in W PROVE FALSE
  <2>1. Cardinality(s \ {x}) = Cardinality(s) - 1 BY <1>1, FS_RemoveElement
  <2>2. n \in Nat /\ n <= Cardinality(s \ {x}) BY <1>2, <1>3, <1>5
  <2>3. QED BY <1>4, <2>1, <2>2
<1>6. QED BY <1>1, <1>5

Some(s) == CHOOSE x \in s : TRUE
SumStep(f, g, s) == IF s = {} THEN 0 ELSE f[Some(s)] + g[s \ {Some(s)}]
Sums(f, S, g) == g = [s \in SUBSET S |-> SumStep(f, g, s)]

LEMMA SumIsChoice ==
  ASSUME NEW f, NEW S
  PROVE  SumFunctionOnSet(f, S) = (CHOOSE g : Sums(f, S, g))[S]
BY DEF SumFunctionOnSet, FoldFunctionOnSet, MapThenFoldSet, Sums, SumStep, Some

\* What sums the subsets of T can be extended to sum those of T and x.
LEMMA SumsExist ==
  ASSUME NEW f, NEW S, IsFiniteSet(S)
  PROVE  \E g : Sums(f, S, g)
<1> DEFINE Upto(n, g) == \A s \in SUBSET S : Cardinality(s) <= n => g[s] = SumStep(f, g, s)
           Bad == {n \in Nat : \A g : ~Upto(n, g)}
<1>1. \A s \in SUBSET S : IsFiniteSet(s) /\ Cardinality(s) \in Nat
  BY FS_Subset, FS_CardinalityType
<1>2. Bad = {}
  <2>1. SUFFICES ASSUME Bad # {} PROVE FALSE OBVIOUS
  <2>2. PICK n \in Bad : \A k \in Bad : n <= k BY <2>1, NatMinimum
  <2>3. CASE n = 0
    <3> DEFINE g == [s \in SUBSET S |-> 0]
    <3>1. ASSUME NEW s \in SUBSET S, Cardinality(s) <= 0 PROVE g[s] = SumStep(f, g, s)
      <4>1. Cardinality(s) = 0 BY <1>1, <3>1
      <4>2. s = {} BY <1>1, <4>1, FS_EmptySet
      <4>3. QED BY <4>2 DEF SumStep
    <3> HIDE DEF g
    <3>2. QED BY <2>3, <3>1
  <2>4. CASE n # 0
    <3>1. n - 1 \in Nat /\ n - 1 \notin Bad BY <2>2, <2>4
    <3>2. PICK h : Upto(n - 1, h) BY <3>1
    <3> DEFINE g == [s \in SUBSET S |-> IF Cardinality(s) < n THEN h[s] ELSE SumStep(f, h, s)]
    <3>3. ASSUME NEW s \in SUBSET S, Cardinality(s) <= n PROVE g[s] = SumStep(f, g, s)
      <4>1. g[s] = SumStep(f, h, s)
        <5>1. Cardinality(s) < n => Cardinality(s) <= n - 1 BY <1>1
        <5>2. CASE Cardinality(s) < n
          <6>1. g[s] = h[s] BY <5>2
          <6>2. QED BY <3>2, <5>1, <5>2, <6>1
        <5>3. CASE ~(Cardinality(s) < n) BY <5>3
        <5>4. QED BY <5>2, <5>3
      <4>2. CASE s = {} BY <4>1, <4>2 DEF SumStep
      <4>3. CASE s # {}
        <5>1. s \ {Some(s)} \in SUBSET S /\ Some(s) \in s BY <4>3 DEF Some
        <5>2. Cardinality(s \ {Some(s)}) = Cardinality(s) - 1 BY <1>1, <5>1, FS_RemoveElement
        <5>3. Cardinality(s \ {Some(s)}) < n BY <1>1, <3>3, <5>2
        <5>4. g[s \ {Some(s)}] = h[s \ {Some(s)}] BY <5>1, <5>3
        <5> HIDE DEF g
        <5>5. QED BY <4>1, <4>3, <5>4 DEF SumStep
      <4>4. QED BY <4>2, <4>3
    <3> HIDE DEF g
    <3>4. QED BY <3>3
  <2>5. QED BY <2>3, <2>4
<1>3. PICK h : Upto(Cardinality(S), h) BY <1>1, <1>2
<1> DEFINE g == [s \in SUBSET S |-> h[s]]
<1>4. ASSUME NEW s \in SUBSET S PROVE h[s] = SumStep(f, g, s)
  <2>1. Cardinality(s) <= Cardinality(S) BY FS_Subset
  <2>2. h[s] = SumStep(f, h, s) BY <1>3, <2>1
  <2>3. s \ {Some(s)} \in SUBSET S OBVIOUS
  <2>4. QED BY <2>2, <2>3 DEF SumStep
<1>5. g = [s \in SUBSET S |-> SumStep(f, g, s)]
  <2>1. g = [s \in SUBSET S |-> h[s]] OBVIOUS
  <2> HIDE DEF g
  <2>2. QED BY <1>4, <2>1
<1>6. QED BY <1>5 DEF Sums

LEMMA SumsAgree ==
  ASSUME NEW f, NEW S, IsFiniteSet(S), NEW T \in SUBSET S, NEW g, NEW h,
         Sums(f, S, g), Sums(f, T, h)
  PROVE  \A s \in SUBSET T : g[s] = h[s]
<1> DEFINE Wrong == {s \in SUBSET T : g[s] # h[s]}
<1>1. SUFFICES ASSUME Wrong # {} PROVE FALSE OBVIOUS
<1>2. PICK s \in Wrong : \A x \in s : s \ {x} \notin Wrong
  <2>1. Wrong \subseteq SUBSET S OBVIOUS
  <2> HIDE DEF Wrong
  <2>2. QED BY <1>1, <2>1, SmallestSet
<1>3. g[s] = SumStep(f, g, s) /\ h[s] = SumStep(f, h, s) BY DEF Sums
<1>4. s # {} BY <1>3 DEF SumStep
<1>5. s \ {Some(s)} \in SUBSET T /\ s \ {Some(s)} \notin Wrong BY <1>2, <1>4 DEF Some
<1>6. QED BY <1>3, <1>5 DEF SumStep

\* The equation of the sum.
LEMMA SumRec ==
  ASSUME NEW f, NEW S, IsFiniteSet(S)
  PROVE  SumFunctionOnSet(f, S) =
           IF S = {} THEN 0 ELSE f[Some(S)] + SumFunctionOnSet(f, S \ {Some(S)})
<1> DEFINE T == S \ {Some(S)}
<1>1. T \in SUBSET S /\ IsFiniteSet(T) BY FS_Subset
<1>2. PICK g : g = (CHOOSE k : Sums(f, S, k)) OBVIOUS
<1>3. PICK h : h = (CHOOSE k : Sums(f, T, k)) OBVIOUS
<1> HIDE DEF T
<1>4. Sums(f, S, g) BY <1>2, SumsExist
<1>5. Sums(f, T, h) BY <1>1, <1>3, SumsExist
<1>6. g[T] = h[T] BY <1>1, <1>4, <1>5, SumsAgree
<1>7. SumFunctionOnSet(f, S) = g[S] /\ SumFunctionOnSet(f, T) = h[T]
  BY <1>2, <1>3, SumIsChoice
<1>8. g[S] = SumStep(f, g, S) BY <1>4 DEF Sums
<1>9. QED BY <1>6, <1>7, <1>8 DEF SumStep, T

LEMMA SumEmpty == ASSUME NEW f PROVE SumFunctionOnSet(f, {}) = 0
BY SumRec, FS_EmptySet

LEMMA SumType ==
  ASSUME NEW f, NEW S, IsFiniteSet(S), \A x \in S : f[x] \in Int
  PROVE  SumFunctionOnSet(f, S) \in Int
<1> DEFINE Wrong == {s \in SUBSET S : SumFunctionOnSet(f, s) \notin Int}
<1>1. SUFFICES ASSUME Wrong # {} PROVE FALSE OBVIOUS
<1>2. PICK s \in Wrong : IsFiniteSet(s) /\ \A x \in s : s \ {x} \notin Wrong
  <2>1. Wrong \subseteq SUBSET S OBVIOUS
  <2> HIDE DEF Wrong
  <2>2. QED BY <1>1, <2>1, SmallestSet
<1>3. CASE s = {} BY <1>3, SumEmpty
<1>4. CASE s # {}
  <2> DEFINE t == s \ {Some(s)}
  <2>1. Some(s) \in s /\ Some(s) \in S BY <1>4 DEF Some
  <2>2. t \notin Wrong /\ t \in SUBSET S BY <1>2, <2>1
  <2>3. SumFunctionOnSet(f, s) = f[Some(s)] + SumFunctionOnSet(f, t) BY <1>2, <1>4, SumRec
  <2>4. SumFunctionOnSet(f, t) \in Int BY <2>2
  <2>5. QED BY <2>1, <2>3, <2>4
<1>5. QED BY <1>3, <1>4

\* A sum does not depend on the order in which its terms are taken.
LEMMA SumAdd ==
  ASSUME NEW f, NEW S, IsFiniteSet(S), NEW x, x \notin S,
         \A y \in S \cup {x} : f[y] \in Int
  PROVE  SumFunctionOnSet(f, S \cup {x}) = f[x] + SumFunctionOnSet(f, S)
<1> DEFINE U == S \cup {x}
           Right(s, z) == SumFunctionOnSet(f, s \cup {z}) = f[z] + SumFunctionOnSet(f, s)
           Wrong == {s \in SUBSET U : \E z \in U : z \notin s /\ ~Right(s, z)}
<1>1. IsFiniteSet(U) BY FS_AddElement
<1>2. SUFFICES ASSUME Wrong # {} PROVE FALSE OBVIOUS
<1> HIDE DEF U
<1>3. PICK s \in Wrong : \A y \in s : s \ {y} \notin Wrong
  <2>1. Wrong \subseteq SUBSET U OBVIOUS
  <2> HIDE DEF Wrong
  <2>2. QED BY <1>1, <1>2, <2>1, SmallestSet
<1>4. PICK z \in U : z \notin s /\ ~Right(s, z) BY <1>3
<1> DEFINE v == s \cup {z}
           w == Some(v)
<1>5. \A t \in SUBSET U : IsFiniteSet(t) BY <1>1, FS_Subset
<1>6. v \in SUBSET U /\ w \in v BY <1>4 DEF Some
<1>7. SumFunctionOnSet(f, v) = f[w] + SumFunctionOnSet(f, v \ {w})
  <2> HIDE DEF v, w
  <2>1. v # {} /\ IsFiniteSet(v) BY <1>5, <1>6
  <2>2. QED BY <2>1, SumRec DEF w
<1>8. CASE w = z
  <2>1. v \ {w} = s BY <1>4, <1>8
  <2>2. QED BY <1>4, <1>7, <1>8, <2>1
<1>9. CASE w # z
  <2> DEFINE t == s \ {w}
  <2>1. w \in s /\ w \in U BY <1>6, <1>9
  <2>2. t \in SUBSET U /\ w \notin t /\ z \notin t /\ s = t \cup {w} /\ v \ {w} = t \cup {z}
    BY <1>4, <1>9, <2>1
  <2>3. t \notin Wrong BY <1>3, <2>1
  <2> HIDE DEF w, t
  <2>4. Right(t, z) /\ Right(t, w) BY <2>1, <2>2, <2>3
  <2>5. f[w] \in Int /\ f[z] \in Int BY <2>1 DEF U
  <2>6. SumFunctionOnSet(f, t) \in Int
    <3>1. \A y \in t : f[y] \in Int BY <2>2 DEF U
    <3>2. QED BY <1>5, <2>2, <3>1, SumType
  <2>7. SumFunctionOnSet(f, s \cup {z}) = f[w] + (f[z] + SumFunctionOnSet(f, t))
    BY <1>7, <2>2, <2>4
  <2>8. SumFunctionOnSet(f, s) = f[w] + SumFunctionOnSet(f, t) BY <2>2, <2>4
  <2>9. QED BY <1>4, <2>5, <2>6, <2>7, <2>8
<1>10. QED BY <1>8, <1>9

\* A sum depends on the values of the function on the set, and on nothing else.
LEMMA SumSame ==
  ASSUME NEW f, NEW g, NEW S, IsFiniteSet(S), \A x \in S : f[x] = g[x]
  PROVE  SumFunctionOnSet(f, S) = SumFunctionOnSet(g, S)
<1> DEFINE Wrong == {s \in SUBSET S : SumFunctionOnSet(f, s) # SumFunctionOnSet(g, s)}
<1>1. SUFFICES ASSUME Wrong # {} PROVE FALSE OBVIOUS
<1>2. PICK s \in Wrong : IsFiniteSet(s) /\ \A x \in s : s \ {x} \notin Wrong
  <2>1. Wrong \subseteq SUBSET S OBVIOUS
  <2> HIDE DEF Wrong
  <2>2. QED BY <1>1, <2>1, SmallestSet
<1>3. CASE s = {} BY <1>3, SumEmpty
<1>4. CASE s # {}
  <2> DEFINE t == s \ {Some(s)}
  <2>1. Some(s) \in s /\ Some(s) \in S BY <1>4 DEF Some
  <2>2. t \notin Wrong /\ t \in SUBSET S BY <1>2, <2>1
  <2>3. SumFunctionOnSet(f, s) = f[Some(s)] + SumFunctionOnSet(f, t) BY <1>2, <1>4, SumRec
  <2>4. SumFunctionOnSet(g, s) = g[Some(s)] + SumFunctionOnSet(g, t) BY <1>2, <1>4, SumRec
  <2>5. SumFunctionOnSet(f, t) = SumFunctionOnSet(g, t) BY <2>2
  <2>6. QED BY <2>1, <2>3, <2>4, <2>5
<1>5. QED BY <1>3, <1>4

\* Changing one term changes the sum by as much.
LEMMA SumUpdate ==
  ASSUME NEW f, NEW g, NEW S, IsFiniteSet(S), NEW a \in S,
         \A x \in S : f[x] \in Int /\ g[x] \in Int,
         \A x \in S \ {a} : f[x] = g[x]
  PROVE  SumFunctionOnSet(g, S) = SumFunctionOnSet(f, S) + (g[a] - f[a])
<1> DEFINE T == S \ {a}
<1>1. IsFiniteSet(T) /\ a \notin T /\ S = T \cup {a} BY FS_Subset
<1> HIDE DEF T
<1>2. SumFunctionOnSet(f, S) = f[a] + SumFunctionOnSet(f, T) BY <1>1, SumAdd
<1>3. SumFunctionOnSet(g, S) = g[a] + SumFunctionOnSet(g, T) BY <1>1, SumAdd
<1>4. SumFunctionOnSet(f, T) = SumFunctionOnSet(g, T) BY <1>1, SumSame DEF T
<1>5. SumFunctionOnSet(f, T) \in Int BY <1>1, SumType DEF T
<1>6. QED BY <1>2, <1>3, <1>4, <1>5
-----------------------------------------------------------------------------
(***************************************************************************)
(* Wrapping.  Two integers wrap to the same int64 exactly if they differ   *)
(* by a multiple of the word; so wrapping may be put off to the end of a   *)
(* computation.                                                            *)
(***************************************************************************)
Word == 2 * Int64Half
Same(m, n) == \E k \in Int : m = n + Word * k

LEMMA WordType == Word \in Nat /\ Word > 0 /\ Int64Half \in Int
BY Int64Assumption DEF Word

\* Division with a remainder.
LEMMA DivisionByWord ==
  ASSUME NEW m \in Int
  PROVE  \E q \in Int, rem \in 0 .. Word - 1 : m = Word * q + rem /\ m % Word = rem
<1> HIDE DEF Word
<1>1. m = Word * (m \div Word) + (m % Word) BY WordType
<1>2. m \div Word \in Int /\ m % Word \in 0 .. Word - 1 BY WordType
<1>3. QED BY <1>1, <1>2

\* The only multiple of the word within one word of zero is zero.
LEMMA MultipleOfWord ==
  ASSUME NEW k \in Int, 0 - Word < Word * k, Word * k < Word
  PROVE  k = 0
<1> HIDE DEF Word
<1>1. ASSUME k >= 1 PROVE FALSE BY <1>1, WordType
<1>2. ASSUME k <= 0 - 1 PROVE FALSE BY <1>2, WordType
<1>3. QED BY <1>1, <1>2

LEMMA WrapIsSame ==
  ASSUME NEW n \in Int PROVE Wrap(n) \in Int /\ Same(n, Wrap(n))
<1> DEFINE m == n + Int64Half
<1>1. PICK q \in Int, rem \in 0 .. Word - 1 : m = Word * q + rem /\ m % Word = rem
  BY DivisionByWord, WordType
<1>2. Wrap(n) = rem - Int64Half BY <1>1 DEF Wrap, Word
<1> HIDE DEF Word
<1>3. n = Wrap(n) + Word * q /\ Wrap(n) \in Int BY <1>1, <1>2, WordType
<1>4. QED BY <1>3 DEF Same

LEMMA SameIsEquivalence ==
  /\ \A m \in Int : Same(m, m)
  /\ \A m, n \in Int : Same(m, n) => Same(n, m)
  /\ \A l, m, n \in Int : Same(l, m) /\ Same(m, n) => Same(l, n)
<1> HIDE DEF Word
<1>1. ASSUME NEW m \in Int PROVE Same(m, m)
  <2>1. m = m + Word * 0 BY WordType
  <2>2. QED BY <2>1 DEF Same
<1>2. ASSUME NEW m \in Int, NEW n \in Int, Same(m, n) PROVE Same(n, m)
  <2>1. PICK k \in Int : m = n + Word * k BY <1>2 DEF Same
  <2>2. n = m + Word * (0 - k) BY <2>1, WordType
  <2>3. QED BY <2>2 DEF Same
<1>3. ASSUME NEW l \in Int, NEW m \in Int, NEW n \in Int, Same(l, m), Same(m, n)
      PROVE  Same(l, n)
  <2>1. PICK j \in Int : l = m + Word * j BY <1>3 DEF Same
  <2>2. PICK k \in Int : m = n + Word * k BY <1>3 DEF Same
  <2>3. l = n + Word * (j + k) BY <2>1, <2>2, WordType
  <2>4. QED BY <2>3 DEF Same
<1>4. QED BY <1>1, <1>2, <1>3

\* Sums and differences of numbers that wrap alike wrap alike.
LEMMA SameSum ==
  ASSUME NEW i \in Int, NEW j \in Int, NEW m \in Int, NEW n \in Int,
         Same(i, j), Same(m, n)
  PROVE  Same(i + m, j + n) /\ Same(i - m, j - n)
<1> HIDE DEF Word
<1>1. PICK k \in Int : i = j + Word * k BY DEF Same
<1>2. PICK l \in Int : m = n + Word * l BY DEF Same
<1>3. i + m = (j + n) + Word * (k + l) /\ i - m = (j - n) + Word * (k - l)
  BY <1>1, <1>2, WordType
<1>4. QED BY <1>3 DEF Same

LEMMA SameWraps ==
  ASSUME NEW m \in Int, NEW n \in Int
  PROVE  Same(m, n) <=> Wrap(m) = Wrap(n)
<1>1. /\ Wrap(m) \in Int /\ Wrap(n) \in Int
      /\ Same(m, Wrap(m)) /\ Same(n, Wrap(n))
  BY WrapIsSame
<1>2. ASSUME Wrap(m) = Wrap(n) PROVE Same(m, n)
  BY <1>1, <1>2, SameIsEquivalence
<1>3. ASSUME Same(m, n) PROVE Wrap(m) = Wrap(n)
  <2>1. Same(Wrap(m), Wrap(n)) BY <1>1, <1>3, SameIsEquivalence
  <2>2. PICK k \in Int : Wrap(m) = Wrap(n) + Word * k BY <2>1 DEF Same
  <2>3. PICK i \in 0 .. Word - 1 : (m + Int64Half) % Word = i BY DivisionByWord, WordType
  <2>4. PICK j \in 0 .. Word - 1 : (n + Int64Half) % Word = j BY DivisionByWord, WordType
  <2>5. Wrap(m) = i - Int64Half /\ Wrap(n) = j - Int64Half BY <2>3, <2>4 DEF Wrap, Word
  <2> HIDE DEF Word
  <2>6. Word * k \in Int BY WordType
  <2>7. Word * k = i - j BY <1>1, <2>2, <2>5, <2>6, WordType
  <2>8. k = 0 BY <2>7, WordType, MultipleOfWord
  <2>9. QED BY <1>1, <2>2, <2>8, WordType
<1>4. QED BY <1>2, <1>3
-----------------------------------------------------------------------------
(***************************************************************************)
(* What is posted to an account: Posted rows are its rows that carry a     *)
(* balance, each with its place, and BalanceSum is what they come to.      *)
(***************************************************************************)
Table == [Requests -> Seq(RowType)]
At(t, e) == t[e[1]][e[2]]
PostedRows(t, account) == {<<e, At(t, e)>> : e \in Balanced(t, account)}
Effects(t, account) == [p \in PostedRows(t, account) |-> Delta(p[2])]
BalanceSum(t, account) == SumFunctionOnSet(Effects(t, account), PostedRows(t, account))

LEMMA DeltaType ==
  ASSUME NEW row \in RowType
  PROVE  row.amount \in Int /\ Delta(row) \in Int
<1>1. row.amount \in Int BY Int64Assumption DEF RowType, Int64
<1>2. QED BY <1>1 DEF Delta

\* A row that carries a balance, and its place.
LEMMA BalancedRow ==
  ASSUME NEW t \in Table, NEW account, NEW e \in Balanced(t, account)
  PROVE  /\ e[1] \in Requests /\ e[2] \in DOMAIN t[e[1]] /\ e = <<e[1], e[2]>>
         /\ At(t, e) \in RowType /\ At(t, e).account = account /\ HasBalance(At(t, e))
<1>1. PICK r \in Requests : \E i \in DOMAIN t[r] : e = <<r, i>> BY DEF Balanced
<1>2. PICK i \in DOMAIN t[r] : e = <<r, i>> BY <1>1
<1>3. At(t, e).account = account /\ HasBalance(At(t, e)) BY DEF Balanced, At, HasBalance
<1>4. t[r] \in Seq(RowType) BY DEF Table
<1>5. t[r][i] \in RowType BY <1>2, <1>4
<1>6. At(t, e) = t[r][i] BY <1>2 DEF At
<1>7. QED BY <1>2, <1>3, <1>5, <1>6

LEMMA InBalanced ==
  ASSUME NEW t, NEW account, NEW e
  PROVE  e \in Balanced(t, account) <=>
           \E q \in Requests : \E i \in DOMAIN t[q] :
             /\ e = <<q, i>> /\ t[q][i] = At(t, e)
             /\ t[q][i].account = account /\ HasBalance(t[q][i])
BY DEF Balanced, At, HasBalance

LEMMA EffectsType ==
  ASSUME NEW t \in Table, NEW account, NEW p \in PostedRows(t, account)
  PROVE  /\ p[2].account = account
         /\ Effects(t, account)[p] = Delta(p[2])
         /\ Delta(p[2]) \in Int
BY BalancedRow, DeltaType DEF PostedRows, Effects

LEMMA SumIsInt ==
  ASSUME NEW t \in Table, NEW account, IsFiniteSet(PostedRows(t, account))
  PROVE  BalanceSum(t, account) \in Int
<1>1. \A p \in PostedRows(t, account) : Effects(t, account)[p] \in Int BY EffectsType
<1> HIDE DEF Effects
<1>2. QED BY <1>1, SumType DEF BalanceSum

\* CalculateBalance over the entries posted to an account.
LEMMA CalculatedIsSum ==
  ASSUME NEW t \in Table, NEW account
  PROVE  CalculateBalance(account, {<<e, t[e[1]][e[2]]>> : e \in Balanced(t, account)})
           = Wrap(BalanceSum(t, account))
<1> DEFINE P == PostedRows(t, account)
<1>1. P = {<<e, t[e[1]][e[2]]>> : e \in Balanced(t, account)} BY DEF PostedRows, At
<1>2. {p \in P : p[2].account = account} = P BY EffectsType
<1> HIDE DEF P
<1>3. CalculateBalance(account, P) =
        Wrap(SumFunction([p \in {q \in P : q[2].account = account} |-> Delta(p[2])]))
  BY DEF CalculateBalance
<1>4. CalculateBalance(account, P) = Wrap(SumFunction([p \in P |-> Delta(p[2])]))
  BY <1>2, <1>3
<1>5. QED BY <1>1, <1>4 DEF SumFunction, BalanceSum, Effects, P

-----------------------------------------------------------------------------
\* Two tables with the same rows that carry balances.
SamePosted(t1, t2) ==
  \A q \in Requests :
    \/ t1[q] = t2[q]
    \/ /\ \A i \in DOMAIN t1[q] : ~HasBalance(t1[q][i])
       /\ \A i \in DOMAIN t2[q] : ~HasBalance(t2[q][i])

LEMMA SameSums ==
  ASSUME NEW t1, NEW t2, NEW account, SamePosted(t1, t2)
  PROVE  /\ CurrentBalance(t1, account) = CurrentBalance(t2, account)
         /\ Balanced(t1, account) = Balanced(t2, account)
         /\ \A e \in Balanced(t1, account) : At(t1, e) = At(t2, e)
         /\ PostedRows(t1, account) = PostedRows(t2, account)
         /\ BalanceSum(t1, account) = BalanceSum(t2, account)
<1>1. ASSUME NEW q \in Requests, NEW i \in DOMAIN t1[q], t1[q][i].balanceAfter # Null
      PROVE  t1[q] = t2[q]
  BY <1>1 DEF HasBalance, SamePosted
<1>2. ASSUME NEW q \in Requests, NEW i \in DOMAIN t2[q], t2[q][i].balanceAfter # Null
      PROVE  t1[q] = t2[q]
  BY <1>2 DEF HasBalance, SamePosted
<1>3. Balanced(t1, account) = Balanced(t2, account) BY <1>1, <1>2 DEF Balanced
<1>4. \A e \in Balanced(t1, account) : At(t1, e) = At(t2, e) BY <1>1 DEF Balanced, At
<1>5. PostedRows(t1, account) = PostedRows(t2, account) BY <1>3, <1>4 DEF PostedRows
<1>6. CurrentBalance(t1, account) = CurrentBalance(t2, account)
  BY SameBalance DEF SamePosted
<1>7. QED BY <1>3, <1>4, <1>5, <1>6 DEF BalanceSum, Effects

\* Appending a row that carries a balance to a batch.
NextPlace(t, r) == <<r, Len(t[r]) + 1>>
IsAppended(t2, t, r, row) == t2 = [t EXCEPT ![r] = Append(t[r], row)]

LEMMA AppendedRow ==
  ASSUME NEW t \in Table, NEW r \in Requests, NEW row \in RowType, HasBalance(row),
         NEW t2, IsAppended(t2, t, r, row),
         NEW x, x = NextPlace(t, r)
  PROVE  /\ t2 \in Table
         /\ At(t2, x) = row
         /\ \A account :
              /\ Balanced(t2, account) = Balanced(t, account) \cup
                                         (IF row.account = account THEN {x} ELSE {})
              /\ x \notin Balanced(t, account)
              /\ \A e \in Balanced(t, account) : At(t2, e) = At(t, e)
<1> DEFINE n == Len(t[r]) + 1
<1>1. t[r] \in Seq(RowType) BY DEF Table
<1>2. /\ t2[r] = Append(t[r], row)
      /\ \A q \in Requests : q # r => t2[q] = t[q]
  BY DEF Table, IsAppended
<1>3. /\ Append(t[r], row) \in Seq(RowType)
      /\ DOMAIN t2[r] = DOMAIN t[r] \cup {n} /\ n \notin DOMAIN t[r]
      /\ t2[r][n] = row
      /\ \A i \in DOMAIN t[r] : t2[r][i] = t[r][i]
  BY <1>1, <1>2
<1>4. t2 \in Table BY <1>3 DEF Table, IsAppended
<1>5. At(t2, x) = row BY <1>3 DEF At, NextPlace
<1>6. ASSUME NEW account
      PROVE  /\ Balanced(t2, account) = Balanced(t, account) \cup
                                        (IF row.account = account THEN {x} ELSE {})
             /\ x \notin Balanced(t, account)
             /\ \A e \in Balanced(t, account) : At(t2, e) = At(t, e)
  <2> HIDE DEF n
  <2>1. x = <<r, n>> BY DEF n, NextPlace
  <2>2. ASSUME NEW e \in Balanced(t, account)
        PROVE  e # x /\ e \in Balanced(t2, account) /\ At(t2, e) = At(t, e)
    <3>1. PICK q \in Requests : \E i \in DOMAIN t[q] :
            /\ e = <<q, i>> /\ t[q][i] = At(t, e)
            /\ t[q][i].account = account /\ HasBalance(t[q][i])
      BY InBalanced
    <3>2. PICK i \in DOMAIN t[q] :
            /\ e = <<q, i>> /\ t[q][i] = At(t, e)
            /\ t[q][i].account = account /\ HasBalance(t[q][i])
      BY <3>1
    <3>3. i \in DOMAIN t2[q] /\ t2[q][i] = t[q][i] BY <1>2, <1>3
    <3>4. e # x BY <1>3, <2>1, <3>2
    <3>5. At(t2, e) = t2[q][i] BY <3>2 DEF At
    <3>6. QED BY <3>2, <3>3, <3>4, <3>5, InBalanced
  <2>3. ASSUME NEW e \in Balanced(t2, account), e # x PROVE e \in Balanced(t, account)
    <3>1. PICK q \in Requests : \E i \in DOMAIN t2[q] :
            /\ e = <<q, i>> /\ t2[q][i] = At(t2, e)
            /\ t2[q][i].account = account /\ HasBalance(t2[q][i])
      BY InBalanced
    <3>2. PICK i \in DOMAIN t2[q] :
            /\ e = <<q, i>> /\ t2[q][i] = At(t2, e)
            /\ t2[q][i].account = account /\ HasBalance(t2[q][i])
      BY <3>1
    <3>3. i \in DOMAIN t[q] /\ t2[q][i] = t[q][i] BY <1>2, <1>3, <2>1, <2>3, <3>2
    <3>4. At(t, e) = t[q][i] BY <3>2 DEF At
    <3>5. QED BY <3>2, <3>3, <3>4, InBalanced
  <2>4. x \in Balanced(t2, account) <=> row.account = account
    <3>1. ASSUME row.account = account PROVE x \in Balanced(t2, account)
      <4>1. n \in DOMAIN t2[r] /\ t2[r][n] = row /\ row = At(t2, x) BY <1>3, <1>5
      <4>2. QED BY <2>1, <3>1, <4>1, InBalanced
    <3>2. ASSUME x \in Balanced(t2, account) PROVE row.account = account
      BY <1>4, <1>5, <3>2, BalancedRow
    <3>3. QED BY <3>1, <3>2
  <2>5. QED BY <2>2, <2>3, <2>4
<1>7. QED BY <1>4, <1>5, <1>6

\* It adds its effect to the sum of its account and leaves the others.
LEMMA AppendedSum ==
  ASSUME NEW t \in Table, NEW r \in Requests, NEW row \in RowType, HasBalance(row),
         NEW t2, IsAppended(t2, t, r, row),
         NEW account, IsFiniteSet(PostedRows(t, account))
  PROVE  /\ IsFiniteSet(PostedRows(t2, account))
         /\ BalanceSum(t2, account) = BalanceSum(t, account) +
                               (IF row.account = account THEN Delta(row) ELSE 0)
<1> DEFINE x == NextPlace(t, r)
           p == <<x, row>>
           P == PostedRows(t, account)
           P2 == PostedRows(t2, account)
           f == Effects(t, account)
           f2 == Effects(t2, account)
<1>1. /\ t2 \in Table
      /\ At(t2, x) = row
      /\ Balanced(t2, account) = Balanced(t, account) \cup
                                 (IF row.account = account THEN {x} ELSE {})
      /\ x \notin Balanced(t, account)
      /\ \A e \in Balanced(t, account) : At(t2, e) = At(t, e)
  BY AppendedRow
<1>2. BalanceSum(t, account) \in Int BY SumIsInt
<1>3. CASE row.account # account
  <2>1. P2 = P BY <1>1, <1>3 DEF PostedRows
  <2>2. BalanceSum(t2, account) = BalanceSum(t, account) BY <2>1 DEF BalanceSum, Effects
  <2>3. QED BY <1>2, <1>3, <2>1, <2>2
<1>4. CASE row.account = account
  <2> HIDE DEF x
  <2>1. P2 = P \cup {p} BY <1>1, <1>4 DEF PostedRows
  <2>2. p \notin P BY <1>1 DEF PostedRows
  <2>3. /\ \A q \in P : f[q] = Delta(q[2]) /\ Delta(q[2]) \in Int
        /\ \A q \in P2 : f2[q] = Delta(q[2]) /\ Delta(q[2]) \in Int
    BY <1>1, EffectsType
  <2>4. f2[p] = Delta(row) BY <2>1, <2>3
  <2>5. IsFiniteSet(P) OBVIOUS
  <2>6. /\ BalanceSum(t, account) = SumFunctionOnSet(f, P)
        /\ BalanceSum(t2, account) = SumFunctionOnSet(f2, P2)
    BY DEF BalanceSum
  <2> HIDE DEF P, P2, p, f, f2
  <2>7. SumFunctionOnSet(f2, P2) = f2[p] + SumFunctionOnSet(f2, P)
    BY <2>1, <2>2, <2>3, <2>5, SumAdd
  <2>8. SumFunctionOnSet(f2, P) = SumFunctionOnSet(f, P)
    BY <2>1, <2>3, <2>5, SumSame
  <2>9. IsFiniteSet(P2) BY <2>1, <2>5, FS_AddElement
  <2>10. Delta(row) \in Int BY DeltaType
  <2>11. BalanceSum(t2, account) = BalanceSum(t, account) + Delta(row)
    BY <1>2, <2>4, <2>6, <2>7, <2>8, <2>10
  <2>12. QED BY <1>4, <2>9, <2>11 DEF P2
<1>5. QED BY <1>3, <1>4

\* It makes the sum the balance again, if it was the balance before and the row
\* is the latest of its account.
LEMMA AppendedBalance ==
  ASSUME NEW t \in Table, NEW r \in Requests, NEW row \in RowType, HasBalance(row),
         NEW t2, IsAppended(t2, t, r, row),
         NEW account, row.account = account, IsFiniteSet(PostedRows(t, account)),
         CurrentBalance(t, account) = {Wrap(BalanceSum(t, account))},
         \A e \in Balanced(t, account) : At(t, e).createdAt < row.createdAt,
         NEW current \in CurrentBalance(t, account),
         row.balanceAfter = Apply(current, row)
  PROVE  CurrentBalance(t2, account) = {Wrap(BalanceSum(t2, account))}
<1>1. PICK x : x = NextPlace(t, r) OBVIOUS
<1>2. /\ t2 \in Table
      /\ At(t2, x) = row
      /\ Balanced(t2, account) = Balanced(t, account) \cup {x}
      /\ x \notin Balanced(t, account)
      /\ \A e \in Balanced(t, account) : At(t2, e) = At(t, e)
  BY <1>1, AppendedRow
<1>3. \A e \in Balanced(t2, account) : At(t2, e).createdAt \in Int
  <2>1. \A e \in Balanced(t2, account) : At(t2, e) \in RowType BY <1>2, BalancedRow
  <2>2. \A other \in RowType : other.createdAt \in Int BY ClockAssumption DEF RowType
  <2>3. QED BY <2>1, <2>2
<1> DEFINE latest == {e \in Balanced(t2, account) : \A f \in Balanced(t2, account) :
                        At(t2, f).createdAt <= At(t2, e).createdAt}
<1>4. latest = {x} BY <1>2, <1>3
<1>5. CurrentBalance(t2, account) = {At(t2, e).balanceAfter : e \in latest}
  BY <1>2 DEF CurrentBalance, At
<1>6. CurrentBalance(t2, account) = {row.balanceAfter}
  <2> HIDE DEF latest
  <2>1. QED BY <1>2, <1>4, <1>5
<1>7. BalanceSum(t, account) \in Int /\ Delta(row) \in Int BY SumIsInt, DeltaType
<1>8. BalanceSum(t2, account) = BalanceSum(t, account) + Delta(row) BY AppendedSum
<1>9. row.balanceAfter = Wrap(Wrap(BalanceSum(t, account)) + Delta(row)) BY DEF Apply
<1> DEFINE s == BalanceSum(t, account)
           d == Delta(row)
<1> HIDE DEF s, d
<1>10. Wrap(Wrap(s) + d) = Wrap(s + d)
  <2>1. s \in Int /\ d \in Int BY <1>7 DEF s, d
  <2>2. Wrap(s) \in Int /\ Same(s, Wrap(s)) /\ Same(d, d)
    BY <2>1, WrapIsSame, SameIsEquivalence
  <2>3. Same(s + d, Wrap(s) + d) BY <2>1, <2>2, SameSum
  <2>4. s + d \in Int /\ Wrap(s) + d \in Int BY <2>1, <2>2
  <2>5. QED BY <2>3, <2>4, SameWraps
<1>11. QED BY <1>6, <1>8, <1>9, <1>10 DEF s, d

LEMMA SameRows ==
  ASSUME NEW t1, NEW t2, NEW account, Balanced(t2, account) = Balanced(t1, account),
         \A e \in Balanced(t1, account) : At(t2, e) = At(t1, e)
  PROVE  /\ CurrentBalance(t2, account) = CurrentBalance(t1, account)
         /\ BalanceSum(t2, account) = BalanceSum(t1, account)
<1>1. \A e \in Balanced(t1, account) : t2[e[1]][e[2]] = t1[e[1]][e[2]] BY DEF At
<1>2. CurrentBalance(t2, account) = CurrentBalance(t1, account) BY <1>1 DEF CurrentBalance
<1>3. PostedRows(t2, account) = PostedRows(t1, account) BY DEF PostedRows
<1>4. QED BY <1>2, <1>3 DEF BalanceSum, Effects

LEMMA AppendedKeeps ==
  ASSUME NEW t \in Table, NEW r \in Requests, NEW row \in RowType, HasBalance(row),
         NEW t2, IsAppended(t2, t, r, row),
         NEW account, IsFiniteSet(PostedRows(t, account)),
         CurrentBalance(t, account) = {Wrap(BalanceSum(t, account))},
         row.account = account =>
           \A e \in Balanced(t, account) : At(t, e).createdAt < row.createdAt,
         row.account = account =>
           \E current \in CurrentBalance(t, row.account) :
             row.balanceAfter = Apply(current, row)
  PROVE  CurrentBalance(t2, account) = {Wrap(BalanceSum(t2, account))}
<1>1. CASE row.account = account BY <1>1, AppendedBalance
<1>2. CASE row.account # account
  <2>1. PICK x : x = NextPlace(t, r) OBVIOUS
  <2>2. /\ Balanced(t2, account) = Balanced(t, account) \cup
                                   (IF row.account = account THEN {x} ELSE {})
        /\ \A e \in Balanced(t, account) : At(t2, e) = At(t, e)
    BY <2>1, AppendedRow
  <2>3. Balanced(t2, account) = Balanced(t, account) BY <1>2, <2>2
  <2>4. QED BY <2>2, <2>3, SameRows
<1>3. QED BY <1>1, <1>2

-----------------------------------------------------------------------------
(***************************************************************************)
(* Posting a batch.  Its rows are appended one by one to a table in which  *)
(* the batch has no row that carries a balance.                            *)
(***************************************************************************)
Partly(t, r, rows, i) == [t EXCEPT ![r] = SubSeq(rows, 1, i)]

\* What holds at zero and is handed on holds up to any number.
LEMMA UpTo ==
  ASSUME NEW n \in Nat, NEW Good, 0 \in Good,
         \A i \in 1 .. n : i - 1 \in Good => i \in Good
  PROVE  \A i \in 0 .. n : i \in Good
<1> DEFINE Bad == {i \in 0 .. n : i \notin Good}
<1>1. SUFFICES ASSUME Bad # {} PROVE FALSE OBVIOUS
<1>2. Bad \subseteq Nat OBVIOUS
<1>3. PICK i \in Bad : \A k \in Bad : i <= k
  <2> HIDE DEF Bad
  <2>1. QED BY <1>1, <1>2, NatMinimum
<1>4. i # 0 /\ i \in 1 .. n OBVIOUS
<1>5. i - 1 \notin Bad BY <1>3, <1>4
<1>6. i - 1 \in Good BY <1>4, <1>5
<1>7. QED BY <1>4, <1>6

LEMMA PartlyType ==
  ASSUME NEW t \in Table, NEW r \in Requests, NEW rows \in Seq(RowType)
  PROVE  /\ \A i \in 0 .. Len(rows) :
              /\ Partly(t, r, rows, i) \in Table
              /\ Partly(t, r, rows, i)[r] = SubSeq(rows, 1, i)
              /\ \A q \in Requests : q # r => Partly(t, r, rows, i)[q] = t[q]
         /\ \A i \in 1 .. Len(rows) :
              IsAppended(Partly(t, r, rows, i), Partly(t, r, rows, i - 1), r, rows[i])
         /\ Partly(t, r, rows, Len(rows)) = [t EXCEPT ![r] = rows]
<1>1. ASSUME NEW i \in 0 .. Len(rows)
      PROVE  /\ SubSeq(rows, 1, i) \in Seq(RowType)
             /\ Partly(t, r, rows, i) \in Table
             /\ Partly(t, r, rows, i)[r] = SubSeq(rows, 1, i)
             /\ \A q \in Requests : q # r => Partly(t, r, rows, i)[q] = t[q]
  <2>1. \A j \in 1 .. i : rows[j] \in RowType OBVIOUS
  <2>2. SubSeq(rows, 1, i) \in Seq(RowType) BY <2>1
  <2>3. QED BY <2>2 DEF Partly, Table
<1>2. ASSUME NEW i \in 1 .. Len(rows)
      PROVE  IsAppended(Partly(t, r, rows, i), Partly(t, r, rows, i - 1), r, rows[i])
  <2>1. i - 1 \in 0 .. Len(rows) OBVIOUS
  <2>2. SubSeq(rows, 1, i) = Append(SubSeq(rows, 1, i - 1), rows[i]) OBVIOUS
  <2>3. Partly(t, r, rows, i - 1)[r] = SubSeq(rows, 1, i - 1) BY <1>1, <2>1
  <2>4. Partly(t, r, rows, i) = [t EXCEPT ![r] = Append(SubSeq(rows, 1, i - 1), rows[i])]
    BY <2>2 DEF Partly
  <2>5. Partly(t, r, rows, i) =
          [Partly(t, r, rows, i - 1) EXCEPT ![r] = Append(SubSeq(rows, 1, i - 1), rows[i])]
    BY <2>4 DEF Partly, Table
  <2>6. QED BY <2>3, <2>5 DEF IsAppended
<1>3. SubSeq(rows, 1, Len(rows)) = rows OBVIOUS
<1>4. QED BY <1>1, <1>2, <1>3 DEF Partly

\* One row more, and all of them.
LEMMA PartlyStep ==
  ASSUME NEW t \in Table, NEW r \in Requests, NEW rows \in Seq(RowType),
         NEW i \in 1 .. Len(rows)
  PROVE  /\ Partly(t, r, rows, i - 1) \in Table
         /\ IsAppended(Partly(t, r, rows, i), Partly(t, r, rows, i - 1), r, rows[i])
<1>1. i - 1 \in 0 .. Len(rows) OBVIOUS
<1>2. \A k \in 0 .. Len(rows) : Partly(t, r, rows, k) \in Table BY PartlyType
<1>3. Partly(t, r, rows, i - 1) \in Table BY <1>1, <1>2
<1>4. QED BY <1>3, PartlyType

LEMMA PartlyWhole ==
  ASSUME NEW t \in Table, NEW r \in Requests, NEW rows \in Seq(RowType),
         NEW t2, t2 = [t EXCEPT ![r] = rows]
  PROVE  t2 \in Table /\ Partly(t, r, rows, Len(rows)) = t2
<1>1. t2 \in Table BY DEF Table
<1>2. Partly(t, r, rows, Len(rows)) = t2 BY PartlyType
<1>3. QED BY <1>1, <1>2

Unposted(t, r) == \A i \in DOMAIN t[r] : ~HasBalance(t[r][i])
Carry(rows) == \A i \in 1 .. Len(rows) : HasBalance(rows[i])

\* The balance of each row of the account is computed from the one it then has.
Computed(t, r, rows, account) ==
  \A i \in 1 .. Len(rows) : rows[i].account = account =>
    \E current \in CurrentBalance(Partly(t, r, rows, i - 1), rows[i].account) :
      rows[i].balanceAfter = Apply(current, rows[i])

\* The account's rows in the batch are later than those it then has.
Later(t, r, rows, account) ==
  \A i \in 1 .. Len(rows) : rows[i].account = account =>
    \A e \in Balanced(Partly(t, r, rows, i - 1), account) :
      At(Partly(t, r, rows, i - 1), e).createdAt < rows[i].createdAt

BalanceIsRight(t, account) == CurrentBalance(t, account) = {Wrap(BalanceSum(t, account))}

\* Before its first row the table carries the balances it carried.
LEMMA PartlyStart ==
  ASSUME NEW t \in Table, NEW r \in Requests, NEW rows \in Seq(RowType), Unposted(t, r),
         NEW account
  PROVE  /\ CurrentBalance(Partly(t, r, rows, 0), account) = CurrentBalance(t, account)
         /\ PostedRows(Partly(t, r, rows, 0), account) = PostedRows(t, account)
         /\ BalanceSum(Partly(t, r, rows, 0), account) = BalanceSum(t, account)
<1>1. PICK t0 : t0 = Partly(t, r, rows, 0) OBVIOUS
<1>2. t0[r] = <<>> /\ \A q \in Requests : q # r => t0[q] = t[q]
  BY <1>1, PartlyType
<1>3. SamePosted(t0, t) BY <1>2 DEF SamePosted, Unposted
<1>4. QED BY <1>1, <1>3, SameSums

LEMMA PartlyFinite ==
  ASSUME NEW t \in Table, NEW r \in Requests, NEW rows \in Seq(RowType), Unposted(t, r),
         Carry(rows),
         NEW account, IsFiniteSet(PostedRows(t, account))
  PROVE  \A i \in 0 .. Len(rows) : IsFiniteSet(PostedRows(Partly(t, r, rows, i), account))
<1> DEFINE Good == {i \in 0 .. Len(rows) : IsFiniteSet(PostedRows(Partly(t, r, rows, i), account))}
<1>1. 0 \in Good BY PartlyStart
<1>2. ASSUME NEW i \in 1 .. Len(rows), i - 1 \in Good PROVE i \in Good
  <2>1. Partly(t, r, rows, i - 1) \in Table BY PartlyStep
  <2>2. IsAppended(Partly(t, r, rows, i), Partly(t, r, rows, i - 1), r, rows[i])
    BY PartlyStep
  <2>3. rows[i] \in RowType /\ HasBalance(rows[i]) BY DEF Carry
  <2>4. IsFiniteSet(PostedRows(Partly(t, r, rows, i - 1), account)) BY <1>2
  <2>5. IsFiniteSet(PostedRows(Partly(t, r, rows, i), account))
    BY <2>1, <2>2, <2>3, <2>4, AppendedSum
  <2>6. QED BY <2>5
<1>3. Len(rows) \in Nat OBVIOUS
<1> HIDE DEF Good
<1>4. \A i \in 0 .. Len(rows) : i \in Good BY <1>1, <1>2, <1>3, UpTo
<1>5. QED BY <1>4 DEF Good

\* An account's balance is its sum after the batch as before it, if each row of
\* the batch is later than what the account had and is computed from it.
LEMMA PartlyBalance ==
  ASSUME NEW t \in Table, NEW r \in Requests, NEW rows \in Seq(RowType), Unposted(t, r),
         Carry(rows),
         NEW account, IsFiniteSet(PostedRows(t, account)), BalanceIsRight(t, account),
         Computed(t, r, rows, account), Later(t, r, rows, account)
  PROVE  BalanceIsRight(Partly(t, r, rows, Len(rows)), account)
<1> DEFINE T(i) == Partly(t, r, rows, i)
           Good == {i \in 0 .. Len(rows) : BalanceIsRight(T(i), account)}
<1>1. 0 \in Good BY PartlyStart DEF BalanceIsRight
<1>2. ASSUME NEW i \in 1 .. Len(rows), i - 1 \in Good PROVE i \in Good
  <2>1. PICK t1 : t1 = T(i - 1) OBVIOUS
  <2>2. PICK t2 : t2 = T(i) OBVIOUS
  <2>3. t1 \in Table /\ IsAppended(t2, t1, r, rows[i]) BY <2>1, <2>2, PartlyStep
  <2>4. rows[i] \in RowType /\ HasBalance(rows[i]) BY DEF Carry
  <2>5. IsFiniteSet(PostedRows(t1, account)) BY <2>1, PartlyFinite
  <2>6. CurrentBalance(t1, account) = {Wrap(BalanceSum(t1, account))}
    BY <1>2, <2>1 DEF BalanceIsRight
  <2>7. rows[i].account = account =>
          \A e \in Balanced(t1, account) : At(t1, e).createdAt < rows[i].createdAt
    BY <2>1 DEF Later
  <2>8. rows[i].account = account =>
          \E current \in CurrentBalance(t1, rows[i].account) :
            rows[i].balanceAfter = Apply(current, rows[i])
    BY <2>1 DEF Computed
  <2>9. CurrentBalance(t2, account) = {Wrap(BalanceSum(t2, account))}
    BY <2>3, <2>4, <2>5, <2>6, <2>7, <2>8, AppendedKeeps
  <2>10. QED BY <2>2, <2>9 DEF BalanceIsRight
<1>3. Len(rows) \in Nat /\ Len(rows) \in 0 .. Len(rows) OBVIOUS
<1> HIDE DEF Good
<1>4. Len(rows) \in Good BY <1>1, <1>2, <1>3, UpTo
<1>5. QED BY <1>4 DEF Good
-----------------------------------------------------------------------------
(***************************************************************************)
(* No update is lost.  The invariant adds to the statement what the order  *)
(* of posting rests on: the journal names each posted batch once.          *)
(***************************************************************************)
JournalInv ==
  /\ \A m, n \in DOMAIN journal : journal[m] = journal[n] => m = n
  /\ \A n \in DOMAIN journal : batches[journal[n]] = "posted"
  /\ \A r \in Requests : batches[r] = "posted" => \E n \in DOMAIN journal : journal[n] = r
FiniteInv == \A account \in Accounts : IsFiniteSet(PostedRows(entries, account))
SumInv ==
  \A account \in Accounts :
    Tracked(account) /\ PostedInOrder(account) => GetAccountBalance(account) = {PostedSum(account)}
BalanceInv == JournalInv /\ FiniteInv /\ SumInv

\* The steps that touch the ledger.
LEMMA LedgerSteps ==
  ASSUME [Next]_vars
  PROVE  \/ UNCHANGED <<batches, entries, journal>>
         \/ \E r \in Requests : CreateBatch(r) \/ CommitPost(r)
<1>1. CASE UNCHANGED vars BY <1>1 DEF vars, dbVars
<1>2. CASE Tick \/ Crash BY <1>2 DEF Tick, Crash, dbVars
<1>3. ASSUME NEW r \in Requests,
             \/ Receive(r) \/ CreateBatchFails(r) \/ BeginPost(r)
             \/ PostEntry(r) \/ PostFails(r) \/ Fetch(r)
      PROVE  UNCHANGED <<batches, entries, journal>>
  BY <1>3 DEF Receive, CreateBatchFails, BeginPost, PostEntry, PostFails, Rollback,
              Fetch, dbVars
<1>4. ASSUME NEW c \in Readers,
             ReadEntries(c) \/ ReadFails(c) \/ \E r \in Requests : ReadBatch(c, r)
      PROVE  UNCHANGED <<batches, entries, journal>>
  BY <1>4 DEF ReadEntries, ReadFails, ReadBatch, dbVars
<1>5. QED BY <1>1, <1>2, <1>3, <1>4 DEF Next, Serve

\* Creating a batch adds no row that carries a balance.
LEMMA CreatedRows ==
  ASSUME TypeOK, IInv, NEW r \in Requests, CreateBatch(r)
  PROVE  /\ \A q \in Requests :
              \/ entries[q] = entries'[q]
              \/ /\ \A i \in DOMAIN entries[q] : ~HasBalance(entries[q][i])
                 /\ \A i \in DOMAIN entries'[q] : ~HasBalance(entries'[q][i])
         /\ batches[r] = "absent"
         /\ batches' = [batches EXCEPT ![r] = "pending"]
         /\ journal' = journal
<1>1. PICK stamp \in Stamps(r) :
        entries' = [entries EXCEPT ![r] =
          [i \in DOMAIN request[r] |-> Row(request[r][i], stamp[i])]]
  BY DEF CreateBatch
<1>2. entries'[r] = [i \in DOMAIN request[r] |-> Row(request[r][i], stamp[i])]
  BY <1>1 DEF TypeOK
<1>3. \A i \in DOMAIN entries'[r] : ~HasBalance(entries'[r][i])
  BY <1>2 DEF HasBalance, Row
<1>4. \A q \in Requests : q # r => entries'[q] = entries[q] BY <1>1 DEF TypeOK
<1>5. batches[r] = "absent" BY DEF CreateBatch, IInv, PhaseMatchesBatch
<1>6. \A i \in DOMAIN entries[r] : ~HasBalance(entries[r][i])
  BY <1>5 DEF IInv, PostedAllOrNothing
<1>7. QED BY <1>3, <1>4, <1>5, <1>6 DEF CreateBatch

\* What a commit does to the ledger.
LEMMA CommittedRows ==
  ASSUME TypeOK, IInv, NEW r \in Requests, CommitPost(r)
  PROVE  /\ work[r] \in Seq(RowType)
         /\ entries' = [entries EXCEPT ![r] = work[r]]
         /\ batches' = [batches EXCEPT ![r] = "posted"]
         /\ journal' = Append(journal, r)
         /\ batches[r] = "pending"
         /\ Unposted(entries, r)
         /\ Len(work[r]) = Len(entries[r])
         /\ \A i \in 1 .. Len(work[r]) : SameLine(work[r][i], entries[r][i])
         /\ Carry(work[r])
         /\ \A account : Tracked(account) => Computed(entries, r, work[r], account)
<1>1. work[r] \in Seq(RowType) /\ entries[r] \in Seq(RowType) BY DEF TypeOK
<1>2. batches[r] = "pending" /\ WorkIsLegal(r)
  BY DEF CommitPost, InTransaction, IInv, PhaseMatchesBatch, TransactionInv
<1>3. Unposted(entries, r) BY <1>2 DEF IInv, PostedAllOrNothing, Unposted
<1>4. \A i \in 1 .. Len(work[r]) :
        HasBalance(work[r][i]) /\ SameLine(work[r][i], entries[r][i])
  BY <1>2, WorkRow
<1>5. ASSUME NEW account, Tracked(account)
      PROVE  Computed(entries, r, work[r], account)
  <2>1. SUFFICES ASSUME NEW i \in 1 .. Len(work[r]), work[r][i].account = account
                 PROVE  \E current \in CurrentBalance(Partly(entries, r, work[r], i - 1),
                                                      work[r][i].account) :
                          work[r][i].balanceAfter = Apply(current, work[r][i])
    BY DEF Computed
  <2>2. i \in DOMAIN work[r] BY <1>1
  <2>3. LegalRow(r, i) BY <1>5, <2>1, <2>2, RowIsLegal
  <2>4. PICK current \in Serial!Latest([entries EXCEPT ![r] = SubSeq(work[r], 1, i - 1)],
                                       work[r][i].account) :
          work[r][i] = [entries[r][i] EXCEPT !.balanceAfter = Apply(current, work[r][i])]
    BY <2>3 DEF LegalRow
  <2>5. current \in CurrentBalance(Partly(entries, r, work[r], i - 1), work[r][i].account)
    BY <2>4, SameAsLatest DEF Partly
  <2>6. entries[r][i] \in RowType
    <3>1. i \in 1 .. Len(entries[r]) BY <1>2 DEF WorkIsLegal
    <3>2. QED BY <1>1, <3>1
  <2>7. work[r][i].balanceAfter = Apply(current, work[r][i])
    BY <2>4, <2>6 DEF RowType
  <2>8. QED BY <2>5, <2>7
<1>6. Carry(work[r]) BY <1>4 DEF Carry
<1>7. QED BY <1>1, <1>2, <1>3, <1>4, <1>5, <1>6 DEF CommitPost, UpdateRows

\* Rows stay what they are, and what was untracked stays so.
LEMMA TrackedBefore ==
  ASSUME TypeOK, IInv, [Next]_vars, NEW account, Tracked(account)'
  PROVE  Tracked(account)
<1>1. late \subseteq late' BY LateSteps
<1>2. ASSUME NEW q \in Requests PROVE AccountsOf(q) \subseteq AccountsOf(q)'
  <2>1. CASE entries' = entries BY <2>1 DEF AccountsOf
  <2>2. ASSUME NEW r \in Requests, CreateBatch(r) PROVE AccountsOf(q) \subseteq AccountsOf(q)'
    <3>1. batches[r] = "absent" BY <2>2 DEF CreateBatch, IInv, PhaseMatchesBatch
    <3>2. entries[r] = <<>> BY <3>1 DEF IInv, PostedAllOrNothing
    <3>3. q # r => entries'[q] = entries[q] BY <2>2 DEF CreateBatch, TypeOK
    <3>4. QED BY <3>2, <3>3 DEF AccountsOf
  <2>3. ASSUME NEW r \in Requests, CommitPost(r) PROVE AccountsOf(q) \subseteq AccountsOf(q)'
    <3>1. /\ work[r] \in Seq(RowType) /\ Len(work[r]) = Len(entries[r])
          /\ entries' = [entries EXCEPT ![r] = work[r]]
          /\ \A i \in 1 .. Len(work[r]) : SameLine(work[r][i], entries[r][i])
      BY <2>3, CommittedRows
    <3>2. entries[r] \in Seq(RowType) BY DEF TypeOK
    <3>3. ASSUME q = r, NEW i \in DOMAIN entries[r]
          PROVE  i \in DOMAIN entries'[q] /\ entries'[q][i].account = entries[r][i].account
      <4>1. i \in 1 .. Len(work[r]) BY <3>1, <3>2
      <4>2. SameLine(work[r][i], entries[r][i]) BY <3>1, <4>1
      <4>3. work[r][i] \in RowType /\ entries[r][i] \in RowType BY <3>1, <3>2, <4>1
      <4>4. work[r][i].account = entries[r][i].account BY <4>2, <4>3 DEF SameLine, RowType
      <4>5. entries'[q] = work[r] BY <3>1, <3>3 DEF TypeOK
      <4>6. QED BY <3>1, <4>1, <4>4, <4>5
    <3>4. q # r => entries'[q] = entries[q] BY <3>1 DEF TypeOK
    <3>5. QED BY <3>3, <3>4 DEF AccountsOf
  <2>4. QED BY <2>1, <2>2, <2>3, LedgerSteps
<1>3. \A p \in late : p[1] \in Requests /\ p[2] \in Requests BY DEF TypeOK
<1>4. QED BY <1>1, <1>2, <1>3 DEF Tracked

\* Appending a batch to a journal without it leaves the places of the others.
PlaceIn(j, r) == CHOOSE n \in DOMAIN j : j[n] = r
LEMMA PlacesKept ==
  ASSUME NEW j \in Seq(Requests), NEW r \in Requests,
         \A m, n \in DOMAIN j : j[m] = j[n] => m = n,
         \A n \in DOMAIN j : j[n] # r
  PROVE  /\ \A n \in DOMAIN j :
              /\ PlaceIn(j, j[n]) = n /\ PlaceIn(Append(j, r), j[n]) = n
              /\ n < PlaceIn(Append(j, r), r)
         /\ \A m, n \in DOMAIN Append(j, r) : Append(j, r)[m] = Append(j, r)[n] => m = n
<1> DEFINE k == Append(j, r)
           l == Len(j) + 1
<1>1. /\ DOMAIN k = DOMAIN j \cup {l} /\ l \notin DOMAIN j
      /\ k[l] = r /\ \A n \in DOMAIN j : k[n] = j[n] /\ n < l
  OBVIOUS
<1> HIDE DEF k, l
<1>2. \A m, n \in DOMAIN k : k[m] = k[n] => m = n BY <1>1
<1>3. \A n \in DOMAIN j : PlaceIn(j, j[n]) = n BY DEF PlaceIn
<1>4. \A n \in DOMAIN k : PlaceIn(k, k[n]) = n BY <1>2 DEF PlaceIn
<1>5. QED BY <1>1, <1>2, <1>3, <1>4 DEF k

Earlier(t, r, rows, i, account, e, t2) ==
  /\ e \in Balanced(t2, account) /\ <<r, i>> \in Balanced(t2, account)
  /\ At(t2, <<r, i>>) = rows[i] /\ At(t2, e) = At(Partly(t, r, rows, i - 1), e)
  /\ e[1] = r => e[2] \in Int /\ e[2] < i
  /\ e[1] # r => e \in Balanced(t, account) /\ e[1] \in Requests

\* The rows an account has before a row of the batch is computed are among those
\* it has in the end, as is that row.
LEMMA EarlierRows ==
  ASSUME NEW t \in Table, NEW r \in Requests, NEW rows \in Seq(RowType),
         Carry(rows),
         NEW account, NEW i \in 1 .. Len(rows), rows[i].account = account,
         NEW e \in Balanced(Partly(t, r, rows, i - 1), account),
         NEW t2, t2 = Partly(t, r, rows, Len(rows))
  PROVE  Earlier(t, r, rows, i, account, e, t2)
<1>1. PICK t1 : t1 = Partly(t, r, rows, i - 1) OBVIOUS
<1>2. /\ t1[r] = SubSeq(rows, 1, i - 1)
      /\ \A q \in Requests : q # r => t1[q] = t[q]
  <2>1. i - 1 \in 0 .. Len(rows) OBVIOUS
  <2>2. QED BY <1>1, <2>1, PartlyType
<1>3. /\ t2[r] = rows
      /\ \A q \in Requests : q # r => t2[q] = t[q]
  BY PartlyType DEF Table
<1>4. PICK q \in Requests : \E j \in DOMAIN t1[q] :
        /\ e = <<q, j>> /\ t1[q][j] = At(t1, e)
        /\ t1[q][j].account = account /\ HasBalance(t1[q][j])
  BY <1>1, InBalanced
<1>5. PICK j \in DOMAIN t1[q] :
        /\ e = <<q, j>> /\ t1[q][j] = At(t1, e)
        /\ t1[q][j].account = account /\ HasBalance(t1[q][j])
  BY <1>4
<1>6. <<r, i>> \in Balanced(t2, account) /\ At(t2, <<r, i>>) = rows[i]
  <2>1. i \in DOMAIN t2[r] /\ t2[r][i] = rows[i] /\ HasBalance(rows[i]) BY <1>3 DEF Carry
  <2>2. At(t2, <<r, i>>) = t2[r][i] BY DEF At
  <2>3. QED BY <2>1, <2>2, InBalanced
<1>7. /\ j \in DOMAIN t2[q] /\ t2[q][j] = t1[q][j]
      /\ q = r => j \in Int /\ j < i
  <2>1. CASE q = r
    <3>1. /\ DOMAIN SubSeq(rows, 1, i - 1) = 1 .. i - 1
          /\ \A k \in 1 .. i - 1 : SubSeq(rows, 1, i - 1)[k] = rows[k] /\ k \in DOMAIN rows
      OBVIOUS
    <3>2. j \in 1 .. i - 1 BY <1>2, <2>1, <3>1
    <3>3. t1[q][j] = rows[j] /\ t2[q][j] = rows[j] /\ j \in DOMAIN rows
      BY <1>2, <1>3, <2>1, <3>1, <3>2
    <3>4. QED BY <1>3, <2>1, <3>2, <3>3
  <2>2. CASE q # r BY <1>2, <1>3, <2>2
  <2>3. QED BY <2>1, <2>2
<1>8. e \in Balanced(t2, account) /\ At(t2, e) = At(t1, e)
  <2>1. At(t2, e) = t2[q][j] BY <1>5 DEF At
  <2>2. QED BY <1>5, <1>7, <2>1, InBalanced
<1>9. q # r => e \in Balanced(t, account)
  <2>1. SUFFICES ASSUME q # r PROVE e \in Balanced(t, account) OBVIOUS
  <2>2. t1[q] = t[q] BY <1>2, <2>1
  <2>3. At(t, e) = t[q][j] BY <1>5 DEF At
  <2>4. QED BY <1>5, <2>2, <2>3, InBalanced
<1>10. e[1] = q /\ e[2] = j BY <1>5
<1>11. QED BY <1>1, <1>6, <1>7, <1>8, <1>9, <1>10 DEF Earlier

\* A batch whose rows carry balances has a place in the journal.
LEMMA InJournal ==
  ASSUME TypeOK, IInv, JournalInv, NEW account, NEW e \in Balanced(entries, account)
  PROVE  e[1] \in Requests /\ \E n \in DOMAIN journal : journal[n] = e[1]
<1>1. entries \in Table BY DEF TypeOK, Table
<1>2. /\ e[1] \in Requests /\ e[2] \in DOMAIN entries[e[1]]
      /\ HasBalance(entries[e[1]][e[2]])
  BY <1>1, BalancedRow DEF At
<1>3. batches[e[1]] = "posted" BY <1>2 DEF IInv, PostedAllOrNothing
<1>4. QED BY <1>2, <1>3 DEF JournalInv

LEMMA CreateKeepsBalances ==
  ASSUME TypeOK, IInv, BalanceInv, [Next]_vars, NEW r \in Requests, CreateBatch(r)
  PROVE  BalanceInv'
<1>1. PICK t2 : t2 = entries' OBVIOUS
<1>2. /\ \A q \in Requests :
           \/ entries[q] = t2[q]
           \/ /\ \A i \in DOMAIN entries[q] : ~HasBalance(entries[q][i])
              /\ \A i \in DOMAIN t2[q] : ~HasBalance(t2[q][i])
      /\ batches[r] = "absent" /\ batches' = [batches EXCEPT ![r] = "pending"]
      /\ journal' = journal
  BY <1>1, CreatedRows
<1>3. PICK t1 : t1 = entries OBVIOUS
<1>4. \A account :
        /\ CurrentBalance(t1, account) = CurrentBalance(t2, account)
        /\ Balanced(t1, account) = Balanced(t2, account)
        /\ \A e \in Balanced(t1, account) : t1[e[1]][e[2]] = t2[e[1]][e[2]]
        /\ PostedRows(t1, account) = PostedRows(t2, account)
  <2>1. ASSUME NEW account
        PROVE  /\ CurrentBalance(t1, account) = CurrentBalance(t2, account)
               /\ Balanced(t1, account) = Balanced(t2, account)
               /\ \A e \in Balanced(t1, account) : At(t1, e) = At(t2, e)
               /\ PostedRows(t1, account) = PostedRows(t2, account)
    BY <1>2, <1>3, SameSums DEF SamePosted
  <2>2. QED BY <2>1 DEF At
<1>5. JournalInv'
  <2>1. /\ batches[r] = "absent" /\ batches' = [batches EXCEPT ![r] = "pending"]
        /\ journal' = journal
    BY <1>2
  <2>2. \A q \in Requests : q # r => batches'[q] = batches[q] BY <2>1 DEF TypeOK
  <2>3. batches'[r] = "pending" BY <2>1 DEF TypeOK
  <2>4. \A n \in DOMAIN journal : journal[n] \in Requests BY DEF TypeOK
  <2>5. JournalInv BY DEF BalanceInv
  <2>6. \A n \in DOMAIN journal : batches'[journal[n]] = "posted"
    BY <2>1, <2>2, <2>4, <2>5 DEF JournalInv
  <2>7. \A q \in Requests : batches'[q] = "posted" => \E n \in DOMAIN journal : journal[n] = q
    BY <2>2, <2>3, <2>5 DEF JournalInv
  <2>8. QED BY <2>1, <2>5, <2>6, <2>7 DEF JournalInv
<1>6. FiniteInv' BY <1>1, <1>3, <1>4 DEF BalanceInv, FiniteInv
<1>7. ASSUME NEW account \in Accounts, Tracked(account)', PostedInOrder(account)'
      PROVE  GetAccountBalance(account)' = {PostedSum(account)'}
  <2>1. \A e, f : PostedBefore(e, f)' <=> PostedBefore(e, f)
    BY <1>2 DEF PostedBefore, Place
  <2>2. PostedInOrder(account)
    BY <1>1, <1>3, <1>4, <1>7, <2>1 DEF PostedInOrder
  <2>3. GetAccountBalance(account) = {PostedSum(account)}
    BY <1>7, <2>2, TrackedBefore DEF BalanceInv, SumInv
  <2>4. GetAccountBalance(account)' = GetAccountBalance(account)
    BY <1>1, <1>3, <1>4 DEF GetAccountBalance
  <2>5. {<<e, t1[e[1]][e[2]]>> : e \in Balanced(t1, account)} =
          {<<e, t2[e[1]][e[2]]>> : e \in Balanced(t2, account)}
    BY <1>4
  <2>6. PostedSum(account)' = PostedSum(account)
    BY <1>1, <1>3, <2>5 DEF PostedSum
  <2>7. QED BY <2>3, <2>4, <2>6
<1>8. SumInv' BY <1>7 DEF SumInv
<1>9. QED BY <1>5, <1>6, <1>8 DEF BalanceInv

LEMMA CommitKeepsBalances ==
  ASSUME TypeOK, IInv, BalanceInv, [Next]_vars, NEW r \in Requests, CommitPost(r)
  PROVE  BalanceInv'
<1>1. PICK t : t = entries OBVIOUS
<1>2. PICK t2 : t2 = entries' OBVIOUS
<1>3. PICK rows : rows = work[r] OBVIOUS
<1>4. PICK j : j = journal OBVIOUS
<1>5. /\ t \in Table /\ t2 \in Table /\ rows \in Seq(RowType) /\ j \in Seq(Requests)
      /\ t2 = [t EXCEPT ![r] = rows]
      /\ t2 = Partly(t, r, rows, Len(rows))
      /\ journal' = Append(j, r)
      /\ batches' = [batches EXCEPT ![r] = "posted"]
      /\ batches[r] = "pending"
      /\ Unposted(t, r)
      /\ Carry(rows)
      /\ \A account : Tracked(account) => Computed(t, r, rows, account)
  <2>1. t \in Table /\ j \in Seq(Requests) BY <1>1, <1>4 DEF TypeOK, Table
  <2>2. rows \in Seq(RowType) /\ t2 = [t EXCEPT ![r] = rows]
    BY <1>1, <1>2, <1>3, CommittedRows
  <2>3. t2 \in Table /\ t2 = Partly(t, r, rows, Len(rows))    BY <2>1, <2>2, PartlyWhole
  <2>4. QED BY <1>1, <1>3, <1>4, <2>1, <2>2, <2>3, CommittedRows
<1>6. \A n \in DOMAIN j : j[n] # r BY <1>4, <1>5 DEF BalanceInv, JournalInv
<1>7. /\ \A n \in DOMAIN j :
           /\ PlaceIn(j, j[n]) = n /\ PlaceIn(Append(j, r), j[n]) = n
           /\ n < PlaceIn(Append(j, r), r)
      /\ \A m, n \in DOMAIN Append(j, r) : Append(j, r)[m] = Append(j, r)[n] => m = n
  <2>1. \A m, n \in DOMAIN j : j[m] = j[n] => m = n BY <1>4 DEF BalanceInv, JournalInv
  <2>2. QED BY <1>5, <1>6, <2>1, PlacesKept
<1>8. /\ \A q : Place(q) = PlaceIn(j, q)
      /\ \A q : Place(q)' = PlaceIn(Append(j, r), q)
  BY <1>4, <1>5 DEF Place, PlaceIn
<1>9. JournalInv'
  <2>1. \A m, n \in DOMAIN journal' : journal'[m] = journal'[n] => m = n
    BY <1>5, <1>7
  <2>2. /\ DOMAIN journal' = DOMAIN j \cup {Len(j) + 1}
        /\ \A n \in DOMAIN j : journal'[n] = j[n]
        /\ journal'[Len(j) + 1] = r
    BY <1>5
  <2>3. batches'[r] = "posted" /\ \A q \in Requests : q # r => batches'[q] = batches[q]
    BY <1>5 DEF TypeOK
  <2>4. \A n \in DOMAIN j : j[n] \in Requests BY <1>5
  <2>5. \A n \in DOMAIN journal' : batches'[journal'[n]] = "posted"
    BY <1>4, <2>2, <2>3, <2>4 DEF BalanceInv, JournalInv
  <2>6. \A q \in Requests : batches'[q] = "posted" => \E n \in DOMAIN journal' : journal'[n] = q
    BY <1>4, <2>2, <2>3 DEF BalanceInv, JournalInv
  <2>7. QED BY <2>1, <2>5, <2>6 DEF JournalInv
<1>10. \A account \in Accounts : IsFiniteSet(PostedRows(t, account))
  BY <1>1 DEF BalanceInv, FiniteInv
<1>11. FiniteInv'
  <2>1. ASSUME NEW account \in Accounts PROVE IsFiniteSet(PostedRows(t2, account))
    <3>1. Len(rows) \in 0 .. Len(rows) BY <1>5
    <3>2. IsFiniteSet(PostedRows(Partly(t, r, rows, Len(rows)), account))
      BY <1>5, <1>10, <3>1, PartlyFinite
    <3>3. QED BY <1>5, <3>2
  <2>2. QED BY <1>2, <2>1 DEF FiniteInv
<1>12. ASSUME NEW account \in Accounts, Tracked(account)', PostedInOrder(account)'
       PROVE  GetAccountBalance(account)' = {PostedSum(account)'}
  <2>1. \A e, f \in Balanced(t2, account) :
          \/ PlaceIn(Append(j, r), e[1]) < PlaceIn(Append(j, r), f[1])
          \/ e[1] = f[1] /\ e[2] < f[2]
          => At(t2, e).createdAt < At(t2, f).createdAt
    BY <1>2, <1>8, <1>12 DEF PostedInOrder, PostedBefore, At
  <2>2. \A e \in Balanced(t, account) : \E n \in DOMAIN j : j[n] = e[1]
    BY <1>1, <1>4, InJournal DEF BalanceInv
  <2>3. \A e \in Balanced(t, account) :
          e \in Balanced(t2, account) /\ At(t2, e) = At(t, e)
    <3>1. SUFFICES ASSUME NEW e \in Balanced(t, account)
                   PROVE  e \in Balanced(t2, account) /\ At(t2, e) = At(t, e)
      OBVIOUS
    <3>2. PICK q \in Requests : \E i \in DOMAIN t[q] :
            /\ e = <<q, i>> /\ t[q][i] = At(t, e)
            /\ t[q][i].account = account /\ HasBalance(t[q][i])
      BY InBalanced
    <3>3. PICK i \in DOMAIN t[q] :
            /\ e = <<q, i>> /\ t[q][i] = At(t, e)
            /\ t[q][i].account = account /\ HasBalance(t[q][i])
      BY <3>2
    <3>4. q # r BY <1>5, <3>3 DEF Unposted
    <3>5. t2[q] = t[q] BY <1>5, <3>4 DEF Table
    <3>6. At(t2, e) = t2[q][i] BY <3>3 DEF At
    <3>7. QED BY <3>3, <3>5, <3>6, InBalanced
  <2>4. PostedInOrder(account)
    <3>1. SUFFICES ASSUME NEW e \in Balanced(t, account), NEW f \in Balanced(t, account),
                          PostedBefore(e, f)
                   PROVE  At(t, e).createdAt < At(t, f).createdAt
      BY <1>1 DEF PostedInOrder, At
    <3>2. /\ PlaceIn(Append(j, r), e[1]) = PlaceIn(j, e[1])
          /\ PlaceIn(Append(j, r), f[1]) = PlaceIn(j, f[1])
      BY <1>7, <2>2
    <3>3. \/ PlaceIn(j, e[1]) < PlaceIn(j, f[1])
          \/ e[1] = f[1] /\ e[2] < f[2]
      BY <1>8, <3>1 DEF PostedBefore
    <3>4. QED BY <2>1, <2>3, <3>2, <3>3
  <2>5. BalanceIsRight(t, account)
    <3>1. GetAccountBalance(account) = {PostedSum(account)}
      BY <1>12, <2>4, TrackedBefore DEF BalanceInv, SumInv
    <3>2. PostedSum(account) = Wrap(BalanceSum(t, account))
      BY <1>1, <1>5, CalculatedIsSum DEF PostedSum
    <3>3. QED BY <1>1, <3>1, <3>2 DEF GetAccountBalance, BalanceIsRight
  <2>6. ASSUME NEW i \in 1 .. Len(rows), rows[i].account = account,
               NEW e \in Balanced(Partly(t, r, rows, i - 1), account)
        PROVE  At(Partly(t, r, rows, i - 1), e).createdAt < rows[i].createdAt
    <3>1. Earlier(t, r, rows, i, account, e, t2) BY <1>5, <2>6, EarlierRows
    <3>2. PICK f : f = <<r, i>> OBVIOUS
    <3>3. f[1] = r /\ f[2] = i /\ f \in Balanced(t2, account) /\ At(t2, f) = rows[i]
      BY <3>1, <3>2 DEF Earlier
    <3>4. \/ PlaceIn(Append(j, r), e[1]) < PlaceIn(Append(j, r), f[1])
          \/ e[1] = f[1] /\ e[2] < f[2]
      BY <1>7, <2>2, <3>1, <3>3 DEF Earlier
    <3>5. QED BY <2>1, <3>1, <3>3, <3>4 DEF Earlier
  <2>7. BalanceIsRight(t2, account)
    <3>1. Later(t, r, rows, account) BY <2>6 DEF Later
    <3>2. IsFiniteSet(PostedRows(t, account)) BY <1>10
    <3>3. Computed(t, r, rows, account) BY <1>5, <1>12, TrackedBefore
    <3>4. BalanceIsRight(Partly(t, r, rows, Len(rows)), account)
      BY <1>5, <2>5, <3>1, <3>2, <3>3, PartlyBalance
    <3>5. QED BY <1>5, <3>4
  <2>8. PostedSum(account)' = Wrap(BalanceSum(t2, account))
    BY <1>2, <1>5, CalculatedIsSum DEF PostedSum
  <2>9. QED BY <1>2, <2>7, <2>8 DEF GetAccountBalance, BalanceIsRight
<1>13. SumInv' BY <1>12 DEF SumInv
<1>14. QED BY <1>9, <1>11, <1>13 DEF BalanceInv

LEMMA BalanceInvariant == Spec => []BalanceInv
<1>1. Init => BalanceInv
  <2> SUFFICES ASSUME Init PROVE BalanceInv OBVIOUS
  <2>1. \A r \in Requests : entries[r] = <<>> BY DEF Init
  <2>2. \A account : Balanced(entries, account) = {} BY <2>1 DEF Balanced
  <2>3. \A account : PostedRows(entries, account) = {} BY <2>2 DEF PostedRows
  <2>4. JournalInv BY DEF Init, JournalInv
  <2>5. FiniteInv BY <2>3, FS_EmptySet DEF FiniteInv
  <2>6. ASSUME NEW account \in Accounts
        PROVE  GetAccountBalance(account) = {PostedSum(account)}
    <3>1. entries \in Table BY <2>1 DEF Init, Table
    <3>2. BalanceSum(entries, account) = 0 BY <2>3, SumEmpty DEF BalanceSum
    <3>3. PostedSum(account) = Wrap(0) BY <3>1, <3>2, CalculatedIsSum DEF PostedSum
    <3>4. Wrap(0) = 0
      <4>1. Int64Half % (2 * Int64Half) = Int64Half BY Int64Assumption
      <4>2. QED BY <4>1, Int64Assumption DEF Wrap
    <3>5. GetAccountBalance(account) = {0} BY <2>2 DEF GetAccountBalance, CurrentBalance
    <3>6. QED BY <3>3, <3>4, <3>5
  <2>7. QED BY <2>4, <2>5, <2>6 DEF BalanceInv, SumInv
<1>2. TypeOK /\ IInv /\ BalanceInv /\ [Next]_vars => BalanceInv'
  <2> SUFFICES ASSUME TypeOK, IInv, BalanceInv, [Next]_vars PROVE BalanceInv' OBVIOUS
  <2>1. CASE UNCHANGED <<batches, entries, journal>>
    <3>1. JournalInv' /\ FiniteInv' BY <2>1 DEF BalanceInv, JournalInv, FiniteInv
    <3>2. \A account \in Accounts :
            /\ PostedInOrder(account)' <=> PostedInOrder(account)
            /\ GetAccountBalance(account)' = GetAccountBalance(account)
            /\ PostedSum(account)' = PostedSum(account)
      BY <2>1 DEF PostedInOrder, PostedBefore, Place, GetAccountBalance, PostedSum
    <3>3. SumInv' BY <3>2, TrackedBefore DEF BalanceInv, SumInv
    <3>4. QED BY <3>1, <3>3 DEF BalanceInv
  <2>2. ASSUME NEW r \in Requests, CreateBatch(r) PROVE BalanceInv'
    BY <2>2, CreateKeepsBalances
  <2>3. ASSUME NEW r \in Requests, CommitPost(r) PROVE BalanceInv'
    BY <2>3, CommitKeepsBalances
  <2>4. QED BY <2>1, <2>2, <2>3, LedgerSteps
<1>3. QED BY <1>1, <1>2, TypeCorrect, InvariantHolds, PTL DEF Spec

\* A batch is posted at most once, whatever is retried or repeated after a lost
\* acknowledgement: each posted batch has one place in the order of commits, and no
\* other batch has one.
THEOREM PostedOnce == Spec => []JournalInv
<1>1. BalanceInv => JournalInv BY DEF BalanceInv
<1>2. QED BY <1>1, BalanceInvariant, PTL

\* What an account loses, it loses to its own late rows: an account none of whose rows
\* went untracked while another posting to it was under way reports the sum of
\* everything posted to it, as long as its entries were posted in the order of their
\* creation, whatever happens to other accounts.
THEOREM TrackedLoseNothing ==
  Spec => [](\A account \in Accounts :
               Tracked(account) /\ PostedInOrder(account) =>
                 GetAccountBalance(account) = {PostedSum(account)})
<1>1. BalanceInv => \A account \in Accounts :
                      Tracked(account) /\ PostedInOrder(account) =>
                        GetAccountBalance(account) = {PostedSum(account)}
  BY DEF BalanceInv, SumInv
<1>2. QED BY <1>1, BalanceInvariant, PTL

\* No update is lost, for any number of concurrent postings and any word size:
\* where the database tracks late rows, the balance the API reports is the sum of
\* everything posted to the account, as long as its entries were posted in the
\* order of their creation.
THEOREM BalanceIsSum == LateRowsTracked /\ Spec => []InOrderBalanceIsSum
<1>1. BalanceInv /\ LateRowsTracked /\ late = {} => InOrderBalanceIsSum
  BY DEF BalanceInv, SumInv, Tracked, InOrderBalanceIsSum
<1>2. QED BY <1>1, BalanceInvariant, NothingLate, PTL

-----------------------------------------------------------------------------
(***************************************************************************)
(* The accounting equation.  Excess is what the debit-normal accounts have *)
(* over the others, Net what the debits of a batch have over its credits;  *)
(* posting a batch adds the second to the first, and a batch that could be *)
(* created has none, up to what int64 arithmetic loses.                    *)
(***************************************************************************)
Signed(row) == IF row.type = "debit" THEN row.amount ELSE 0 - row.amount
Net(rows) == ExactTotal(rows, "debit") - ExactTotal(rows, "credit")

Side(t, S) == SumFunctionOnSet([account \in Accounts |-> BalanceSum(t, account)], S)
Excess(t) == Side(t, DebitNormal) - Side(t, Accounts \ DebitNormal)
FiniteRows(t) == \A account \in Accounts : IsFiniteSet(PostedRows(t, account))

LEMMA SidesAreFinite ==
  /\ IsFiniteSet(DebitNormal) /\ IsFiniteSet(Accounts \ DebitNormal)
  /\ DebitNormal \subseteq Accounts
<1>1. IsFiniteSet(Accounts) /\ DebitNormal \subseteq Accounts BY AccountsAssumption
<1>2. Accounts \ DebitNormal \subseteq Accounts OBVIOUS
<1>3. QED BY <1>1, <1>2, FS_Subset

LEMMA SideType ==
  ASSUME NEW t \in Table, FiniteRows(t), NEW S, S \subseteq Accounts, IsFiniteSet(S)
  PROVE  Side(t, S) \in Int
<1>1. \A account \in S : [a \in Accounts |-> BalanceSum(t, a)][account] \in Int
  BY SumIsInt DEF FiniteRows
<1>2. QED BY <1>1, SumType DEF Side

\* A row that is appended with a balance shifts the excess by its amount.
LEMMA AppendedExcess ==
  ASSUME NEW t \in Table, NEW r \in Requests, NEW row \in RowType, HasBalance(row),
         NEW t2, IsAppended(t2, t, r, row), FiniteRows(t)
  PROVE  FiniteRows(t2) /\ Excess(t2) = Excess(t) + Signed(row)
<1> DEFINE f == [account \in Accounts |-> BalanceSum(t, account)]
           g == [account \in Accounts |-> BalanceSum(t2, account)]
           a == row.account
           D == DebitNormal
           C == Accounts \ DebitNormal
<1>1. \A account \in Accounts :
        /\ IsFiniteSet(PostedRows(t2, account))
        /\ BalanceSum(t, account) \in Int
        /\ BalanceSum(t2, account) =
             BalanceSum(t, account) + (IF a = account THEN Delta(row) ELSE 0)
  BY AppendedSum, SumIsInt DEF FiniteRows
<1>2. FiniteRows(t2) BY <1>1 DEF FiniteRows
<1>3. row.amount \in Int /\ Delta(row) \in Int BY DeltaType
<1>4. a \in Accounts /\ row.type \in EntryTypes BY DEF RowType
<1>5. /\ \A x \in Accounts : f[x] \in Int /\ g[x] \in Int
      /\ \A x \in Accounts \ {a} : f[x] = g[x]
      /\ g[a] - f[a] = Delta(row)
  BY <1>1, <1>3, <1>4
<1>6. IsFiniteSet(D) /\ IsFiniteSet(C) /\ D \subseteq Accounts /\ C \subseteq Accounts
  BY SidesAreFinite
<1>7. /\ Excess(t) = SumFunctionOnSet(f, D) - SumFunctionOnSet(f, C)
      /\ Excess(t2) = SumFunctionOnSet(g, D) - SumFunctionOnSet(g, C)
  BY DEF Excess, Side
<1> HIDE DEF f, g
<1>8. SumFunctionOnSet(f, D) \in Int /\ SumFunctionOnSet(f, C) \in Int
  BY <1>5, <1>6, SumType
<1>9. CASE a \in D
  <2>1. SumFunctionOnSet(g, D) = SumFunctionOnSet(f, D) + (g[a] - f[a])
    BY <1>5, <1>6, <1>9, SumUpdate
  <2>2. SumFunctionOnSet(g, C) = SumFunctionOnSet(f, C)
    <3>1. \A x \in C : f[x] = g[x] BY <1>5, <1>9
    <3>2. QED BY <1>6, <3>1, SumSame
  <2>3. Delta(row) = Signed(row)
    BY <1>3, <1>4, <1>9 DEF Delta, NormalBalance, Signed, EntryTypes
  <2>4. QED BY <1>2, <1>3, <1>5, <1>7, <1>8, <2>1, <2>2, <2>3
<1>10. CASE a \notin D
  <2>1. a \in C BY <1>4, <1>10
  <2>2. SumFunctionOnSet(g, C) = SumFunctionOnSet(f, C) + (g[a] - f[a])
    BY <1>5, <1>6, <2>1, SumUpdate
  <2>3. SumFunctionOnSet(g, D) = SumFunctionOnSet(f, D)
    <3>1. \A x \in D : f[x] = g[x] BY <1>5, <1>6, <1>10
    <3>2. QED BY <1>6, <3>1, SumSame
  <2>4. Delta(row) = 0 - Signed(row) /\ Signed(row) \in Int
    BY <1>3, <1>4, <1>10 DEF Delta, NormalBalance, Signed, EntryTypes
  <2>5. QED BY <1>2, <1>3, <1>5, <1>7, <1>8, <2>2, <2>3, <2>4
<1>11. QED BY <1>9, <1>10

LEMMA TotalType ==
  ASSUME NEW lines, IsFiniteSet(DOMAIN lines),
         \A i \in DOMAIN lines : lines[i].amount \in Int,
         NEW type
  PROVE  ExactTotal(lines, type) \in Int
<1> DEFINE f == [i \in DOMAIN lines |-> lines[i].amount]
           S == {i \in DOMAIN lines : lines[i].type = type}
<1>1. \A i \in S : f[i] \in Int OBVIOUS
<1>2. IsFiniteSet(S)
  <2>1. S \subseteq DOMAIN lines OBVIOUS
  <2>2. QED BY <2>1, FS_Subset
<1>3. ExactTotal(lines, type) = SumFunctionOnSet(f, S) BY DEF ExactTotal
<1> HIDE DEF f, S
<1>4. QED BY <1>1, <1>2, <1>3, SumType

LEMMA RowsAreFinite ==
  ASSUME NEW rows \in Seq(RowType)
  PROVE  IsFiniteSet(DOMAIN rows) /\ \A i \in DOMAIN rows : rows[i].amount \in Int
<1>1. DOMAIN rows = 1 .. Len(rows) /\ Len(rows) \in Int OBVIOUS
<1>2. IsFiniteSet(DOMAIN rows) BY <1>1, FS_Interval
<1>3. \A i \in DOMAIN rows : rows[i] \in RowType OBVIOUS
<1>4. QED BY <1>2, <1>3, DeltaType

LEMMA TotalAppended ==
  ASSUME NEW rows \in Seq(RowType), NEW row \in RowType, NEW type
  PROVE  ExactTotal(Append(rows, row), type) =
           ExactTotal(rows, type) + (IF row.type = type THEN row.amount ELSE 0)
<1> DEFINE k == Append(rows, row)
           n == Len(rows) + 1
           f == [i \in DOMAIN rows |-> rows[i].amount]
           g == [i \in DOMAIN k |-> k[i].amount]
           S == {i \in DOMAIN rows : rows[i].type = type}
           T == {i \in DOMAIN k : k[i].type = type}
<1>1. /\ DOMAIN k = DOMAIN rows \cup {n} /\ n \notin DOMAIN rows
      /\ k[n] = row /\ \A i \in DOMAIN rows : k[i] = rows[i]
  OBVIOUS
<1>2. IsFiniteSet(DOMAIN rows) /\ \A i \in DOMAIN rows : rows[i].amount \in Int
  BY RowsAreFinite
<1>3. row.amount \in Int BY DeltaType
<1>4. IsFiniteSet(S)
  <2>1. S \subseteq DOMAIN rows OBVIOUS
  <2>2. QED BY <1>2, <2>1, FS_Subset
<1>5. /\ ExactTotal(rows, type) = SumFunctionOnSet(f, S)
      /\ ExactTotal(k, type) = SumFunctionOnSet(g, T)
  BY DEF ExactTotal
<1>6. ExactTotal(rows, type) \in Int BY <1>2, TotalType
<1> HIDE DEF k, n
<1>7. /\ \A i \in S : f[i] = g[i] /\ g[i] \in Int
      /\ g[n] = row.amount /\ n \notin S
      /\ T = S \cup (IF row.type = type THEN {n} ELSE {})
  BY <1>1, <1>2
<1> HIDE DEF f, g, S, T
<1>8. SumFunctionOnSet(f, S) = SumFunctionOnSet(g, S) BY <1>4, <1>7, SumSame
<1>9. CASE row.type = type
  <2>1. T = S \cup {n} /\ \A i \in S \cup {n} : g[i] \in Int BY <1>3, <1>7, <1>9
  <2>2. SumFunctionOnSet(g, T) = g[n] + SumFunctionOnSet(g, S) BY <1>4, <1>7, <2>1, SumAdd
  <2>3. ExactTotal(k, type) = ExactTotal(rows, type) + row.amount
    BY <1>3, <1>5, <1>6, <1>7, <1>8, <2>2
  <2>4. QED BY <1>9, <2>3 DEF k
<1>10. CASE row.type # type
  <2>1. ExactTotal(k, type) = ExactTotal(rows, type) + 0 BY <1>5, <1>6, <1>7, <1>8, <1>10
  <2>2. QED BY <1>10, <2>1 DEF k
<1>11. QED BY <1>9, <1>10

LEMMA NetType == ASSUME NEW rows \in Seq(RowType) PROVE Net(rows) \in Int
BY RowsAreFinite, TotalType DEF Net

LEMMA NetAppended ==
  ASSUME NEW rows \in Seq(RowType), NEW row \in RowType
  PROVE  Net(Append(rows, row)) = Net(rows) + Signed(row)
<1>1. ExactTotal(rows, "debit") \in Int /\ ExactTotal(rows, "credit") \in Int
  BY RowsAreFinite, TotalType
<1>2. row.amount \in Int BY DeltaType
<1>3. row.type = "debit" \/ row.type = "credit" BY DEF RowType, EntryTypes
<1>4. /\ ExactTotal(Append(rows, row), "debit") =
           ExactTotal(rows, "debit") + (IF row.type = "debit" THEN row.amount ELSE 0)
      /\ ExactTotal(Append(rows, row), "credit") =
           ExactTotal(rows, "credit") + (IF row.type = "credit" THEN row.amount ELSE 0)
  BY TotalAppended
<1>5. QED BY <1>1, <1>2, <1>3, <1>4 DEF Net, Signed

LEMMA NetEmpty == Net(<<>>) = 0
<1>1. \A type : ExactTotal(<<>>, type) = 0
  <2>1. \A type : {i \in DOMAIN <<>> : <<>>[i].type = type} = {} OBVIOUS
  <2>2. QED BY <2>1, SumEmpty DEF ExactTotal
<1>2. QED BY <1>1 DEF Net

\* Lines of the same types and amounts.
AreLinesOf(rows, lines) ==
  /\ DOMAIN rows = DOMAIN lines
  /\ \A i \in DOMAIN lines :
       rows[i].type = lines[i].type /\ rows[i].amount = lines[i].amount

LEMMA SameTotals ==
  ASSUME NEW rows, NEW lines, AreLinesOf(rows, lines)
  PROVE  /\ \A type : ExactTotal(rows, type) = ExactTotal(lines, type)
         /\ Net(rows) = Net(lines)
<1>1. [i \in DOMAIN rows |-> rows[i].amount] = [i \in DOMAIN lines |-> lines[i].amount]
  BY DEF AreLinesOf
<1>2. ASSUME NEW type
      PROVE  {i \in DOMAIN rows : rows[i].type = type} = {i \in DOMAIN lines : lines[i].type = type}
  BY DEF AreLinesOf
<1>3. \A type : ExactTotal(rows, type) = ExactTotal(lines, type)
  BY <1>1, <1>2 DEF ExactTotal
<1>4. QED BY <1>3 DEF Net

\* Posting a batch shifts the excess by what its debits have over its credits.
LEMMA PartlyExcess ==
  ASSUME NEW t \in Table, NEW r \in Requests, NEW rows \in Seq(RowType), Unposted(t, r),
         Carry(rows), FiniteRows(t)
  PROVE  Excess(Partly(t, r, rows, Len(rows))) = Excess(t) + Net(rows)
<1> DEFINE T(i) == Partly(t, r, rows, i)
           Good == {i \in 0 .. Len(rows) :
                      FiniteRows(T(i)) /\ Excess(T(i)) = Excess(t) + Net(SubSeq(rows, 1, i))}
<1>1. Excess(t) \in Int BY SideType, SidesAreFinite DEF Excess
<1>2. 0 \in Good
  <2>1. FiniteRows(T(0)) BY PartlyStart DEF FiniteRows
  <2>2. \A account : BalanceSum(T(0), account) = BalanceSum(t, account) BY PartlyStart
  <2>3. Excess(T(0)) = Excess(t) BY <2>2 DEF Excess, Side
  <2>4. Net(SubSeq(rows, 1, 0)) = 0
    <3>1. SubSeq(rows, 1, 0) = <<>> OBVIOUS
    <3>2. QED BY <3>1, NetEmpty
  <2>5. 0 \in 0 .. Len(rows) OBVIOUS
  <2>6. QED BY <1>1, <2>1, <2>3, <2>4, <2>5
<1>3. ASSUME NEW i \in 1 .. Len(rows), i - 1 \in Good PROVE i \in Good
  <2>1. PICK t1 : t1 = T(i - 1) OBVIOUS
  <2>2. PICK t2 : t2 = T(i) OBVIOUS
  <2>3. PICK s : s = SubSeq(rows, 1, i - 1) OBVIOUS
  <2>4. t1 \in Table /\ IsAppended(t2, t1, r, rows[i]) BY <2>1, <2>2, PartlyStep
  <2>5. rows[i] \in RowType /\ HasBalance(rows[i]) BY DEF Carry
  <2>6. FiniteRows(t1) /\ Excess(t1) = Excess(t) + Net(s) BY <1>3, <2>1, <2>3
  <2>7. s \in Seq(RowType) /\ SubSeq(rows, 1, i) = Append(s, rows[i]) BY <2>3
  <2>8. FiniteRows(t2) /\ Excess(t2) = Excess(t1) + Signed(rows[i])
    BY <2>4, <2>5, <2>6, AppendedExcess
  <2>9. Net(s) \in Int /\ Net(Append(s, rows[i])) = Net(s) + Signed(rows[i])
    BY <2>5, <2>7, NetAppended, NetType
  <2>10. Signed(rows[i]) \in Int BY <2>5, DeltaType DEF Signed
  <2>11. Excess(t2) = Excess(t) + Net(SubSeq(rows, 1, i))
    <3>1. Net(SubSeq(rows, 1, i)) = Net(s) + Signed(rows[i]) BY <2>7, <2>9
    <3>2. PICK d \in Int : d = Signed(rows[i]) BY <2>10
    <3>3. PICK n \in Int : n = Net(s) BY <2>9
    <3>4. PICK x \in Int : x = Excess(t) BY <1>1
    <3>5. Excess(t2) = (x + n) + d BY <2>6, <2>8, <3>2, <3>3, <3>4
    <3>6. (x + n) + d = x + (n + d) OBVIOUS
    <3>7. QED BY <3>1, <3>2, <3>3, <3>4, <3>5, <3>6
  <2>12. QED BY <2>2, <2>8, <2>11
<1>4. Len(rows) \in Nat /\ Len(rows) \in 0 .. Len(rows) /\ SubSeq(rows, 1, Len(rows)) = rows
  OBVIOUS
<1> HIDE DEF Good
<1>5. Len(rows) \in Good BY <1>2, <1>3, <1>4, UpTo
<1>6. QED BY <1>4, <1>5 DEF Good

\* Sums whose terms wrap alike wrap alike.
LEMMA SumsWrapAlike ==
  ASSUME NEW f, NEW g, NEW S, IsFiniteSet(S),
         \A x \in S : f[x] \in Int /\ g[x] \in Int /\ Same(f[x], g[x])
  PROVE  Same(SumFunctionOnSet(f, S), SumFunctionOnSet(g, S))
<1> DEFINE Wrong == {s \in SUBSET S : ~Same(SumFunctionOnSet(f, s), SumFunctionOnSet(g, s))}
<1>1. SUFFICES ASSUME Wrong # {} PROVE FALSE OBVIOUS
<1>2. PICK s \in Wrong : IsFiniteSet(s) /\ \A x \in s : s \ {x} \notin Wrong
  <2>1. Wrong \subseteq SUBSET S OBVIOUS
  <2> HIDE DEF Wrong
  <2>2. QED BY <1>1, <2>1, SmallestSet
<1>3. CASE s = {} BY <1>3, SumEmpty, SameIsEquivalence
<1>4. CASE s # {}
  <2> DEFINE t == s \ {Some(s)}
  <2>1. Some(s) \in s /\ Some(s) \in S BY <1>4 DEF Some
  <2>2. t \notin Wrong /\ t \in SUBSET S BY <1>2, <2>1
  <2>3. /\ SumFunctionOnSet(f, s) = f[Some(s)] + SumFunctionOnSet(f, t)
        /\ SumFunctionOnSet(g, s) = g[Some(s)] + SumFunctionOnSet(g, t)
    BY <1>2, <1>4, SumRec
  <2>4. SumFunctionOnSet(f, t) \in Int /\ SumFunctionOnSet(g, t) \in Int
    <3>1. IsFiniteSet(t) BY <2>2, FS_Subset
    <3>2. \A x \in t : f[x] \in Int /\ g[x] \in Int BY <2>2
    <3> HIDE DEF t
    <3>3. QED BY <3>1, <3>2, SumType
  <2>5. Same(SumFunctionOnSet(f, t), SumFunctionOnSet(g, t)) BY <2>2
  <2>6. Same(f[Some(s)] + SumFunctionOnSet(f, t), g[Some(s)] + SumFunctionOnSet(g, t))
    BY <2>1, <2>4, <2>5, SameSum
  <2>7. QED BY <2>3, <2>6
<1>5. QED BY <1>3, <1>4

\* A batch that can be created has no excess.
LEMMA CreatableNet ==
  ASSUME NEW lines \in Seq(Line), Creatable(lines)
  PROVE  Same(Net(lines), 0)
<1>1. \A i \in DOMAIN lines : lines[i].amount \in Int
  <2>1. \A i \in DOMAIN lines : lines[i] \in Line OBVIOUS
  <2>2. QED BY <2>1, Int64Assumption DEF Line, Int64
<1>2. IsFiniteSet(DOMAIN lines)
  <2>1. DOMAIN lines = 1 .. Len(lines) /\ Len(lines) \in Int OBVIOUS
  <2>2. QED BY <2>1, FS_Interval
<1>3. ExactTotal(lines, "debit") \in Int /\ ExactTotal(lines, "credit") \in Int
  BY <1>1, <1>2, TotalType
<1>4. Wrap(ExactTotal(lines, "debit")) = Wrap(ExactTotal(lines, "credit"))
  BY DEF Creatable, BuildFails, Total
<1>5. PICK d \in Int : d = ExactTotal(lines, "debit") BY <1>3
<1>6. PICK c \in Int : c = ExactTotal(lines, "credit") BY <1>3
<1>7. Same(d, c) BY <1>4, <1>5, <1>6, SameWraps
<1>8. Same(d - c, c - c) BY <1>7, SameSum, SameIsEquivalence
<1>9. QED BY <1>5, <1>6, <1>8 DEF Net

LinesInv == \A r \in Requests : Same(Net(entries[r]), 0)
EquationInv == LinesInv /\ Same(Excess(entries), 0)

LEMMA SameExcess ==
  ASSUME NEW t1, NEW t2, SamePosted(t1, t2)
  PROVE  Excess(t2) = Excess(t1)
<1>1. ASSUME NEW account PROVE BalanceSum(t1, account) = BalanceSum(t2, account)
  BY SameSums
<1>2. [account \in Accounts |-> BalanceSum(t1, account)]
        = [account \in Accounts |-> BalanceSum(t2, account)]
  BY <1>1
<1>3. QED BY <1>2 DEF Excess, Side

LEMMA CreateKeepsEquation ==
  ASSUME TypeOK, IInv, EquationInv, NEW r \in Requests, CreateBatch(r)
  PROVE  EquationInv'
<1>1. PICK t2 : t2 = entries' OBVIOUS
<1>2. PICK t1 : t1 = entries OBVIOUS
<1>3. \A q \in Requests :
        \/ t1[q] = t2[q]
        \/ /\ \A i \in DOMAIN t1[q] : ~HasBalance(t1[q][i])
           /\ \A i \in DOMAIN t2[q] : ~HasBalance(t2[q][i])
  BY <1>1, <1>2, CreatedRows
<1>4. SamePosted(t1, t2) BY <1>3 DEF SamePosted
<1>5. Excess(t2) = Excess(t1) BY <1>4, SameExcess
<1>6. PICK lines : lines = request[r] OBVIOUS
<1>7. PICK stamp \in Stamps(r) :
        t2 = [t1 EXCEPT ![r] = [i \in DOMAIN lines |-> Row(lines[i], stamp[i])]]
  BY <1>1, <1>2, <1>6 DEF CreateBatch
<1>8. t1 \in Table BY <1>2 DEF TypeOK, Table
<1>9. /\ t2[r] = [i \in DOMAIN lines |-> Row(lines[i], stamp[i])]
      /\ \A q \in Requests : q # r => t2[q] = t1[q]
  BY <1>7, <1>8 DEF Table
<1>10. AreLinesOf(t2[r], lines) BY <1>9 DEF AreLinesOf, Row
<1>11. lines \in Seq(Line) /\ Creatable(lines) BY <1>6 DEF TypeOK, CreateBatch
<1>12. Same(Net(t2[r]), 0) BY <1>10, <1>11, SameTotals, CreatableNet
<1>13. \A q \in Requests : Same(Net(t2[q]), 0) BY <1>2, <1>9, <1>12 DEF EquationInv, LinesInv
<1>14. Same(Excess(t2), 0) BY <1>2, <1>5 DEF EquationInv
<1>15. QED BY <1>1, <1>13, <1>14 DEF EquationInv, LinesInv

LEMMA CommitKeepsEquation ==
  ASSUME TypeOK, IInv, FiniteInv, EquationInv, NEW r \in Requests, CommitPost(r)
  PROVE  EquationInv'
<1>1. PICK t : t = entries OBVIOUS
<1>2. PICK t2 : t2 = entries' OBVIOUS
<1>3. PICK rows : rows = work[r] OBVIOUS
<1>4. /\ t \in Table /\ rows \in Seq(RowType)
      /\ t2 = [t EXCEPT ![r] = rows]
      /\ Unposted(t, r) /\ Carry(rows)
      /\ Len(rows) = Len(t[r])
      /\ \A i \in 1 .. Len(rows) : SameLine(rows[i], t[r][i])
  BY <1>1, <1>2, <1>3, CommittedRows DEF TypeOK, Table
<1>5. t2 \in Table /\ Partly(t, r, rows, Len(rows)) = t2 BY <1>4, PartlyWhole
<1>6. t2[r] = rows /\ \A q \in Requests : q # r => t2[q] = t[q] BY <1>4 DEF Table
<1>7. AreLinesOf(rows, t[r])
  <2>1. t[r] \in Seq(RowType) BY <1>4 DEF Table
  <2>2. DOMAIN rows = DOMAIN t[r] /\ DOMAIN rows = 1 .. Len(rows) BY <1>4, <2>1
  <2>3. ASSUME NEW i \in DOMAIN rows
        PROVE  rows[i].type = t[r][i].type /\ rows[i].amount = t[r][i].amount
    <3>1. SameLine(rows[i], t[r][i]) BY <1>4, <2>2
    <3>2. rows[i] \in RowType BY <1>4
    <3>3. QED BY <3>1, <3>2 DEF SameLine, RowType
  <2>4. QED BY <2>2, <2>3 DEF AreLinesOf
<1>8. Net(rows) = Net(t[r]) BY <1>7, SameTotals
<1>9. Same(Net(rows), 0) BY <1>1, <1>8 DEF EquationInv, LinesInv
<1>10. \A q \in Requests : Same(Net(t2[q]), 0)
  BY <1>1, <1>6, <1>9 DEF EquationInv, LinesInv
<1>11. FiniteRows(t) BY <1>1 DEF FiniteInv, FiniteRows
<1>12. Excess(t2) = Excess(t) + Net(rows) BY <1>4, <1>5, <1>11, PartlyExcess
<1>13. Excess(t) \in Int BY <1>4, <1>11, SideType, SidesAreFinite DEF Excess
<1>14. Same(Excess(t2), 0)
  <2>1. PICK x \in Int : x = Excess(t) BY <1>13
  <2>2. PICK n \in Int : n = Net(rows) BY <1>4, NetType
  <2>3. Same(x, 0) /\ Same(n, 0) BY <1>1, <1>9, <2>1, <2>2 DEF EquationInv
  <2>4. Same(x + n, 0 + 0) BY <2>3, SameSum
  <2>5. QED BY <1>12, <2>1, <2>2, <2>4
<1>15. QED BY <1>2, <1>10, <1>14 DEF EquationInv, LinesInv

LEMMA EquationInvariant == Spec => []EquationInv
<1>1. Init => EquationInv
  <2> SUFFICES ASSUME Init PROVE EquationInv OBVIOUS
  <2>1. \A r \in Requests : entries[r] = <<>> BY DEF Init
  <2>2. LinesInv BY <2>1, NetEmpty, SameIsEquivalence DEF LinesInv
  <2>3. \A account : PostedRows(entries, account) = {} BY <2>1 DEF PostedRows, Balanced
  <2>4. \A account : BalanceSum(entries, account) = 0 BY <2>3, SumEmpty DEF BalanceSum
  <2>5. ASSUME NEW S, S \subseteq Accounts, IsFiniteSet(S) PROVE Side(entries, S) = 0
    <3> DEFINE f == [account \in Accounts |-> BalanceSum(entries, account)]
               Wrong == {s \in SUBSET S : SumFunctionOnSet(f, s) # 0}
    <3>1. \A x \in S : f[x] = 0 BY <2>4, <2>5
    <3>2. Side(entries, S) = SumFunctionOnSet(f, S) BY DEF Side
    <3>3. ASSUME Wrong # {} PROVE FALSE
      <4>1. Wrong \subseteq SUBSET S OBVIOUS
      <4>2. PICK s \in Wrong : IsFiniteSet(s) /\ \A x \in s : s \ {x} \notin Wrong
        <5> HIDE DEF Wrong
        <5>1. QED BY <2>5, <3>3, <4>1, SmallestSet
      <4> HIDE DEF f
      <4>3. s # {} BY SumEmpty
      <4>4. Some(s) \in s /\ f[Some(s)] = 0 BY <3>1, <4>3 DEF Some
      <4>5. SumFunctionOnSet(f, s \ {Some(s)}) = 0 BY <4>2, <4>4
      <4>6. SumFunctionOnSet(f, s) = f[Some(s)] + SumFunctionOnSet(f, s \ {Some(s)})
        BY <4>2, <4>3, SumRec
      <4>7. QED BY <4>4, <4>5, <4>6
    <3>4. QED BY <3>2, <3>3
  <2>6. Excess(entries) = 0 BY <2>5, SidesAreFinite DEF Excess
  <2>7. QED BY <2>2, <2>6, SameIsEquivalence DEF EquationInv
<1>2. TypeOK /\ IInv /\ BalanceInv /\ EquationInv /\ [Next]_vars => EquationInv'
  <2> SUFFICES ASSUME TypeOK, IInv, BalanceInv, EquationInv, [Next]_vars
               PROVE  EquationInv'
    OBVIOUS
  <2>1. CASE UNCHANGED <<batches, entries, journal>>
    BY <2>1 DEF EquationInv, LinesInv
  <2>2. ASSUME NEW r \in Requests, CreateBatch(r) PROVE EquationInv'
    BY <2>2, CreateKeepsEquation
  <2>3. ASSUME NEW r \in Requests, CommitPost(r) PROVE EquationInv'
    BY <2>3, CommitKeepsEquation DEF BalanceInv
  <2>4. QED BY <2>1, <2>2, <2>3, LedgerSteps
<1>3. QED BY <1>1, <1>2, TypeCorrect, InvariantHolds, BalanceInvariant, PTL DEF Spec

PositiveInv == \A r \in Requests : \A i \in DOMAIN entries[r] : entries[r][i].amount > 0
LEMMA PositiveInvariant == Spec => []PositiveInv
<1>1. Init => PositiveInv BY DEF Init, PositiveInv
<1>2. TypeOK /\ IInv /\ PositiveInv /\ [Next]_vars => PositiveInv'
  <2> SUFFICES ASSUME TypeOK, IInv, PositiveInv, [Next]_vars PROVE PositiveInv' OBVIOUS
  <2>1. CASE UNCHANGED <<batches, entries, journal>> BY <2>1 DEF PositiveInv
  <2>2. ASSUME NEW r \in Requests, CreateBatch(r) PROVE PositiveInv'
    <3>1. PICK stamp \in Stamps(r) :
            entries' = [entries EXCEPT ![r] =
              [i \in DOMAIN request[r] |-> Row(request[r][i], stamp[i])]]
      BY <2>2 DEF CreateBatch
    <3>2. \A q \in Requests : q # r => entries'[q] = entries[q] BY <3>1 DEF TypeOK
    <3>3. entries'[r] = [i \in DOMAIN request[r] |-> Row(request[r][i], stamp[i])]
      BY <3>1 DEF TypeOK
    <3>4. ASSUME NEW i \in DOMAIN entries'[r] PROVE entries'[r][i].amount > 0
      <4>1. i \in DOMAIN request[r] /\ entries'[r][i].amount = request[r][i].amount
        BY <3>3 DEF Row
      <4>2. request[r][i] \in Line /\ ~(request[r][i].amount <= 0)
        BY <2>2, <4>1 DEF CreateBatch, Creatable, BuildFails, TypeOK
      <4>3. request[r][i].amount \in Int BY <4>2, Int64Assumption DEF Line, Int64
      <4>4. QED BY <4>1, <4>2, <4>3
    <3>5. QED BY <3>2, <3>4 DEF PositiveInv
  <2>3. ASSUME NEW r \in Requests, CommitPost(r) PROVE PositiveInv'
    <3>1. /\ work[r] \in Seq(RowType) /\ entries[r] \in Seq(RowType)
          /\ Len(work[r]) = Len(entries[r])
          /\ entries' = [entries EXCEPT ![r] = work[r]]
          /\ \A i \in 1 .. Len(work[r]) : SameLine(work[r][i], entries[r][i])
      BY <2>3, CommittedRows DEF TypeOK
    <3>2. entries'[r] = work[r] /\ \A q \in Requests : q # r => entries'[q] = entries[q]
      BY <3>1 DEF TypeOK
    <3>3. ASSUME NEW i \in DOMAIN work[r] PROVE work[r][i].amount > 0
      <4>1. i \in 1 .. Len(work[r]) /\ i \in DOMAIN entries[r] BY <3>1
      <4>2. SameLine(work[r][i], entries[r][i]) BY <3>1, <4>1
      <4>3. work[r][i] \in RowType /\ entries[r][i] \in RowType BY <3>1, <4>1
      <4>4. work[r][i].amount = entries[r][i].amount BY <4>2, <4>3 DEF SameLine, RowType
      <4>5. QED BY <4>1, <4>4 DEF PositiveInv
    <3>4. QED BY <3>2, <3>3 DEF PositiveInv
  <2>4. QED BY <2>1, <2>2, <2>3, LedgerSteps
<1>3. QED BY <1>1, <1>2, TypeCorrect, InvariantHolds, PTL DEF Spec

\* Whatever was written, a batch on record is one the service would create again:
\* BatchBuilder builds its entries, Batch.Validate accepts what it built, and the
\* accounts exist.
THEOREM RecordedAreCreatable ==
  Spec => [](\A r \in Requests : batches[r] # "absent" => Creatable(entries[r]))
<1>1. TypeOK /\ IInv /\ EquationInv /\ PositiveInv =>
        \A r \in Requests : batches[r] # "absent" => Creatable(entries[r])
  <2> SUFFICES ASSUME TypeOK, IInv, EquationInv, PositiveInv,
                      NEW r \in Requests, batches[r] # "absent"
               PROVE  Creatable(entries[r])
    OBVIOUS
  <2>1. PICK rows : rows = entries[r] OBVIOUS
  <2>2. rows \in Seq(RowType) /\ rows # <<>> BY <2>1 DEF TypeOK, IInv, PostedAllOrNothing
  <2>3. \A i \in DOMAIN rows : rows[i] \in RowType BY <2>2
  <2>4. \A i \in DOMAIN rows : rows[i].amount \in Int /\ rows[i].account \in Accounts
    BY <2>3, Int64Assumption DEF RowType, Int64
  <2>5. \A i \in DOMAIN rows : ~(rows[i].amount <= 0)
    BY <2>1, <2>4 DEF PositiveInv
  <2>6. ExactTotal(rows, "debit") \in Int /\ ExactTotal(rows, "credit") \in Int
    <3>1. IsFiniteSet(DOMAIN rows)
      <4>1. DOMAIN rows = 1 .. Len(rows) /\ Len(rows) \in Int BY <2>2
      <4>2. QED BY <4>1, FS_Interval
    <3>2. QED BY <2>4, <3>1, TotalType
  <2>7. Total(rows, "debit") = Total(rows, "credit")
    <3>1. PICK d \in Int : d = ExactTotal(rows, "debit") BY <2>6
    <3>2. PICK c \in Int : c = ExactTotal(rows, "credit") BY <2>6
    <3>3. Same(d - c, 0) /\ Same(c, c)
      BY <2>1, <3>1, <3>2, SameIsEquivalence DEF EquationInv, LinesInv, Net
    <3>4. Same((d - c) + c, 0 + c) BY <3>1, <3>2, <3>3, SameSum
    <3>5. (d - c) + c = d /\ 0 + c = c OBVIOUS
    <3>6. Same(d, c) BY <3>4, <3>5
    <3>7. QED BY <3>1, <3>2, <3>6, SameWraps DEF Total
  <2>8. ~BuildFails(rows) BY <2>2, <2>5, <2>7 DEF BuildFails
  <2>9. Validate(Build(rows)) BY <2>7 DEF Validate, Build
  <2>10. QED BY <2>1, <2>4, <2>8, <2>9 DEF Creatable
<1>2. QED BY <1>1, TypeCorrect, InvariantHolds, EquationInvariant, PositiveInvariant, PTL

\* Sums that agree with those of the entries, up to the word, balance like them.
LEMMA SidesAgree ==
  ASSUME TypeOK, FiniteInv, EquationInv, NEW balance,
         \A account \in Accounts :
           /\ balance[account] \in Int
           /\ Same(BalanceSum(entries, account), balance[account])
  PROVE  Wrap(SumFunctionOnSet(balance, DebitNormal)) =
           Wrap(SumFunctionOnSet(balance, Accounts \ DebitNormal))
<1> DEFINE f == [account \in Accounts |-> BalanceSum(entries, account)]
           D == DebitNormal
           C == Accounts \ DebitNormal
<1>1. entries \in Table /\ FiniteRows(entries)
  BY DEF TypeOK, Table, FiniteInv, FiniteRows
<1>2. ASSUME NEW account \in Accounts
      PROVE  /\ f[account] \in Int /\ balance[account] \in Int
             /\ Same(f[account], balance[account])
  BY <1>1, SumIsInt DEF FiniteRows
<1>3. IsFiniteSet(D) /\ IsFiniteSet(C) /\ D \subseteq Accounts /\ C \subseteq Accounts
  BY SidesAreFinite
<1>4. Same(SumFunctionOnSet(f, D) - SumFunctionOnSet(f, C), 0)
  BY DEF EquationInv, Excess, Side
<1> HIDE DEF f, D, C
<1>5. /\ Same(SumFunctionOnSet(f, D), SumFunctionOnSet(balance, D))
      /\ Same(SumFunctionOnSet(f, C), SumFunctionOnSet(balance, C))
  BY <1>2, <1>3, SumsWrapAlike
<1>6. /\ SumFunctionOnSet(f, D) \in Int /\ SumFunctionOnSet(balance, D) \in Int
      /\ SumFunctionOnSet(f, C) \in Int /\ SumFunctionOnSet(balance, C) \in Int
  <2>1. \A x \in Accounts : f[x] \in Int /\ balance[x] \in Int BY <1>2
  <2>2. QED BY <1>3, <2>1, SumType
<1>7. Same(SumFunctionOnSet(balance, D), SumFunctionOnSet(balance, C))
  <2>1. PICK m \in Int : m = SumFunctionOnSet(f, D) BY <1>6
  <2>2. PICK n \in Int : n = SumFunctionOnSet(f, C) BY <1>6
  <2>3. Same((m - n) + n, 0 + n) BY <1>4, <2>1, <2>2, SameSum, SameIsEquivalence
  <2>4. (m - n) + n = m /\ 0 + n = n OBVIOUS
  <2>5. Same(m, n) BY <2>3, <2>4
  <2>6. QED BY <1>5, <1>6, <2>1, <2>2, <2>5, SameIsEquivalence
<1>8. QED BY <1>6, <1>7, SameWraps DEF D, C

\* The sum of the entries posted to an account, and what it wraps.
LEMMA PostedSumIsSum ==
  ASSUME TypeOK, FiniteInv, NEW account \in Accounts
  PROVE  PostedSum(account) \in Int /\ Same(BalanceSum(entries, account), PostedSum(account))
<1>1. entries \in Table /\ FiniteRows(entries)
  BY DEF TypeOK, Table, FiniteInv, FiniteRows
<1>2. PostedSum(account) = Wrap(BalanceSum(entries, account)) BY <1>1, CalculatedIsSum DEF PostedSum
<1>3. BalanceSum(entries, account) \in Int BY <1>1, SumIsInt DEF FiniteRows
<1>4. QED BY <1>2, <1>3, WrapIsSame

\* Double entry, for every schema, schedule and failure: the entries posted to
\* debit-normal accounts and those posted to credit-normal ones carry the same total,
\* up to int64 arithmetic.  Late rows and rows out of order can spoil the running
\* balances only, never the entries they are meant to sum.
THEOREM EntriesAlwaysBalance ==
  Spec => []LET sum == [account \in Accounts |-> PostedSum(account)]
            IN  Wrap(SumFunctionOnSet(sum, DebitNormal)) =
                  Wrap(SumFunctionOnSet(sum, Accounts \ DebitNormal))
<1> DEFINE sum == [account \in Accounts |-> PostedSum(account)]
           Balance == Wrap(SumFunctionOnSet(sum, DebitNormal)) =
                        Wrap(SumFunctionOnSet(sum, Accounts \ DebitNormal))
<1>1. TypeOK /\ BalanceInv /\ EquationInv => Balance
  <2> SUFFICES ASSUME TypeOK, BalanceInv, EquationInv PROVE Balance OBVIOUS
  <2>1. FiniteInv BY DEF BalanceInv
  <2>2. \A account \in Accounts :
          sum[account] \in Int /\ Same(BalanceSum(entries, account), sum[account])
    BY <2>1, PostedSumIsSum
  <2> HIDE DEF sum
  <2>3. QED BY <2>1, <2>2, SidesAgree
<1>2. QED BY <1>1, TypeCorrect, BalanceInvariant, EquationInvariant, PTL

\* The reported balances balance like the entries where every account is tracked
\* and in order.
LEMMA EquationOfTracked ==
  ASSUME TypeOK, BalanceInv, EquationInv, \A account \in Accounts : Tracked(account)
  PROVE  AccountingEquation
<1> SUFFICES ASSUME \A account \in Accounts : PostedInOrder(account)
             PROVE  LET balance == [account \in Accounts |->
                                      CHOOSE b \in GetAccountBalance(account) : TRUE]
                    IN  Wrap(SumFunctionOnSet(balance, DebitNormal)) =
                          Wrap(SumFunctionOnSet(balance, Accounts \ DebitNormal))
  BY DEF AccountingEquation
<1> DEFINE balance == [account \in Accounts |->
                         CHOOSE b \in GetAccountBalance(account) : TRUE]
<1>1. FiniteInv BY DEF BalanceInv
<1>2. ASSUME NEW account \in Accounts
      PROVE  balance[account] \in Int /\ Same(BalanceSum(entries, account), balance[account])
  <2>1. GetAccountBalance(account) = {PostedSum(account)} BY DEF BalanceInv, SumInv
  <2>2. balance[account] = PostedSum(account) BY <2>1
  <2>3. QED BY <1>1, <2>2, PostedSumIsSum
<1> HIDE DEF balance
<1>3. Wrap(SumFunctionOnSet(balance, DebitNormal)) =
        Wrap(SumFunctionOnSet(balance, Accounts \ DebitNormal))
  BY <1>1, <1>2, SidesAgree
<1>4. QED BY <1>3 DEF balance

\* So where the database tracks late rows, debit-normal and credit-normal accounts
\* carry the same total in the balances the API reports, as long as the entries of
\* each account were posted in the order of their creation.
THEOREM AccountingEquationHolds == LateRowsTracked /\ Spec => []AccountingEquation
<1>1. TypeOK /\ BalanceInv /\ EquationInv /\ LateRowsTracked /\ late = {}
        => AccountingEquation
  BY EquationOfTracked DEF Tracked
<1>2. QED BY <1>1, TypeCorrect, NothingLate, BalanceInvariant, EquationInvariant, PTL
-----------------------------------------------------------------------------
(***************************************************************************)
(* Progress, as far as it is safety: a request never goes back, each step  *)
(* of its goroutine brings it further, and until it is answered there is   *)
(* one.  What is left to liveness is that the goroutine is scheduled.      *)
(***************************************************************************)
Stage(r) ==
  CASE phase[r] = "idle" -> 0
    [] phase[r] = "received" -> 1
    [] phase[r] = "created" -> 2
    [] phase[r] = "posting" -> 3
    [] phase[r] = "posted" -> 4
    [] phase[r] \in Answers -> 5

\* Another entry posted in the same transaction.
PostsOn(r) ==
  InTransaction(r) /\ InTransaction(r)' /\ Len(work'[r]) = Len(work[r]) + 1

\* No step takes a request back to an earlier stage or changes its answer, and a step
\* of its goroutine ends a stage or posts one more of the entries of its batch: there
\* is no retry and no loop, so a request takes a bounded number of steps.
THEOREM RequestsMoveOn ==
  Spec => [][\A r \in Requests :
               /\ phase'[r] = phase[r] \/ Stage(r)' > Stage(r)
               /\ Serve(r) => Stage(r)' > Stage(r) \/ PostsOn(r)]_vars
<1>1. TypeOK /\ [Next]_vars =>
        \/ \A r \in Requests :
             /\ phase'[r] = phase[r] \/ Stage(r)' > Stage(r)
             /\ Serve(r) => Stage(r)' > Stage(r) \/ PostsOn(r)
        \/ UNCHANGED vars
  <2> SUFFICES ASSUME TypeOK, Next, NEW r \in Requests
               PROVE  /\ phase'[r] = phase[r] \/ Stage(r)' > Stage(r)
                      /\ Serve(r) => Stage(r)' > Stage(r) \/ PostsOn(r)
    OBVIOUS
  <2>1. Serve(r) => Stage(r)' > Stage(r) \/ PostsOn(r)
    <3>1. ASSUME CreateBatch(r) \/ CreateBatchFails(r) PROVE Stage(r)' > Stage(r)
      BY <3>1 DEF CreateBatch, CreateBatchFails, TypeOK, Stage, Answers
    <3>2. ASSUME BeginPost(r) \/ Fetch(r) PROVE Stage(r)' > Stage(r)
      BY <3>2 DEF BeginPost, Fetch, TypeOK, Stage, Answers
    <3>3. ASSUME CommitPost(r) \/ PostFails(r) PROVE Stage(r)' > Stage(r)
      BY <3>3 DEF CommitPost, PostFails, OnPostError, InTransaction, TypeOK, Stage, Answers
    <3>4. ASSUME PostEntry(r) PROVE PostsOn(r)
      <4>1. PICK row : work' = [work EXCEPT ![r] = Append(@, row)]
        BY <3>4 DEF PostEntry
      <4>2. work[r] \in Seq(RowType) /\ work'[r] = Append(work[r], row)
        BY <4>1 DEF TypeOK
      <4>3. QED BY <3>4, <4>2 DEF PostEntry, PostsOn, InTransaction
    <3>5. QED BY <3>1, <3>2, <3>3, <3>4 DEF Serve
  <2>2. phase'[r] = phase[r] \/ Stage(r)' > Stage(r)
    <3>1. CASE Tick BY <3>1 DEF Tick
    <3>2. CASE Crash BY <3>2 DEF Crash, TypeOK, Stage, InFlight, Answers
    <3>3. ASSUME NEW q \in Requests, Receive(q)
          PROVE  phase'[r] = phase[r] \/ Stage(r)' > Stage(r)
      BY <3>3 DEF Receive, TypeOK, Stage, Answers
    <3>4. ASSUME NEW q \in Requests, Serve(q)
          PROVE  phase'[r] = phase[r] \/ Stage(r)' > Stage(r)
      <4>1. CASE q = r BY <2>1, <3>4, <4>1 DEF PostsOn, InTransaction
      <4>2. CASE q # r
        BY <3>4, <4>2 DEF Serve, CreateBatch, CreateBatchFails, BeginPost, PostEntry,
                          CommitPost, PostFails, Fetch, TypeOK
      <4>3. QED BY <4>1, <4>2
    <3>5. ASSUME NEW c \in Readers,
                 ReadEntries(c) \/ ReadFails(c) \/ \E q \in Requests : ReadBatch(c, q)
          PROVE  phase' = phase
      BY <3>5 DEF ReadEntries, ReadFails, ReadBatch
    <3>6. QED BY <3>1, <3>2, <3>3, <3>4, <3>5 DEF Next
  <2>3. QED BY <2>1, <2>2
<1>2. QED BY <1>1, TypeCorrect, PTL DEF Spec

\* A table always has a balance to read: there is a latest one among those posted.
LEMMA BalanceExists ==
  ASSUME NEW t \in Table, NEW account
  PROVE  CurrentBalance(t, account) # {}
<1>1. CASE Balanced(t, account) = {} BY <1>1 DEF CurrentBalance
<1>2. CASE Balanced(t, account) # {}
  <2> DEFINE age(e) == MaxClock - At(t, e).createdAt
             Ages == {age(e) : e \in Balanced(t, account)}
  <2>1. \A e \in Balanced(t, account) : At(t, e).createdAt \in 0 .. MaxClock
    BY BalancedRow DEF RowType
  <2>2. Ages \subseteq Nat /\ Ages # {} BY <1>2, <2>1, ClockAssumption
  <2>3. PICK n \in Ages : \A k \in Ages : n <= k
    <3> HIDE DEF Ages
    <3>1. QED BY <2>2, NatMinimum
  <2>4. PICK e \in Balanced(t, account) : n = age(e) BY <2>3
  <2>5. ASSUME NEW f \in Balanced(t, account)
        PROVE  At(t, f).createdAt <= At(t, e).createdAt
    <3>1. age(e) <= age(f) BY <2>3, <2>4
    <3>2. QED BY <2>1, <3>1, ClockAssumption
  <2> HIDE DEF age, Ages
  <2>6. QED BY <1>2, <2>5 DEF CurrentBalance, At
<1>3. QED BY <1>1, <1>2

\* The guards of Serve(r), each with a value left to choose from.
CanServe(r) ==
  \/ phase[r] = "received" /\ (Creatable(request[r]) => Stamps(r) # {})
  \/ phase[r] = "created" /\ (ReasonNullable \/ batches[r] = "pending")
  \/ /\ InTransaction(r)
     /\ Len(work[r]) + 1 \in DOMAIN entries[r]
     /\ CurrentBalance(View(r), entries[r][Len(work[r]) + 1].account) # {}
  \/ /\ InTransaction(r)
     /\ Len(work[r]) = Len(entries[r])
     /\ ~BlankUserKnown \/ ~Conflict(r) \/ Concurrent(r)
  \/ phase[r] = "posted"

\* A goroutine that serves a request is never without a next step, and needs no fault
\* for it: stamps can be taken, a batch to be posted is pending, a balance can be
\* read, and a transaction whose commit is refused can fail.
THEOREM NoRequestIsStuck ==
  Spec => [](\A r \in Requests : phase[r] \in InFlight => CanServe(r))
<1> DEFINE SinceInv == \A r \in Requests : phase[r] = "received" => since[r] <= clock
<1>1. Init => SinceInv BY DEF Init
<1>2. TypeOK /\ SinceInv /\ [Next]_vars => SinceInv'
  <2> SUFFICES ASSUME TypeOK, SinceInv, [Next]_vars, NEW r \in Requests,
                      phase'[r] = "received"
               PROVE  since'[r] <= clock'
    OBVIOUS
  <2> USE ClockAssumption
  <2>1. CASE Tick BY <2>1 DEF Tick, TypeOK
  <2>2. CASE Crash BY <2>2 DEF Crash, TypeOK, InFlight
  <2>3. ASSUME NEW q \in Requests, Receive(q) PROVE since'[r] <= clock'
    <3>1. \/ since' = [since EXCEPT ![q] = clock] /\ phase' = [phase EXCEPT ![q] = "received"]
          \/ since' = since /\ phase' = [phase EXCEPT ![q] = "400"]
      BY <2>3 DEF Receive
    <3>2. clock' = clock /\ clock <= clock BY <2>3 DEF Receive, envVars, TypeOK
    <3>3. CASE q = r BY <2>3, <3>1, <3>2, <3>3 DEF TypeOK
    <3>4. CASE q # r BY <3>1, <3>2, <3>4 DEF TypeOK
    <3>5. QED BY <3>3, <3>4
  <2>4. ASSUME NEW q \in Requests, CreateBatch(q) \/ CreateBatchFails(q)
        PROVE  since'[r] <= clock'
    <3>1. /\ clock' = clock /\ since' = [since EXCEPT ![q] = 0]
          /\ \E next \in {"created", "500"} : phase' = [phase EXCEPT ![q] = next]
      BY <2>4 DEF CreateBatch, CreateBatchFails, Forget, envVars
    <3>2. q # r BY <3>1 DEF TypeOK
    <3>3. QED BY <3>1, <3>2 DEF TypeOK
  <2>5. ASSUME NEW q \in Requests,
               BeginPost(q) \/ PostEntry(q) \/ CommitPost(q) \/ PostFails(q) \/ Fetch(q)
        PROVE  since'[r] <= clock'
    <3>1. clock' = clock /\ since' = since
      BY <2>5 DEF BeginPost, PostEntry, CommitPost, PostFails, OnPostError, Fetch, envVars
    <3>2. phase'[r] # "received" \/ phase'[r] = phase[r]
      BY <2>5 DEF BeginPost, PostEntry, CommitPost, PostFails, OnPostError, Fetch, TypeOK
    <3>3. QED BY <3>1, <3>2
  <2>6. ASSUME NEW c \in Readers,
               ReadEntries(c) \/ ReadFails(c) \/ \E q \in Requests : ReadBatch(c, q)
        PROVE  since'[r] <= clock'
    BY <2>6 DEF ReadEntries, ReadFails, ReadBatch, envVars
  <2>7. CASE UNCHANGED vars BY <2>7 DEF vars, envVars
  <2>8. QED BY <2>1, <2>2, <2>3, <2>4, <2>5, <2>6, <2>7 DEF Next, Serve
<1>3. TypeOK /\ IInv /\ SinceInv =>
        \A r \in Requests : phase[r] \in InFlight => CanServe(r)
  <2> SUFFICES ASSUME TypeOK, IInv, SinceInv, NEW r \in Requests, phase[r] \in InFlight
               PROVE  CanServe(r)
    OBVIOUS
  <2>1. CASE phase[r] = "received"
    <3> DEFINE stamp == [i \in DOMAIN request[r] |-> since[r]]
    <3>1. since[r] \in since[r] .. clock
      BY <2>1, ClockAssumption DEF TypeOK
    <3>2. since[r] <= since[r] BY ClockAssumption DEF TypeOK
    <3>3. stamp \in Stamps(r) BY <3>1, <3>2 DEF Stamps
    <3>4. QED BY <2>1, <3>3 DEF CanServe
  <2>2. CASE phase[r] = "created" BY <2>2 DEF CanServe, IInv, PhaseMatchesBatch
  <2>3. CASE InTransaction(r)
    <3>1. /\ work[r] \in Seq(RowType) /\ entries[r] \in Seq(RowType)
          /\ Len(work[r]) <= Len(entries[r])
      BY <2>3 DEF TypeOK, IInv, TransactionInv, WorkIsLegal
    <3>2. CASE Len(work[r]) = Len(entries[r])
      <4>1. Conflict(r) => Concurrent(r) BY DEF Conflict, Concurrent
      <4>2. QED BY <2>3, <3>2, <4>1 DEF CanServe
    <3>3. CASE Len(work[r]) < Len(entries[r])
      <4>1. Len(work[r]) + 1 \in DOMAIN entries[r] BY <3>1, <3>3
      <4>2. View(r) \in Table BY ViewType DEF Table
      <4>3. CurrentBalance(View(r), entries[r][Len(work[r]) + 1].account) # {}
        BY <4>2, BalanceExists
      <4>4. QED BY <2>3, <4>1, <4>3 DEF CanServe
    <3>4. QED BY <3>1, <3>2, <3>3
  <2>4. CASE phase[r] = "posted" BY <2>4 DEF CanServe
  <2>5. QED BY <2>1, <2>2, <2>3, <2>4 DEF InFlight, InTransaction
<1>4. QED BY <1>1, <1>2, <1>3, TypeCorrect, InvariantHolds, PTL DEF Spec

-----------------------------------------------------------------------------
(***************************************************************************)
(* Package money: the functions of MoneyArithmetic for every word size and *)
(* all arguments.  They wrap like the ledger's sums, so the facts above    *)
(* serve here too.                                                         *)
(***************************************************************************)
Largest(s) == CHOOSE x \in s : \A y \in s : x >= y
FoldStep(f, g, s) == IF s = {} THEN 0 ELSE Wrap(g[s \ {Largest(s)}] + f[Largest(s)])
Folds(f, S, g) == g = [s \in SUBSET S |-> FoldStep(f, g, s)]

\* Sum is a fold, and so a recursive function chosen by its equation; the
\* fold takes the largest index last.
LEMMA FoldIsChoice ==
  ASSUME NEW f
  PROVE  Sum(f) = (CHOOSE g : Folds(f, DOMAIN f, g))[DOMAIN f]
BY DEF Sum, Seqs!FoldLeft, Seqs!MapThenFoldSet, Add, Wrap,
       Seqs!Max, Folds, FoldStep, Largest

\* A non-empty set of indices has a largest one.
LEMMA LargestType ==
  ASSUME NEW k \in Nat, NEW s \in SUBSET (1 .. k), s # {}
  PROVE  Largest(s) \in s
<1> DEFINE gaps == {k - x : x \in s}
<1>1. gaps \subseteq Nat /\ gaps # {}
  <2>1. \A x \in s : k - x \in Nat OBVIOUS
  <2>2. QED BY <2>1
<1>2. PICK n \in gaps : \A m \in gaps : n <= m
  <2> HIDE DEF gaps
  <2>1. QED BY <1>1, NatMinimum
<1>3. PICK x \in s : n = k - x BY <1>2
<1>4. \A y \in s : x >= y
  <2>1. ASSUME NEW y \in s PROVE x >= y
    <3>1. k - x <= k - y BY <1>2, <1>3
    <3>2. x \in Int /\ y \in Int OBVIOUS
    <3>3. QED BY <3>1, <3>2
  <2>2. QED BY <2>1
<1>5. QED BY <1>4 DEF Largest

\* Sum adds with int64 additions, first to last; it wraps the exact sum.
LEMMA MoneySum ==
  ASSUME NEW f, NEW k \in Nat, DOMAIN f = 1 .. k, \A i \in 1 .. k : f[i] \in Int
  PROVE  Sum(f) = Wrap(SumFunctionOnSet(f, DOMAIN f))
<1> DEFINE D == 1 .. k
           h == [s \in SUBSET D |-> Wrap(SumFunctionOnSet(f, s))]
<1>1. \A s \in SUBSET D : IsFiniteSet(s) /\ SumFunctionOnSet(f, s) \in Int
  <2>1. IsFiniteSet(D) BY FS_Interval
  <2>2. \A s \in SUBSET D : IsFiniteSet(s) BY <2>1, FS_Subset
  <2>3. QED BY <2>2, SumType
<1>2. Wrap(0) = 0
  <2>1. Int64Half % (2 * Int64Half) = Int64Half BY Int64Assumption
  <2>2. QED BY <2>1, Int64Assumption DEF Wrap
<1>3. ASSUME NEW s \in SUBSET D, s # {}
      PROVE  Wrap(SumFunctionOnSet(f, s)) =
               Wrap(Wrap(SumFunctionOnSet(f, s \ {Largest(s)})) + f[Largest(s)])
  <2> DEFINE x == Largest(s)
             t == s \ {x}
  <2>1. x \in s /\ t \in SUBSET D /\ x \notin t /\ s = t \cup {x} BY <1>3, LargestType
  <2>2. IsFiniteSet(t) /\ SumFunctionOnSet(f, t) \in Int /\ \A y \in s : f[y] \in Int
    BY <1>1, <2>1
  <2> HIDE DEF x, t
  <2>3. SumFunctionOnSet(f, s) = f[x] + SumFunctionOnSet(f, t) BY <2>1, <2>2, SumAdd
  <2>4. PICK m \in Int : m = SumFunctionOnSet(f, t) BY <2>2
  <2>5. PICK d \in Int : d = f[x] BY <2>1, <2>2
  <2>6. Wrap(m) \in Int /\ Same(m, Wrap(m)) /\ Same(d, d) BY WrapIsSame, SameIsEquivalence
  <2>7. Same(m + d, Wrap(m) + d) BY <2>6, SameSum
  <2>8. Wrap(m + d) = Wrap(Wrap(m) + d) BY <2>6, <2>7, SameWraps
  <2>9. d + m = m + d OBVIOUS
  <2>10. QED BY <2>3, <2>4, <2>5, <2>8, <2>9 DEF x, t
<1>4. Folds(f, D, h)
  <2>1. ASSUME NEW s \in SUBSET D PROVE h[s] = FoldStep(f, h, s)
    <3>1. CASE s = {} BY <1>2, <3>1, SumEmpty DEF FoldStep
    <3>2. CASE s # {}
      <4>1. s \ {Largest(s)} \in SUBSET D OBVIOUS
      <4>2. h[s \ {Largest(s)}] = Wrap(SumFunctionOnSet(f, s \ {Largest(s)})) BY <4>1
      <4>3. h[s] = Wrap(SumFunctionOnSet(f, s)) OBVIOUS
      <4> HIDE DEF h
      <4>4. QED BY <1>3, <3>2, <4>2, <4>3 DEF FoldStep
    <3>3. QED BY <3>1, <3>2
  <2>2. h = [s \in SUBSET D |-> h[s]] OBVIOUS
  <2> HIDE DEF h
  <2>3. h = [s \in SUBSET D |-> FoldStep(f, h, s)] BY <2>1, <2>2
  <2>4. QED BY <2>3 DEF Folds
<1>5. ASSUME NEW g, Folds(f, D, g) PROVE g[D] = h[D]
  <2> DEFINE Wrong == {s \in SUBSET D : g[s] # h[s]}
  <2>1. SUFFICES ASSUME Wrong # {} PROVE FALSE OBVIOUS
  <2>2. PICK s \in Wrong : \A x \in s : s \ {x} \notin Wrong
    <3>1. Wrong \subseteq SUBSET D OBVIOUS
    <3>2. IsFiniteSet(D) BY FS_Interval
    <3> HIDE DEF Wrong, D
    <3>3. QED BY <2>1, <3>1, <3>2, SmallestSet
  <2> HIDE DEF h
  <2>3. g[s] = FoldStep(f, g, s) /\ h[s] = FoldStep(f, h, s) BY <1>4, <1>5 DEF Folds
  <2>4. s # {} BY <2>3 DEF FoldStep
  <2>5. Largest(s) \in s BY <2>4, LargestType
  <2>6. s \ {Largest(s)} \in SUBSET D /\ s \ {Largest(s)} \notin Wrong BY <2>2, <2>5
  <2>7. QED BY <2>3, <2>6 DEF FoldStep
<1>6. PICK g : g = (CHOOSE u : Folds(f, D, u)) OBVIOUS
<1> HIDE DEF h
<1>7. Folds(f, D, g) BY <1>4, <1>6
<1>8. Sum(f) = g[D] BY <1>6, FoldIsChoice
<1>9. QED BY <1>5, <1>7, <1>8 DEF h

-----------------------------------------------------------------------------
\* Division of naturals.
LEMMA Division ==
  ASSUME NEW a \in Nat, NEW b \in Nat, b > 0
  PROVE  \E q \in Nat, rem \in 0 .. b - 1 : a = b * q + rem /\ a \div b = q
<1>1. a = b * (a \div b) + (a % b) OBVIOUS
<1>2. a \div b \in Int /\ a % b \in 0 .. b - 1 OBVIOUS
<1>3. a \div b \in Nat OBVIOUS
<1>4. QED BY <1>1, <1>2, <1>3

\* Rounding half away from zero, without the signs.
LEMMA RoundedMagnitude ==
  ASSUME NEW a \in Nat, NEW b \in Nat, b > 0
  PROVE  \E q \in Nat : /\ (2 * a + b) \div (2 * b) = q
                        /\ 2 * (q * b - a) <= b /\ 2 * (a - q * b) <= b
                        /\ q <= a
                        /\ a = 0 => q = 0
<1>1. 2 * a + b \in Nat /\ 2 * b \in Nat /\ 2 * b > 0 OBVIOUS
<1>2. PICK q \in Nat, rem \in 0 .. 2 * b - 1 :
        2 * a + b = (2 * b) * q + rem /\ (2 * a + b) \div (2 * b) = q
  BY <1>1, Division
<1>3. PICK p \in Nat : p = q * b OBVIOUS
<1>4. (2 * b) * q = 2 * p BY <1>3
<1>5. 2 * a + b = 2 * p + rem BY <1>2, <1>4
<1>6. 2 * (p - a) <= b /\ 2 * (a - p) <= b BY <1>5
<1>7. q <= a
  <2>1. SUFFICES ASSUME q >= a + 1 PROVE FALSE OBVIOUS
  <2>2. q * b >= (a + 1) * b BY <2>1
  <2>3. (a + 1) * b = a * b + b /\ a * b >= a OBVIOUS
  <2>4. PICK m \in Nat : m = a * b OBVIOUS
  <2>5. p >= m + b /\ m >= a BY <1>3, <2>2, <2>3, <2>4
  <2>6. QED BY <1>5, <2>5
<1>8. QED BY <1>2, <1>3, <1>6, <1>7

\* A rounded quotient: the nearest integer, no larger than the dividend, and
\* independent of the sign.
LEMMA Rounded ==
  ASSUME NEW n \in Int, NEW d \in Int, d # 0
  PROVE  /\ Round(n, d) \in Int
         /\ IsNearest(Round(n, d), n, d)
         /\ Magnitude(Round(n, d)) <= Magnitude(n)
         /\ Round(0 - n, d) = 0 - Round(n, d)
<1>1. PICK a \in Nat : a = Magnitude(n) BY DEF Magnitude
<1>2. PICK b \in Nat : b = Magnitude(d) /\ b > 0 BY DEF Magnitude
<1>3. PICK q \in Nat : /\ (2 * a + b) \div (2 * b) = q
                       /\ 2 * (q * b - a) <= b /\ 2 * (a - q * b) <= b
                       /\ q <= a
                       /\ a = 0 => q = 0
  BY <1>2, RoundedMagnitude
<1>4. Magnitude(0 - n) = a BY <1>1 DEF Magnitude
<1>5. /\ Round(n, d) = Sign(n) * Sign(d) * q
      /\ Round(0 - n, d) = Sign(0 - n) * Sign(d) * q
  BY <1>1, <1>2, <1>3, <1>4 DEF Round
<1>6. PICK p \in Nat : p = q * b OBVIOUS
<1>7. 2 * (p - a) <= b /\ 2 * (a - p) <= b BY <1>3, <1>6
<1>8. ASSUME NEW x \in {q, 0 - q}, x = Round(n, d),
             \/ x * d = p /\ n = a
             \/ x * d = 0 - p /\ n = 0 - a,
             Round(0 - n, d) = 0 - x
      PROVE  /\ Round(n, d) \in Int
             /\ IsNearest(Round(n, d), n, d)
             /\ Magnitude(Round(n, d)) <= Magnitude(n)
             /\ Round(0 - n, d) = 0 - Round(n, d)
  <2>1. PICK y \in Int : y = x * d BY <1>8
  <2>2. Magnitude(x) = q BY DEF Magnitude
  <2>3. Magnitude(y - n) = p - a \/ Magnitude(y - n) = a - p
    BY <1>8, <2>1 DEF Magnitude
  <2>4. IsNearest(x, n, d) BY <1>2, <1>7, <2>1, <2>3 DEF IsNearest
  <2>5. QED BY <1>1, <1>3, <1>8, <2>2, <2>4
<1>9. CASE n >= 0 /\ d > 0
  <2>1. Sign(n) = 1 /\ Sign(d) = 1 /\ n = a /\ d = b
    BY <1>1, <1>2, <1>9 DEF Sign, Magnitude
  <2>2. Round(n, d) = q /\ q * d = p BY <1>5, <1>6, <2>1
  <2>3. Round(0 - n, d) = 0 - q
    <3>1. CASE n = 0 BY <1>1, <1>3, <1>5, <2>1, <3>1 DEF Magnitude
    <3>2. CASE n # 0
      <4>1. Sign(0 - n) = 0 - 1 BY <1>9, <3>2 DEF Sign
      <4>2. QED BY <1>5, <2>1, <4>1
    <3>3. QED BY <3>1, <3>2
  <2>4. QED BY <2>1, <2>2, <2>3, <1>8
<1>10. CASE n < 0 /\ d > 0
  <2>1. Sign(n) = 0 - 1 /\ Sign(0 - n) = 1 /\ Sign(d) = 1 /\ n = 0 - a /\ d = b
    BY <1>1, <1>2, <1>10 DEF Sign, Magnitude
  <2>2. Round(n, d) = 0 - q /\ (0 - q) * d = 0 - p BY <1>5, <1>6, <2>1
  <2>3. Round(0 - n, d) = q BY <1>5, <2>1
  <2>4. QED BY <2>1, <2>2, <2>3, <1>8
<1>11. CASE n >= 0 /\ d < 0
  <2>1. Sign(n) = 1 /\ Sign(d) = 0 - 1 /\ n = a /\ d = 0 - b
    BY <1>1, <1>2, <1>11 DEF Sign, Magnitude
  <2>2. Round(n, d) = 0 - q /\ (0 - q) * d = p BY <1>5, <1>6, <2>1
  <2>3. Round(0 - n, d) = q
    <3>1. CASE n = 0 BY <1>1, <1>3, <1>5, <2>1, <3>1 DEF Magnitude
    <3>2. CASE n # 0
      <4>1. Sign(0 - n) = 0 - 1 BY <1>11, <3>2 DEF Sign
      <4>2. QED BY <1>5, <2>1, <4>1
    <3>3. QED BY <3>1, <3>2
  <2>4. QED BY <2>1, <2>2, <2>3, <1>8
<1>12. CASE n < 0 /\ d < 0
  <2>1. /\ Sign(n) = 0 - 1 /\ Sign(0 - n) = 1 /\ Sign(d) = 0 - 1
        /\ n = 0 - a /\ d = 0 - b
    BY <1>1, <1>2, <1>12 DEF Sign, Magnitude
  <2>2. Round(n, d) = q /\ q * d = 0 - p BY <1>5, <1>6, <2>1
  <2>3. Round(0 - n, d) = 0 - q BY <1>5, <2>1
  <2>4. QED BY <2>1, <2>2, <2>3, <1>8
<1>13. QED BY <1>9, <1>10, <1>11, <1>12

\* Within int64, wrapping changes nothing.
LEMMA InRange == ASSUME NEW n \in Int64 PROVE n \in Int /\ Wrap(n) = n
<1>1. n \in Int /\ Int64Half \in Nat /\ n + Int64Half \in 0 .. 2 * Int64Half - 1
  BY Int64Assumption DEF Int64
<1>2. (n + Int64Half) % (2 * Int64Half) = n + Int64Half
  BY <1>1
<1>3. QED BY <1>1, <1>2 DEF Wrap
-----------------------------------------------------------------------------
\* Go's quotient and remainder by a positive number of parts.
LEMMA QuotientAndRemainder ==
  ASSUME NEW n \in Int64, NEW parts \in Nat, parts > 0
  PROVE  \E base \in Int64, rem \in Int :
           /\ Quo(n, parts) = base /\ Rem(n, parts) = rem
           /\ n = parts * base + rem
           /\ rem < parts
           /\ n >= 0 => rem >= 0
           /\ n < 0 => rem <= 0 /\ n <= rem
           /\ rem >= 1 => base + 1 \in Int64
<1>1. n \in Int BY InRange
<1>2. PICK a \in Nat : a = Magnitude(n) BY <1>1 DEF Magnitude
<1>3. Magnitude(parts) = parts /\ Sign(parts) = 1
  BY DEF Magnitude, Sign
<1>4. PICK q \in Nat, left \in 0 .. parts - 1 : a = parts * q + left /\ a \div parts = q
  BY Division
<1>5. PICK p \in Nat : p = parts * q BY <1>4
<1>6. q <= p
  <2>1. parts >= 1 OBVIOUS
  <2>2. parts * q >= 1 * q BY <2>1
  <2>3. QED BY <1>5, <2>2
<1>7. a = p + left BY <1>4, <1>5
<1>8. CASE n >= 0
  <2>1. Sign(n) = 1 /\ n = a BY <1>1, <1>2, <1>8 DEF Sign, Magnitude
  <2>2. Quo(n, parts) = q BY <1>2, <1>3, <1>4, <2>1 DEF Quo
  <2>3. Rem(n, parts) = left
    <3>1. Rem(n, parts) = n - parts * q BY <2>2 DEF Rem
    <3>2. Rem(n, parts) = n - p BY <1>5, <3>1
    <3>3. QED BY <1>7, <2>1, <3>2
  <2>4. q \in Int64 /\ (left >= 1 => q + 1 \in Int64)
    BY <1>6, <1>7, <1>8, <2>1, Int64Assumption DEF Int64
  <2>5. left \in Int /\ left < parts /\ left >= 0 OBVIOUS
  <2>6. n = parts * q + left BY <1>4, <2>1
  <2>7. QED BY <1>8, <2>2, <2>3, <2>4, <2>5, <2>6
<1>9. CASE n < 0
  <2>1. Sign(n) = 0 - 1 /\ n = 0 - a
    BY <1>1, <1>2, <1>9 DEF Sign, Magnitude
  <2>2. Quo(n, parts) = 0 - q BY <1>2, <1>3, <1>4, <2>1 DEF Quo
  <2>3. parts * (0 - q) = 0 - p BY <1>5
  <2>4. Rem(n, parts) = 0 - left BY <1>7, <2>1, <2>2, <2>3 DEF Rem
  <2>5. 0 - q \in Int64 BY <1>6, <1>7, <2>1, Int64Assumption DEF Int64
  <2>6. n = parts * (0 - q) + (0 - left) BY <1>7, <2>1, <2>3
  <2>7. 0 - left \in Int /\ 0 - left < parts /\ 0 - left <= 0 /\ n <= 0 - left
    BY <1>7, <2>1
  <2>8. QED BY <1>9, <2>2, <2>4, <2>5, <2>6, <2>7
<1>10. QED BY <1>1, <1>8, <1>9

\* The parts of an equal allocation, where the first ones are larger by one unit,
\* and what they come to.
EqualParts(f, k, base, rem) ==
  \A i \in 1 .. k : f[i] = IF i <= rem THEN base + 1 ELSE base
PartsTotal(k, base, rem) ==
  k * base + (IF rem <= 0 THEN 0 ELSE IF k <= rem THEN k ELSE rem)

\* The parts come to that.
LEMMA PartsSum ==
  ASSUME NEW k \in Nat, NEW base \in Int, NEW rem \in Int, NEW f,
         EqualParts(f, k, base, rem)
  PROVE  SumFunctionOnSet(f, 1 .. k) = PartsTotal(k, base, rem)
<1> DEFINE extra(i) == IF rem <= 0 THEN 0 ELSE IF i <= rem THEN i ELSE rem
           Good == {i \in 0 .. k : SumFunctionOnSet(f, 1 .. i) = i * base + extra(i)}
<1>1. 0 \in Good
  <2>1. 1 .. 0 = {} OBVIOUS
  <2>2. 0 * base = 0 OBVIOUS
  <2>3. extra(0) = 0 OBVIOUS
  <2>4. QED BY <2>1, <2>2, <2>3, SumEmpty
<1>2. ASSUME NEW i \in 1 .. k, i - 1 \in Good PROVE i \in Good
  <2>1. /\ 1 .. i = (1 .. i - 1) \cup {i} /\ i \notin 1 .. i - 1
        /\ \A j \in 1 .. i : f[j] \in Int
    BY DEF EqualParts
  <2>2. IsFiniteSet(1 .. i - 1) BY FS_Interval
  <2>3. SumFunctionOnSet(f, (1 .. i - 1) \cup {i}) = f[i] + SumFunctionOnSet(f, 1 .. i - 1)
    BY <2>1, <2>2, SumAdd
  <2>4. SumFunctionOnSet(f, 1 .. i - 1) = (i - 1) * base + extra(i - 1) BY <1>2
  <2>5. PICK m \in Int : m = (i - 1) * base OBVIOUS
  <2>6. i * base = m + base BY <2>5
  <2>7. f[i] + extra(i - 1) = base + extra(i) BY <1>2 DEF EqualParts
  <2>8. extra(i - 1) \in Int /\ extra(i) \in Int /\ f[i] \in Int BY <2>1
  <2> HIDE DEF extra, Good
  <2>9. f[i] + (m + extra(i - 1)) = (m + base) + extra(i) BY <2>5, <2>7, <2>8
  <2>10. SumFunctionOnSet(f, 1 .. i) = i * base + extra(i)
    <3>1. SumFunctionOnSet(f, 1 .. i) = f[i] + (m + extra(i - 1)) BY <2>1, <2>3, <2>4, <2>5
    <3>2. QED BY <2>6, <2>9, <3>1
  <2>11. i \in 0 .. k OBVIOUS
  <2>12. QED BY <2>10, <2>11 DEF Good
<1>3. k \in 0 .. k OBVIOUS
<1> HIDE DEF Good
<1>4. k \in Good BY <1>1, <1>2, <1>3, UpTo
<1>5. QED BY <1>4 DEF Good, PartsTotal


\* Allocate: the parts of an amount that is not negative add up to it.
LEMMA AllocateAddsUp ==
  ASSUME NEW n \in Int64, n >= 0, NEW parts \in Nat, parts > 0
  PROVE  Sum(Allocate(n, parts)) = n
<1> DEFINE f == Allocate(n, parts)
<1>1. PICK base \in Int64, rem \in Int :
        /\ Quo(n, parts) = base /\ Rem(n, parts) = rem
        /\ n = parts * base + rem
        /\ rem < parts
        /\ n >= 0 => rem >= 0
        /\ n < 0 => rem <= 0 /\ n <= rem
        /\ rem >= 1 => base + 1 \in Int64
  BY QuotientAndRemainder
<1>2. f = [i \in 1 .. parts |-> Wrap(IF i <= rem THEN base + 1 ELSE base)]
  BY <1>1 DEF Allocate, Wrap
<1>3. n \in Int /\ base \in Int BY InRange
<1>4. /\ DOMAIN f = 1 .. parts
      /\ \A i \in 1 .. parts : f[i] = IF i <= rem THEN base + 1 ELSE base
  <2>1. ASSUME NEW i \in 1 .. parts PROVE f[i] = IF i <= rem THEN base + 1 ELSE base
    <3>1. (IF i <= rem THEN base + 1 ELSE base) \in Int64 BY <1>1
    <3>2. f[i] = Wrap(IF i <= rem THEN base + 1 ELSE base) BY <1>2
    <3> HIDE DEF f
    <3>3. QED BY <3>1, <3>2, InRange
  <2>2. QED BY <1>2, <2>1
<1> HIDE DEF f
<1>5. Sum(f) = Wrap(SumFunctionOnSet(f, 1 .. parts)) BY <1>3, <1>4, MoneySum
<1>6. SumFunctionOnSet(f, 1 .. parts) = n
  <2>1. SumFunctionOnSet(f, 1 .. parts) =
          parts * base + (IF rem <= 0 THEN 0 ELSE IF parts <= rem THEN parts ELSE rem)
    <3>1. parts \in Nat /\ base \in Int /\ rem \in Int BY <1>3
    <3>2. EqualParts(f, parts, base, rem) BY <1>4 DEF EqualParts
    <3>3. SumFunctionOnSet(f, 1 .. parts) = PartsTotal(parts, base, rem)
      BY <3>1, <3>2, PartsSum
    <3>4. QED BY <3>3 DEF PartsTotal
  <2>2. PICK m \in Int : m = parts * base BY <1>3
  <2>3. QED BY <1>1, <1>3, <2>1, <2>2
<1>7. Sum(f) = n BY <1>5, <1>6, InRange
<1>8. QED BY <1>7 DEF f

-----------------------------------------------------------------------------
(***************************************************************************)
(* Doubles.  The gaps between them are powers of two, and around every     *)
(* quotient there is one that leaves Significand / 2 .. Significand steps  *)
(* below it: the least power that is large enough.                         *)
(***************************************************************************)
LEMMA SignificandType == /\ Significand \in Nat /\ Significand >= 2
                         /\ Int64Half \in Nat /\ Significand < Int64Half
BY Int64Assumption, DoubleAssumption

\* What a quotient is determined by.
LEMMA QuotientIs ==
  ASSUME NEW a \in Nat, NEW b \in Nat, b > 0, NEW k \in Nat,
         b * k <= a, a < b * (k + 1)
  PROVE  a \div b = k
<1>1. PICK q \in Nat, rem \in 0 .. b - 1 : a = b * q + rem /\ a \div b = q BY Division
<1>2. PICK m \in Nat, p \in Nat : m = b * k /\ p = b * q OBVIOUS
<1>3. b * (k + 1) = m + b BY <1>2
<1>4. ASSUME q >= k + 1 PROVE FALSE
  <2>1. b * q >= b * (k + 1) BY <1>4
  <2>2. QED BY <1>1, <1>2, <1>3, <2>1
<1>5. ASSUME q + 1 <= k PROVE FALSE
  <2>1. b * (q + 1) <= b * k /\ b * (q + 1) = p + b BY <1>2, <1>5
  <2>2. QED BY <1>1, <1>2, <2>1
<1>6. QED BY <1>1, <1>4, <1>5

\* A number without remainder is a multiple.
LEMMA Divides ==
  ASSUME NEW a \in Nat, NEW b \in Nat, b > 0
  PROVE  a % b = 0 <=> \E k \in Nat : a = b * k
<1>1. a = b * (a \div b) + (a % b) /\ a \div b \in Nat OBVIOUS
<1>2. ASSUME NEW k \in Nat, a = b * k PROVE a % b = 0
  <2>1. b * (k + 1) = b * k + b OBVIOUS
  <2>2. a \div b = k BY <1>2, <2>1, QuotientIs
  <2>3. a % b \in Int OBVIOUS
  <2>4. PICK m \in Int : m = b * k OBVIOUS
  <2>5. QED BY <1>1, <1>2, <2>2, <2>3, <2>4
<1>3. ASSUME a % b = 0 PROVE a = b * (a \div b) BY <1>1, <1>3
<1>4. QED BY <1>1, <1>2, <1>3

\* Powers of two: one is, the double of one is, and every other is the double of
\* one.
LEMMA PowerDoubled ==
  ASSUME NEW p \in Nat, p > 0, PowerOfTwo(p) PROVE PowerOfTwo(2 * p)
<1>1. ASSUME NEW q \in 2 .. 2 * p, (2 * p) % q = 0, q % 2 # 0 PROVE FALSE
  <2>1. q \in Nat /\ q > 0 /\ 2 * p \in Nat OBVIOUS
  <2>2. PICK k \in Nat : 2 * p = q * k BY <1>1, <2>1, Divides
  <2>3. PICK c \in Nat : q = 2 * c + 1 BY <1>1
  <2>4. PICK j \in Int : j = p - c * k OBVIOUS
  <2>5. k = 2 * j
    <3>1. PICK m \in Int : m = c * k OBVIOUS
    <3>2. q * k = 2 * m + k BY <2>3, <3>1
    <3>3. QED BY <2>2, <2>4, <3>1, <3>2
  <2>6. j \in Nat /\ p = q * j
    <3>1. PICK m \in Int : m = q * j BY <2>1
    <3>2. q * k = 2 * m BY <2>5, <3>1
    <3>3. QED BY <2>2, <2>5, <3>1, <3>2
  <2>7. p % q = 0 BY <2>1, <2>6, Divides
  <2>8. q <= p
    <3>1. j >= 1 BY <2>1, <2>6
    <3>2. q * j >= q BY <2>1, <2>6, <3>1
    <3>3. QED BY <2>6, <3>2
  <2>9. q \in 2 .. p BY <1>1, <2>8
  <2>10. q % 2 = 0 BY <2>7, <2>9, Zenon DEF PowerOfTwo
  <2>11. QED BY <1>1, <2>10
<1>2. QED BY <1>1 DEF PowerOfTwo

LEMMA PowerHalved ==
  ASSUME NEW p \in Nat, p > 1, PowerOfTwo(p)
  PROVE  \E h \in Nat : h > 0 /\ p = 2 * h /\ PowerOfTwo(h)
<1>1. p % p = 0
  <2>1. p = p * 1 OBVIOUS
  <2>2. QED BY <2>1, Divides
<1>2. p % 2 = 0
  <2>1. p \in 2 .. p OBVIOUS
  <2>2. QED BY <1>1, <2>1, Zenon DEF PowerOfTwo
<1>3. PICK h \in Nat : p = 2 * h BY <1>2
<1>4. ASSUME NEW q \in 2 .. h, h % q = 0 PROVE q % 2 = 0
  <2>0. q \in Nat /\ q > 0 OBVIOUS
  <2>1. PICK k \in Nat : h = q * k BY <1>4, <2>0, Divides
  <2>2. p = q * (2 * k) BY <1>3, <2>0, <2>1
  <2>3. p % q = 0 BY <2>2, Divides
  <2>4. QED BY <1>3, <2>3 DEF PowerOfTwo
<1>5. QED BY <1>3, <1>4 DEF PowerOfTwo

\* There is a power of two above every number.
LEMMA PowersGrow ==
  ASSUME NEW n \in Nat PROVE \E u \in Nat : u > n /\ PowerOfTwo(u)
<1> DEFINE Good == {i \in 0 .. n : \E u \in Nat : u > i /\ PowerOfTwo(u)}
<1>1. 0 \in Good
  <2>1. PowerOfTwo(1) BY DEF PowerOfTwo
  <2>2. QED BY <2>1
<1>2. ASSUME NEW i \in 1 .. n, i - 1 \in Good PROVE i \in Good
  <2>1. PICK u \in Nat : u > i - 1 /\ PowerOfTwo(u) BY <1>2
  <2>2. PowerOfTwo(2 * u) BY <2>1, PowerDoubled
  <2>3. 2 * u \in Nat /\ 2 * u > i BY <2>1
  <2>4. QED BY <2>2, <2>3
<1>3. n \in 0 .. n OBVIOUS
<1> HIDE DEF Good
<1>4. n \in Good BY <1>1, <1>2, <1>3, UpTo
<1>5. QED BY <1>4 DEF Good

\* The least power of two that takes y above x; half of it does not.
LEMMA LeastPower ==
  ASSUME NEW x \in Nat, NEW y \in Nat, y > 0
  PROVE  \E u \in Nat : /\ u > 0 /\ PowerOfTwo(u) /\ x < y * u
                        /\ u = 1 \/ \E h \in Nat : h > 0 /\ u = 2 * h /\ y * h <= x
<1> DEFINE T == {u \in Nat : u > 0 /\ PowerOfTwo(u) /\ x < y * u}
<1>1. T # {}
  <2>1. PICK u \in Nat : u > x /\ PowerOfTwo(u) BY PowersGrow
  <2>2. y * u >= u BY <2>1
  <2>3. QED BY <2>1, <2>2
<1>2. PICK u \in T : \A k \in T : u <= k
  <2>1. T \subseteq Nat OBVIOUS
  <2> HIDE DEF T
  <2>2. QED BY <1>1, <2>1, NatMinimum
<1>3. ASSUME u # 1 PROVE \E h \in Nat : h > 0 /\ u = 2 * h /\ y * h <= x
  <2>1. PICK h \in Nat : h > 0 /\ u = 2 * h /\ PowerOfTwo(h) BY <1>3, PowerHalved
  <2>2. h \notin T BY <1>2, <2>1
  <2>3. ~(x < y * h) BY <2>1, <2>2
  <2>4. PICK m \in Int : m = y * h OBVIOUS
  <2>5. m <= x BY <2>3, <2>4
  <2>6. QED BY <2>1, <2>4, <2>5
<1>4. QED BY <1>2, <1>3

\* So the gaps exist.
LEMMA GapExists ==
  ASSUME NEW a \in Nat, NEW b \in Nat, b > 0, a >= Significand * b
  PROVE  /\ Gap(a, b) \in Nat /\ Gap(a, b) > 0
         /\ Significand * Gap(a, b) * b <= 2 * a
<1>1. PICK y \in Nat : y = Significand * b BY SignificandType
<1>2. y >= 2 /\ y <= a
  <2>1. Significand * b >= 2 * b BY SignificandType
  <2>2. QED BY <1>1, <2>1
<1>3. PICK u \in Nat : /\ u > 0 /\ PowerOfTwo(u) /\ a < y * u
                       /\ u = 1 \/ \E h \in Nat : h > 0 /\ u = 2 * h /\ y * h <= a
  <2>1. y > 0 BY <1>2
  <2>2. QED BY <2>1, LeastPower, Zenon
<1>4. u # 1 BY <1>2, <1>3
<1>5. PICK h \in Nat : h > 0 /\ u = 2 * h /\ y * h <= a BY <1>3, <1>4
<1>6. y * u <= 2 * a
  <2>1. PICK m \in Nat : m = y * h OBVIOUS
  <2>2. y * u = 2 * m BY <1>5, <2>1
  <2>3. QED BY <1>5, <2>1, <2>2
<1>7. u <= a
  <2>1. y * h >= 2 * h BY <1>2
  <2>2. PICK m \in Nat : m = y * h OBVIOUS
  <2>3. QED BY <1>5, <2>1, <2>2
<1>8. Significand * u * b = y * u
  <2>1. PICK s \in Nat : s = Significand BY SignificandType
  <2>2. (s * u) * b = (s * b) * u OBVIOUS
  <2>3. QED BY <1>1, <2>1, <2>2
<1>9. \E g \in 1 .. a : Significand * g * b <= 2 * a /\ a < Significand * g * b /\ PowerOfTwo(g)
  BY <1>3, <1>6, <1>7, <1>8
<1>10. /\ Gap(a, b) \in 1 .. a
       /\ Significand * Gap(a, b) * b <= 2 * a
  <2> HIDE DEF PowerOfTwo
  <2>1. QED BY <1>9, Zenon DEF Gap
<1>11. QED BY <1>10

LEMMA InverseGapExists ==
  ASSUME NEW a \in Nat, NEW b \in Nat, a > 0, b > 0, a < Significand * b
  PROVE  /\ InverseGap(a, b) \in Nat /\ InverseGap(a, b) > 0
         /\ PowerOfTwo(InverseGap(a, b))
         /\ Significand * b <= 2 * a * InverseGap(a, b)
<1>1. PICK y \in Nat : y = Significand * b BY SignificandType
<1>2. y > 0 BY <1>1
<1>3. PICK v \in Nat :
        /\ v > 0 /\ PowerOfTwo(v) /\ y - 1 < (2 * a) * v
        /\ v = 1 \/ \E h \in Nat : h > 0 /\ v = 2 * h /\ (2 * a) * h <= y - 1
  <2>1. y - 1 \in Nat /\ 2 * a \in Nat /\ 2 * a > 0 BY <1>2
  <2> HIDE DEF PowerOfTwo
  <2>2. QED BY <2>1, LeastPower
<1>4. PICK m \in Nat : m = a * v OBVIOUS
<1>5. (2 * a) * v = 2 * m BY <1>4
<1>6. y <= (2 * a) * v BY <1>2, <1>3, <1>5
<1>7. a * v < y
  <2>1. CASE v = 1 BY <1>1, <2>1
  <2>2. ASSUME NEW h \in Nat, v = 2 * h, (2 * a) * h <= y - 1 PROVE a * v < y
    <3>1. a * v = (2 * a) * h BY <2>2
    <3>2. QED BY <1>4, <2>2, <3>1
  <2>3. QED BY <1>3, <2>1, <2>2
<1>8. v <= y
  <2>1. a * v >= v OBVIOUS
  <2>2. QED BY <1>4, <1>7, <2>1
<1>9. \E g \in 1 .. y : y <= 2 * a * g /\ a * g < y /\ PowerOfTwo(g)
  BY <1>3, <1>6, <1>7, <1>8
<1>10. /\ InverseGap(a, b) \in 1 .. y
       /\ y <= 2 * a * InverseGap(a, b) /\ PowerOfTwo(InverseGap(a, b))
  BY <1>1, <1>9 DEF InverseGap
<1>11. QED BY <1>1, <1>10

-----------------------------------------------------------------------------
\* Rounding half to even.
LEMMA EvenlyRounded ==
  ASSUME NEW a \in Nat, NEW b \in Nat, b > 0
  PROVE  /\ RoundEven(a, b) \in Nat
         /\ 2 * (RoundEven(a, b) * b - a) <= b
         /\ 2 * (a - RoundEven(a, b) * b) <= b
<1>1. PICK q \in Nat, rem \in 0 .. b - 1 : a = b * q + rem /\ a \div b = q BY Division
<1>2. PICK m \in Nat : m = b * q OBVIOUS
<1>3. a % b = rem
  <2>1. a = b * (a \div b) + (a % b) /\ a % b \in Int OBVIOUS
  <2>2. a = m + (a % b) BY <1>1, <1>2, <2>1
  <2>3. QED BY <1>1, <1>2, <2>1, <2>2
<1>4. RoundEven(a, b) \in {q, q + 1}
  BY <1>1 DEF RoundEven
<1>5. CASE RoundEven(a, b) = q
  <2>1. 2 * rem <= b
    <3>1. rem \in Int OBVIOUS
    <3>2. ~(2 * rem > b) BY <1>1, <1>3, <1>5 DEF RoundEven
    <3>3. QED BY <3>1, <3>2
  <2>2. q * b = m BY <1>2
  <2>3. QED BY <1>1, <1>2, <1>5, <2>1, <2>2
<1>6. CASE RoundEven(a, b) = q + 1
  <2>1. 2 * rem >= b
    <3>1. 2 * rem > b \/ 2 * rem = b BY <1>1, <1>3, <1>6 DEF RoundEven
    <3>2. QED BY <3>1
  <2>2. (q + 1) * b = m + b BY <1>2
  <2>3. QED BY <1>1, <1>2, <1>6, <2>1, <2>2
<1>7. QED BY <1>4, <1>5, <1>6

\* A large quotient: an integer, and not zero.
LEMMA LargeType ==
  ASSUME NEW a \in Nat, NEW b \in Nat, b > 0, a >= Significand * b
  PROVE  Large(a, b) \in Nat /\ Large(a, b) > 0
<1>1. PICK u \in Nat : u = Gap(a, b) /\ u > 0 /\ Significand * u * b <= 2 * a
  BY GapExists
<1>2. PICK z \in Nat : z = u * b OBVIOUS
<1>3. z > 0 BY <1>1, <1>2
<1>4. PICK m \in Nat : /\ m = RoundEven(a, z)
                       /\ 2 * (a - m * z) <= z
  BY <1>3, EvenlyRounded
<1>5. m # 0
  <2>1. SUFFICES ASSUME m = 0 PROVE FALSE OBVIOUS
  <2>2. 2 * a <= z BY <1>4, <2>1
  <2>3. PICK s \in Nat : s = Significand /\ s >= 2 BY SignificandType
  <2>4. s * u * b = s * z BY <1>2
  <2>5. s * z >= 2 * z BY <2>3
  <2>6. 2 * z <= 2 * a
    <3>1. PICK w \in Int : w = s * z OBVIOUS
    <3>2. QED BY <1>1, <2>3, <2>4, <2>5, <3>1
  <2>7. QED BY <1>3, <2>2, <2>6
<1>6. Large(a, b) = u * m BY <1>1, <1>2, <1>4 DEF Large
<1>7. u * m >= u BY <1>5
<1>8. QED BY <1>1, <1>6, <1>7

\* float64() of an integer is an integer, the same one if it is no larger than the
\* significand, and zero for zero only.
LEMMA DoubleType ==
  ASSUME NEW n \in Int
  PROVE  /\ ToDouble(n) \in Int
         /\ Magnitude(n) <= Significand => ToDouble(n) = n
         /\ n # 0 => ToDouble(n) # 0
<1>1. CASE Magnitude(n) <= Significand BY <1>1 DEF ToDouble
<1>2. CASE ~(Magnitude(n) <= Significand)
  <2>1. PICK a \in Nat : a = Magnitude(n) BY DEF Magnitude
  <2>2. a >= Significand * 1 BY <1>2, <2>1, SignificandType
  <2>3. PICK m \in Nat : m = Large(a, 1) /\ m > 0 BY <2>2, LargeType
  <2>4. ToDouble(n) = Sign(n) * m BY <1>2, <2>1, <2>3 DEF ToDouble
  <2>5. Sign(n) = 1 \/ Sign(n) = 0 - 1 BY DEF Sign
  <2>6. QED BY <1>2, <2>3, <2>4, <2>5
<1>3. QED BY <1>1, <1>2

\* The product of two doubles is an integer, the exact one if it is small.
LEMMA ProductType ==
  ASSUME NEW m \in Int, NEW n \in Int
  PROVE  /\ Product(m, n) \in Int
         /\ Precise(m * n) => Product(m, n) = m * n
<1>1. PICK x \in Int, y \in Int : x = ToDouble(m) /\ y = ToDouble(n) BY DoubleType
<1>2. x * y \in Int OBVIOUS
<1>3. Product(m, n) \in Int BY <1>1, <1>2, DoubleType DEF Product
<1>4. ASSUME Precise(m * n) PROVE Product(m, n) = m * n
  <2>1. PICK p \in Int : p = m * n OBVIOUS
  <2>2. Magnitude(p) <= Significand /\ ToDouble(p) = p
    <3>1. 2 * Magnitude(p) < Significand BY <1>4, <2>1 DEF Precise
    <3>2. Magnitude(p) <= Significand BY <3>1, SignificandType DEF Magnitude
    <3>3. QED BY <3>2, DoubleType
  <2>3. Magnitude(0) <= Significand BY SignificandType DEF Magnitude
  <2>4. x * y = p
    <3>1. CASE m = 0
      <4>1. x = 0 /\ p = 0 BY <1>1, <2>1, <2>3, <3>1, DoubleType
      <4>2. QED BY <4>1
    <3>2. CASE n = 0
      <4>1. y = 0 /\ p = 0 BY <1>1, <2>1, <2>3, <3>2, DoubleType
      <4>2. QED BY <4>1
    <3>3. CASE m # 0 /\ n # 0
      <4>1. PICK a \in Nat, b \in Nat : a = Magnitude(m) /\ b = Magnitude(n) BY DEF Magnitude
      <4>2. a > 0 /\ b > 0 BY <3>3, <4>1 DEF Magnitude
      <4>3. Magnitude(p) = a * b
        <5>1. (m = a \/ m = 0 - a) /\ (n = b \/ n = 0 - b) BY <4>1 DEF Magnitude
        <5>2. p = a * b \/ p = 0 - a * b BY <2>1, <5>1
        <5>3. PICK z \in Nat : z = a * b OBVIOUS
        <5>4. QED BY <5>2, <5>3 DEF Magnitude
      <4>4. a * b >= a /\ a * b >= b BY <4>2
      <4>5. PICK z \in Nat : z = a * b OBVIOUS
      <4>6. a <= Significand /\ b <= Significand
        BY <2>2, <4>3, <4>4, <4>5, SignificandType
      <4>7. x = m /\ y = n BY <1>1, <4>1, <4>6, DoubleType
      <4>8. QED BY <2>1, <4>7
    <3>4. QED BY <3>1, <3>2, <3>3
  <2>5. QED BY <1>1, <2>1, <2>2, <2>4 DEF Product
<1>5. QED BY <1>3, <1>4

\* int64() of an integer is an integer, the same one if it fits.
LEMMA ToInt64Type ==
  ASSUME NEW n \in Int
  PROVE  /\ ToInt64(n) \in Int
         /\ Magnitude(n) < Int64Half => ToInt64(n) = n
<1>1. Beyond \in Int BY DoubleAssumption, InRange
<1>2. ToInt64(n) \in Int BY <1>1, SignificandType DEF ToInt64
<1>3. ASSUME Magnitude(n) < Int64Half PROVE ToInt64(n) = n
  BY <1>3, SignificandType DEF ToInt64, Magnitude
<1>4. QED BY <1>2, <1>3

\* A rounded quotient is an integer.
LEMMA QuotientType ==
  ASSUME NEW n \in Int, NEW d \in Int, d # 0
  PROVE  RoundedQuotient(n, d) \in Int
<1>1. CASE n = 0 BY <1>1 DEF RoundedQuotient
<1>2. CASE n # 0
  <2>1. PICK a \in Nat, b \in Nat : a = Magnitude(n) /\ b = Magnitude(d) BY DEF Magnitude
  <2>2. a > 0 /\ b > 0 BY <1>2, <2>1 DEF Magnitude
  <2>3. Sign(n) \in Int /\ Sign(d) \in Int BY DEF Sign
  <2>4. PICK y \in Nat : y = Significand * b BY SignificandType
  <2>5. CASE a >= y
    <3>1. PICK m \in Nat : m = Large(a, b) BY <2>2, <2>4, <2>5, LargeType
    <3>2. RoundedQuotient(n, d) = Sign(n) * Sign(d) * m
      BY <1>2, <2>1, <2>4, <2>5, <3>1 DEF RoundedQuotient
    <3>3. QED BY <2>3, <3>2
  <2>6. CASE a < y
    <3>1. PICK v \in Nat : v = InverseGap(a, b) /\ v > 0
      BY <2>2, <2>4, <2>6, InverseGapExists
    <3>2. a * v \in Nat OBVIOUS
    <3>3. PICK m \in Nat : m = RoundEven(a * v, b) BY <2>2, <3>2, EvenlyRounded
    <3>4. Round(m, v) \in Int
      <4>1. m \in Int /\ v \in Int /\ v # 0 BY <3>1
      <4>2. QED BY <4>1, Rounded
    <3>5. ~(a >= y) BY <2>6
    <3>6. RoundedQuotient(n, d) = Sign(n) * Sign(d) * Round(m, v)
      BY <1>2, <2>1, <2>4, <3>1, <3>3, <3>5 DEF RoundedQuotient
    <3>7. QED BY <2>3, <3>4, <3>6
  <2>7. QED BY <2>5, <2>6
<1>3. QED BY <1>1, <1>2

\* The quotient of a and b rounded to an integer, half up, and to steps of 1 / v.
RoundHalf(a, b) == (2 * a + b) \div (2 * b)
InSteps(m, a, b, v) == 2 * (m * b - a * v) <= b /\ 2 * (a * v - m * b) <= b

\* Rounding to steps, of which a unit has v = 2 * w, and then to integers: if v
\* exceeds the divisor b, it is as good as rounding once, for a quotient that is
\* not halfway between two integers is at least half of 1 / b from there, which is
\* more than half a step.
LEMMA RoundedTwice ==
  ASSUME NEW a \in Nat, NEW b \in Nat, b > 0,
         NEW v \in Nat, NEW w \in Nat, v = 2 * w, v > b,
         NEW m \in Nat, InSteps(m, a, b, v)
  PROVE  RoundHalf(m, v) = RoundHalf(a, b)
<1>1. 2 * a + b \in Nat /\ 2 * b \in Nat /\ 2 * b > 0 OBVIOUS
<1>2. PICK k \in Nat, rem \in 0 .. 2 * b - 1 :
        2 * a + b = (2 * b) * k + rem /\ (2 * a + b) \div (2 * b) = k
  BY <1>1, Division
<1>3. w > 0 OBVIOUS
<1>4. PICK x \in Nat, p \in Nat, z \in Nat : x = b * k /\ p = m * b /\ z = a * w OBVIOUS
<1>5. a * v = 2 * z BY <1>4
<1>6. 2 * (p - 2 * z) <= b /\ 2 * (2 * z - p) <= b BY <1>4, <1>5 DEF InSteps
<1>7. 2 * x <= 2 * a + b /\ 2 * a + b <= 2 * x + 2 * b - 1
  <2>1. (2 * b) * k = 2 * x BY <1>4
  <2>2. QED BY <1>2, <2>1
<1>8. PICK y \in Nat, bw \in Nat : y = w * x /\ bw = w * b OBVIOUS
<1>9. 2 * y <= 2 * z + bw
  <2>1. w * (2 * x) <= w * (2 * a + b) BY <1>7
  <2>2. w * (2 * x) = 2 * y /\ w * (2 * a + b) = 2 * z + bw BY <1>4, <1>8
  <2>3. QED BY <2>1, <2>2
<1>10. 2 * z + w <= 2 * y + bw
  <2>1. w * (2 * a + 1) <= w * (2 * x + b) BY <1>7
  <2>2. w * (2 * a + 1) = 2 * z + w /\ w * (2 * x + b) = 2 * y + bw BY <1>4, <1>8
  <2>3. QED BY <2>1, <2>2
<1>11. PICK wk \in Nat : wk = w * k OBVIOUS
<1>12. wk * b = y
  <2>1. (w * k) * b = w * (b * k) OBVIOUS
  <2>2. QED BY <1>4, <1>8, <1>11, <2>1
<1>13. 2 * wk <= m + w
  <2>1. SUFFICES ASSUME m + w + 1 <= 2 * wk PROVE FALSE OBVIOUS
  <2>2. (m + w + 1) * b <= (2 * wk) * b BY <2>1
  <2>3. (m + w + 1) * b = p + bw + b /\ (2 * wk) * b = 2 * y BY <1>4, <1>8, <1>12
  <2>4. QED BY <1>6, <1>9, <2>2, <2>3
<1>14. m + 1 <= 2 * wk + w
  <2>1. SUFFICES ASSUME 2 * wk + w <= m PROVE FALSE OBVIOUS
  <2>2. (2 * wk + w) * b <= m * b BY <2>1
  <2>3. (2 * wk + w) * b = 2 * y + bw BY <1>8, <1>12
  <2>4. QED BY <1>4, <1>6, <1>10, <2>2, <2>3
<1>15. (2 * v) * k = 4 * wk /\ (2 * v) * (k + 1) = 4 * wk + 4 * w BY <1>11
<1>16. (2 * v) * k <= 2 * m + v /\ 2 * m + v < (2 * v) * (k + 1)
  BY <1>13, <1>14, <1>15
<1>17. (2 * m + v) \div (2 * v) = k
  <2>1. 2 * m + v \in Nat /\ 2 * v \in Nat /\ 2 * v > 0 BY <1>3
  <2>2. QED BY <1>16, <2>1, QuotientIs
<1>18. QED BY <1>2, <1>17 DEF RoundHalf

\* So math.Round of a quotient of doubles is exact where the dividend has a digit
\* to spare.
LEMMA PreciseQuotient ==
  ASSUME NEW n \in Int, NEW d \in Int, d # 0, Precise(n)
  PROVE  RoundedQuotient(n, d) = Round(n, d)
<1>1. PICK a \in Nat, b \in Nat : a = Magnitude(n) /\ b = Magnitude(d) BY DEF Magnitude
<1>2. b > 0 /\ 2 * a < Significand BY <1>1 DEF Magnitude, Precise
<1>3. CASE n = 0
  <2>1. a = 0 BY <1>1, <1>3 DEF Magnitude
  <2>2. PICK q \in Nat : (2 * a + b) \div (2 * b) = q /\ (a = 0 => q = 0)
    BY <1>2, RoundedMagnitude
  <2>3. Round(n, d) = Sign(n) * Sign(d) * 0 BY <1>1, <2>1, <2>2 DEF Round
  <2>4. Sign(n) \in Int /\ Sign(d) \in Int BY DEF Sign
  <2>5. QED BY <1>3, <2>3, <2>4 DEF RoundedQuotient
<1>4. CASE n # 0
  <2>1. a > 0 BY <1>1, <1>4 DEF Magnitude
  <2>2. PICK y \in Nat : y = Significand * b BY SignificandType
  <2>3. a < y
    <3>1. Significand * b >= Significand BY <1>2, SignificandType
    <3>2. QED BY <1>2, <2>2, <3>1, SignificandType
  <2>4. PICK v \in Nat : /\ v = InverseGap(a, b) /\ v > 0 /\ PowerOfTwo(v)
                         /\ y <= 2 * a * v
    BY <1>2, <2>1, <2>2, <2>3, InverseGapExists
  <2>5. v > b
    <3>1. PICK s \in Nat : s = Significand BY SignificandType
    <3>2. SUFFICES ASSUME v <= b PROVE FALSE OBVIOUS
    <3>3. (2 * a) * v <= (2 * a) * b BY <3>2
    <3>4. (2 * a + 1) * b <= s * b BY <1>2, <3>1
    <3>5. (2 * a + 1) * b = (2 * a) * b + b OBVIOUS
    <3>6. PICK x \in Nat, z \in Nat : x = (2 * a) * b /\ z = (2 * a) * v OBVIOUS
    <3>7. QED BY <1>2, <2>2, <2>4, <3>1, <3>3, <3>4, <3>5, <3>6
  <2>6. PICK w \in Nat : v = 2 * w
    <3>1. v > 1 BY <1>2, <2>5
    <3> HIDE DEF PowerOfTwo
    <3>2. QED BY <2>4, <3>1, PowerHalved
  <2>7. a * v \in Nat OBVIOUS
  <2>8. PICK m \in Nat : /\ m = RoundEven(a * v, b)
                         /\ 2 * (m * b - a * v) <= b
                         /\ 2 * (a * v - m * b) <= b
    BY <1>2, <2>7, EvenlyRounded
  <2>9. RoundHalf(m, v) = RoundHalf(a, b)
    <3>1. b > 0 /\ v = 2 * w /\ v > b BY <1>2, <2>5, <2>6
    <3>2. InSteps(m, a, b, v) BY <2>8 DEF InSteps
    <3>3. QED BY <3>1, <3>2, RoundedTwice
  <2>10. Magnitude(m) = m /\ Magnitude(v) = v /\ Sign(m) = 1 /\ Sign(v) = 1
    BY DEF Magnitude, Sign
  <2>11. Round(m, v) = RoundHalf(a, b)
    <3>1. Round(m, v) = 1 * 1 * RoundHalf(m, v) BY <2>10 DEF Round, RoundHalf
    <3>2. PICK q \in Nat : q = RoundHalf(a, b) BY <1>2, RoundedMagnitude DEF RoundHalf
    <3>3. QED BY <2>9, <3>1, <3>2
  <2>12. ~(a >= y) BY <2>3
  <2>13. RoundedQuotient(n, d) = Sign(n) * Sign(d) * Round(m, v)
    BY <1>1, <1>4, <2>2, <2>4, <2>8, <2>12 DEF RoundedQuotient
  <2>14. QED BY <1>1, <2>11, <2>13 DEF Round, RoundHalf
<1>5. QED BY <1>3, <1>4

\* And it fits into an int64.
LEMMA PreciseResult ==
  ASSUME NEW n \in Int, NEW d \in Int, d # 0, Precise(n)
  PROVE  /\ ToInt64(RoundedQuotient(n, d)) = Round(n, d)
         /\ Round(n, d) \in Int /\ IsNearest(Round(n, d), n, d)
         /\ ToInt64(RoundedQuotient(0 - n, d)) = 0 - Round(n, d)
<1>1. PICK q \in Int : /\ q = Round(n, d) /\ IsNearest(q, n, d)
                       /\ Magnitude(q) <= Magnitude(n) /\ Round(0 - n, d) = 0 - q
  BY Rounded
<1>2. Magnitude(q) < Int64Half /\ Magnitude(0 - q) < Int64Half
  BY <1>1, SignificandType DEF Precise, Magnitude
<1>3. 0 - n \in Int /\ Precise(0 - n) BY DEF Precise, Magnitude
<1>4. RoundedQuotient(n, d) = q /\ RoundedQuotient(0 - n, d) = 0 - q
  BY <1>1, <1>3, PreciseQuotient
<1>5. ToInt64(q) = q /\ ToInt64(0 - q) = 0 - q
  <2>1. 0 - q \in Int OBVIOUS
  <2>2. QED BY <1>2, <2>1, ToInt64Type
<1>6. QED BY <1>1, <1>4, <1>5

-----------------------------------------------------------------------------
\* AllocateByRatios: the rounded shares, and what the first is given on top.
RatioTotal(ratios) == Sum(ratios)
Share(n, ratios, i) ==
  ToInt64(RoundedQuotient(Product(n, ratios[i]), ToDouble(RatioTotal(ratios))))
Shares(n, ratios) == [i \in DOMAIN ratios |-> Share(n, ratios, i)]
Allocated(n, ratios) ==
  [Shares(n, ratios) EXCEPT ![1] = Wrap(@ + Wrap(n - Sum(Shares(n, ratios))))]

LEMMA AllocatedIsAllocation ==
  ASSUME NEW n, NEW ratios, ratios # <<>>, RatioTotal(ratios) # 0
  PROVE  AllocateByRatios(n, ratios) = Allocated(n, ratios)
BY DEF AllocateByRatios, Add, Allocated, Shares, Share, RatioTotal

\* Totals and shares are integers.
LEMMA SharesType ==
  ASSUME NEW n \in Int, NEW ratios \in Seq(Int), ratios # <<>>, RatioTotal(ratios) # 0
  PROVE  /\ RatioTotal(ratios) \in Int
         /\ \A i \in DOMAIN ratios : Share(n, ratios, i) \in Int
         /\ Len(ratios) \in Nat /\ DOMAIN ratios = 1 .. Len(ratios) /\ 1 \in DOMAIN ratios
<1>1. Len(ratios) \in Nat /\ DOMAIN ratios = 1 .. Len(ratios) /\ 1 \in DOMAIN ratios
  OBVIOUS
<1>2. PICK k \in Nat : k = Len(ratios) BY <1>1
<1>3. \A i \in 1 .. k : ratios[i] \in Int BY <1>1, <1>2
<1>4. RatioTotal(ratios) = Wrap(SumFunctionOnSet(ratios, DOMAIN ratios))
  BY <1>1, <1>2, <1>3, MoneySum DEF RatioTotal
<1>5. SumFunctionOnSet(ratios, DOMAIN ratios) \in Int
  <2>1. IsFiniteSet(1 .. k) BY FS_Interval
  <2>2. QED BY <1>1, <1>2, <1>3, <2>1, SumType
<1>6. RatioTotal(ratios) \in Int BY <1>4, <1>5, WrapIsSame
<1>7. ASSUME NEW i \in DOMAIN ratios PROVE Share(n, ratios, i) \in Int
  <2>1. ratios[i] \in Int BY <1>1, <1>2, <1>3
  <2>2. Product(n, ratios[i]) \in Int BY <2>1, ProductType
  <2>3. ToDouble(RatioTotal(ratios)) \in Int /\ ToDouble(RatioTotal(ratios)) # 0
    BY <1>6, DoubleType
  <2>4. RoundedQuotient(Product(n, ratios[i]), ToDouble(RatioTotal(ratios))) \in Int
    BY <2>2, <2>3, QuotientType
  <2>5. QED BY <2>4, ToInt64Type DEF Share
<1>8. QED BY <1>1, <1>6, <1>7

\* The first share is the amount less the others, wrapped.
LEMMA FirstShare ==
  ASSUME NEW n \in Int, NEW ratios \in Seq(Int), ratios # <<>>, RatioTotal(ratios) # 0
  PROVE  /\ DOMAIN Allocated(n, ratios) = DOMAIN ratios
         /\ \A i \in DOMAIN ratios \ {1} : Allocated(n, ratios)[i] = Share(n, ratios, i)
         /\ Allocated(n, ratios)[1] =
              Wrap(n - SumFunctionOnSet(Shares(n, ratios), DOMAIN ratios \ {1}))
         /\ Sum(Allocated(n, ratios)) = Wrap(n)
<1> DEFINE D == DOMAIN ratios
           f == Shares(n, ratios)
           g == Allocated(n, ratios)
           rest == SumFunctionOnSet(f, D \ {1})
<1>1. PICK k \in Nat : D = 1 .. k /\ 1 \in D BY SharesType
<1>2. DOMAIN f = D /\ \A i \in D : f[i] = Share(n, ratios, i) BY DEF Shares
<1>3. \A i \in D : f[i] \in Int BY <1>2, SharesType
<1>4. /\ DOMAIN g = D /\ \A i \in D \ {1} : g[i] = f[i]
      /\ g[1] = Wrap(f[1] + Wrap(n - Sum(f)))
  BY <1>1, <1>2 DEF Allocated
<1> HIDE DEF f, g, D
<1>5. IsFiniteSet(D) /\ IsFiniteSet(D \ {1})
  <2>1. IsFiniteSet(1 .. k) BY FS_Interval
  <2>2. QED BY <1>1, <2>1, FS_Subset
<1>6. PICK s \in Int : s = SumFunctionOnSet(f, D) BY <1>3, <1>5, SumType
<1>7. rest \in Int BY <1>3, <1>5, SumType
<1>8. s = f[1] + rest
  <2> DEFINE E == D \ {1}
  <2>1. D = E \cup {1} /\ 1 \notin E BY <1>1
  <2> HIDE DEF E
  <2>2. SumFunctionOnSet(f, E \cup {1}) = f[1] + SumFunctionOnSet(f, E)
    <3>1. \A i \in E \cup {1} : f[i] \in Int BY <1>3, <2>1
    <3>2. IsFiniteSet(E) BY <1>5 DEF E
    <3>3. QED BY <2>1, <3>1, <3>2, SumAdd
  <2>3. QED BY <1>6, <2>1, <2>2 DEF E
<1> HIDE DEF rest
<1>9. PICK x \in Int : x = f[1] BY <1>1, <1>3
<1>10. Sum(f) = Wrap(s) BY <1>1, <1>2, <1>3, <1>6, MoneySum
<1>11. Wrap(s) \in Int /\ Same(s, Wrap(s)) BY WrapIsSame
<1>12. Same(n - Wrap(s), n - s)
  <2>1. PICK w \in Int : w = Wrap(s) BY <1>11
  <2>2. Same(n, n) /\ Same(w, s) BY <1>11, <2>1, SameIsEquivalence
  <2>3. Same(n - w, n - s) BY <2>2, SameSum
  <2>4. QED BY <2>1, <2>3
<1>13. /\ Wrap(n - Wrap(s)) \in Int
       /\ Same(n - Wrap(s), Wrap(n - Wrap(s)))
  <2>1. n - Wrap(s) \in Int BY <1>11
  <2>2. QED BY <2>1, WrapIsSame
<1>14. Same(Wrap(n - Wrap(s)), n - s)
  <2>1. n - Wrap(s) \in Int /\ n - s \in Int BY <1>11
  <2>2. QED BY <1>12, <1>13, <2>1, SameIsEquivalence
<1>15. Same(x + Wrap(n - Wrap(s)), x + (n - s))
  <2>1. PICK w \in Int : w = Wrap(n - Wrap(s)) BY <1>13
  <2>2. PICK d \in Int : d = n - s OBVIOUS
  <2>3. Same(x, x) BY SameIsEquivalence
  <2>4. Same(w, d) BY <1>14, <2>1, <2>2
  <2>5. Same(x + w, x + d) BY <2>3, <2>4, SameSum
  <2>6. QED BY <2>1, <2>2, <2>5
<1>16. g[1] = Wrap(n - rest)
  <2>1. x + (n - s) = n - rest BY <1>7, <1>8, <1>9
  <2>2. x + Wrap(n - Wrap(s)) \in Int /\ n - rest \in Int BY <1>7, <1>13
  <2>3. Wrap(x + Wrap(n - Wrap(s))) = Wrap(n - rest) BY <1>15, <2>1, <2>2, SameWraps
  <2>4. QED BY <1>4, <1>9, <1>10, <2>3
<1>17. Sum(g) = Wrap(n)
  <2>1. n - rest \in Int BY <1>7
  <2>2. g[1] \in Int /\ Same(n - rest, g[1]) BY <1>16, <2>1, WrapIsSame
  <2>3. \A i \in D : g[i] \in Int BY <1>3, <1>4, <2>2
  <2>4. Sum(g) = Wrap(SumFunctionOnSet(g, D)) BY <1>1, <1>4, <2>3, MoneySum
  <2>5. SumFunctionOnSet(g, D) = s + (g[1] - f[1])
    <3>1. \A i \in D : f[i] \in Int /\ g[i] \in Int BY <1>3, <2>3
    <3>2. \A i \in D \ {1} : f[i] = g[i] BY <1>4
    <3>3. IsFiniteSet(D) /\ 1 \in D BY <1>1, <1>5
    <3>4. SumFunctionOnSet(g, D) = SumFunctionOnSet(f, D) + (g[1] - f[1])
      BY <3>1, <3>2, <3>3, SumUpdate
    <3>5. QED BY <1>6, <3>4
  <2>6. SumFunctionOnSet(g, D) = rest + g[1]
    <3>1. PICK y \in Int, z \in Int : y = rest /\ z = g[1] BY <1>7, <2>2
    <3>2. (x + y) + (z - x) = y + z OBVIOUS
    <3>3. QED BY <1>8, <1>9, <2>5, <3>1, <3>2
  <2>7. Same(rest + (n - rest), rest + g[1])
    BY <1>7, <2>1, <2>2, SameSum, SameIsEquivalence
  <2>8. rest + (n - rest) = n /\ rest + g[1] \in Int BY <1>7, <2>2
  <2>9. QED BY <2>4, <2>6, <2>7, <2>8, SameWraps
<1>18. QED BY <1>2, <1>4, <1>16, <1>17 DEF f, g, D, rest

-----------------------------------------------------------------------------
\* The errors of rounded shares add up to at most half a unit for each.
LEMMA ErrorsAdd ==
  ASSUME NEW k \in Nat, NEW n \in Int, NEW t \in Int, NEW a \in Nat, NEW r, NEW s,
         \A i \in 2 .. k : /\ r[i] \in Int /\ s[i] \in Int
                           /\ 2 * (n * r[i] - s[i] * t) <= a
                           /\ 2 * (s[i] * t - n * r[i]) <= a,
         k > 0
  PROVE  /\ SumFunctionOnSet(r, 2 .. k) \in Int
         /\ SumFunctionOnSet(s, 2 .. k) \in Int
         /\ 2 * (n * SumFunctionOnSet(r, 2 .. k) - SumFunctionOnSet(s, 2 .. k) * t)
              <= (k - 1) * a
         /\ 2 * (SumFunctionOnSet(s, 2 .. k) * t - n * SumFunctionOnSet(r, 2 .. k))
              <= (k - 1) * a
<1> DEFINE R(i) == SumFunctionOnSet(r, 2 .. i)
           S(i) == SumFunctionOnSet(s, 2 .. i)
           Near(i) == /\ 2 * (n * R(i) - S(i) * t) <= (i - 1) * a
                      /\ 2 * (S(i) * t - n * R(i)) <= (i - 1) * a
           Good == {i \in 0 .. k : i = 0 \/ (R(i) \in Int /\ S(i) \in Int /\ Near(i))}
<1>1. 0 \in Good
  <2>1. 0 \in 0 .. k OBVIOUS
  <2> HIDE DEF R, S, Near
  <2>2. QED BY <2>1
<1>2. ASSUME NEW i \in 1 .. k, i - 1 \in Good PROVE i \in Good
  <2>1. CASE i = 1
    <3>1. 2 .. i = {} BY <2>1
    <3>2. R(i) = 0 /\ S(i) = 0 BY <3>1, SumEmpty
    <3>3. n * 0 = 0 /\ 0 * t = 0 /\ (1 - 1) * a = 0 OBVIOUS
    <3> HIDE DEF R, S
    <3>4. QED BY <2>1, <3>2, <3>3
  <2>2. CASE i # 1
    <3> DEFINE j == i - 1
    <3>1. 2 .. i = (2 .. j) \cup {i} /\ i \notin 2 .. j /\ i \in 2 .. k BY <2>2
    <3>0. \A x \in (2 .. j) \cup {i} : r[x] \in Int /\ s[x] \in Int
      <4>1. \A x \in (2 .. j) \cup {i} : x \in 2 .. k BY <3>1
      <4> HIDE DEF R, S, Near, Good, j
      <4>2. QED BY <4>1
    <3>2. R(j) \in Int /\ S(j) \in Int /\ Near(j) BY <1>2, <2>2
    <3>3. IsFiniteSet(2 .. j) BY FS_Interval
    <3>4. R(i) = r[i] + R(j)
      <4>1. \A x \in (2 .. j) \cup {i} : r[x] \in Int BY <3>0
      <4> HIDE DEF j
      <4>2. SumFunctionOnSet(r, (2 .. j) \cup {i}) = r[i] + SumFunctionOnSet(r, 2 .. j)
        BY <3>1, <3>3, <4>1, SumAdd
      <4>3. QED BY <3>1, <4>2
    <3>5. S(i) = s[i] + S(j)
      <4>1. \A x \in (2 .. j) \cup {i} : s[x] \in Int BY <3>0
      <4> HIDE DEF j
      <4>2. SumFunctionOnSet(s, (2 .. j) \cup {i}) = s[i] + SumFunctionOnSet(s, 2 .. j)
        BY <3>1, <3>3, <4>1, SumAdd
      <4>3. QED BY <3>1, <4>2
    <3> HIDE DEF R, S
    <3>6. PICK x \in Int, y \in Int : x = r[i] /\ y = s[i] BY <3>1
    <3>7. PICK u \in Int, v \in Int : u = R(j) /\ v = S(j) BY <3>2
    <3>8. PICK nx \in Int, nu \in Int, yt \in Int, vt \in Int :
            nx = n * x /\ nu = n * u /\ yt = y * t /\ vt = v * t
      OBVIOUS
    <3>9. PICK b \in Int : b = (j - 1) * a OBVIOUS
    <3>10. n * R(i) = nx + nu /\ S(i) * t = yt + vt /\ (i - 1) * a = b + a
      <4>1. n * (x + u) = nx + nu /\ (y + v) * t = yt + vt BY <3>8
      <4>2. R(i) = x + u /\ S(i) = y + v BY <3>4, <3>5, <3>6, <3>7
      <4>3. (i - 1) * a = (j - 1) * a + a OBVIOUS
      <4>4. QED BY <3>9, <4>1, <4>2, <4>3
    <3>11. 2 * (nx - yt) <= a /\ 2 * (yt - nx) <= a BY <3>1, <3>6, <3>8
    <3>12. 2 * (nu - vt) <= b /\ 2 * (vt - nu) <= b BY <3>2, <3>7, <3>8, <3>9
    <3>13. Near(i)
      <4>1. 2 * ((nx + nu) - (yt + vt)) <= b + a /\ 2 * ((yt + vt) - (nx + nu)) <= b + a
        BY <3>11, <3>12
      <4>2. QED BY <3>10, <4>1
    <3>14. R(i) \in Int /\ S(i) \in Int BY <3>4, <3>5, <3>6, <3>7
    <3> HIDE DEF Near
    <3>15. QED BY <3>13, <3>14
  <2>3. QED BY <2>1, <2>2
<1>3. k \in 0 .. k OBVIOUS
<1> HIDE DEF Good
<1>4. k \in Good BY <1>1, <1>2, <1>3, UpTo
<1> HIDE DEF R, S, Near
<1>5. R(k) \in Int /\ S(k) \in Int /\ Near(k) BY <1>4 DEF Good
<1>6. QED BY <1>5 DEF R, S, Near

\* A bound on a magnitude bounds both signs.
LEMMA MagnitudeBound ==
  ASSUME NEW x \in Int, NEW b \in Int
  PROVE  2 * Magnitude(x) <= b <=> 2 * x <= b /\ 2 * (0 - x) <= b
BY DEF Magnitude

\* What the first share may be off by leaves it below the significand.
LEMMA FirstFits ==
  ASSUME NEW q \in Int, NEW t \in Int, t # 0, NEW x \in Int, Precise(x),
         NEW k \in Nat, k > 0, k <= Significand,
         2 * Magnitude(q * t - x) <= (k - 1) * Magnitude(t)
  PROVE  Magnitude(q) < Int64Half
<1>1. PICK s \in Nat : s = Significand /\ s < Int64Half BY SignificandType
<1>2. PICK a \in Nat, b \in Nat, c \in Nat :
        a = Magnitude(q) /\ b = Magnitude(t) /\ c = Magnitude(x)
  BY DEF Magnitude
<1>3. b > 0 /\ 2 * c < s BY <1>1, <1>2 DEF Magnitude, Precise
<1>4. PICK y \in Int : y = q * t OBVIOUS
<1>5. Magnitude(y) = a * b
  <2>1. (q = a \/ q = 0 - a) /\ (t = b \/ t = 0 - b) BY <1>2 DEF Magnitude
  <2>2. y = a * b \/ y = 0 - a * b BY <1>4, <2>1
  <2>3. PICK z \in Nat : z = a * b OBVIOUS
  <2>4. QED BY <2>2, <2>3 DEF Magnitude
<1>6. Magnitude(y) <= Magnitude(y - x) + c BY <1>2 DEF Magnitude
<1>7. SUFFICES ASSUME a >= s PROVE FALSE
  BY <1>1, <1>2, SignificandType
<1>8. PICK m \in Nat : m = Magnitude(y - x)
  <2>1. PICK z \in Int : z = y - x OBVIOUS
  <2>2. Magnitude(z) \in Nat BY DEF Magnitude
  <2>3. QED BY <2>1, <2>2
<1>9. 2 * m <= (k - 1) * b BY <1>2, <1>4, <1>8
<1>10. (k - 1) * b <= (s - 1) * b
  <2>1. k - 1 <= s - 1 BY <1>1
  <2>2. QED BY <2>1
<1>11. s * b <= a * b BY <1>7
<1>12. (s - 1) * b = s * b - b OBVIOUS
<1>13. s * b >= s BY <1>3
<1>14. PICK ab \in Nat, sb \in Nat, kb \in Int : ab = a * b /\ sb = s * b /\ kb = (k - 1) * b
  OBVIOUS
<1>15. QED BY <1>3, <1>5, <1>6, <1>8, <1>9, <1>10, <1>11, <1>12, <1>13, <1>14

\* The shares of an allocation by ratios, where the doubles have a digit to spare.
LEMMA AllocatedIsNear ==
  ASSUME NEW n \in Int, NEW ratios \in Seq(Int), ratios # <<>>, RatioTotal(ratios) # 0,
         \A i \in DOMAIN ratios : Precise(n * ratios[i]),
         Magnitude(SumFunction(ratios)) <= Significand, Len(ratios) <= Significand
  PROVE  LET given == Allocated(n, ratios)
             total == SumFunction(ratios)
         IN  /\ \A i \in DOMAIN ratios \ {1} : IsNearest(given[i], n * ratios[i], total)
             /\ 2 * Magnitude(given[1] * total - n * ratios[1])
                  <= (Len(ratios) - 1) * Magnitude(total)
<1> DEFINE D == DOMAIN ratios
           g == Allocated(n, ratios)
           exact == [i \in D |-> Round(n * ratios[i], RatioTotal(ratios))]
<1>1. PICK k \in Nat : k = Len(ratios) /\ D = 1 .. k /\ 1 \in D BY SharesType
<1>2. \A i \in D : ratios[i] \in Int BY <1>1
<1>3. SumFunction(ratios) = SumFunctionOnSet(ratios, D) BY DEF SumFunction
<1>4. PICK t \in Int : t = SumFunctionOnSet(ratios, D)
  <2>1. IsFiniteSet(1 .. k) BY FS_Interval
  <2>2. QED BY <1>1, <1>2, <2>1, SumType
<1>5. RatioTotal(ratios) = t /\ t # 0 /\ ToDouble(t) = t
  <2>1. RatioTotal(ratios) = Wrap(t) BY <1>1, <1>2, <1>4, MoneySum DEF RatioTotal
  <2>2. t \in Int64 BY <1>3, <1>4, SignificandType DEF Magnitude, Int64
  <2>3. QED BY <1>3, <1>4, <2>1, <2>2, InRange, DoubleType
<1>6. PICK a \in Nat : a = Magnitude(t) BY DEF Magnitude
<1>7. ASSUME NEW i \in D
      PROVE  /\ exact[i] \in Int
             /\ Shares(n, ratios)[i] = exact[i] /\ Share(n, ratios, i) = exact[i]
             /\ IsNearest(exact[i], n * ratios[i], t)
             /\ 2 * Magnitude(exact[i] * t - n * ratios[i]) <= a
  <2>1. exact[i] = Round(n * ratios[i], t) BY <1>5
  <2>2. PICK x \in Int : x = n * ratios[i] /\ Precise(x) BY <1>2
  <2> HIDE DEF exact
  <2>3. Product(n, ratios[i]) = x BY <1>2, <2>2, ProductType
  <2>4. /\ ToInt64(RoundedQuotient(x, t)) = Round(x, t)
        /\ Round(x, t) \in Int /\ IsNearest(Round(x, t), x, t)
    BY <1>5, <2>2, PreciseResult
  <2>5. Share(n, ratios, i) = exact[i] BY <1>5, <2>1, <2>2, <2>3, <2>4 DEF Share
  <2>6. Shares(n, ratios)[i] = Share(n, ratios, i) BY DEF Shares
  <2>7. QED BY <1>6, <2>1, <2>2, <2>4, <2>5, <2>6 DEF IsNearest
<1>8. /\ \A i \in D \ {1} : g[i] = exact[i]
      /\ g[1] = Wrap(n - SumFunctionOnSet(Shares(n, ratios), D \ {1}))
  BY <1>7, FirstShare
<1> HIDE DEF g, exact, D
<1>9. D \ {1} = 2 .. k BY <1>1
<1>10. SumFunctionOnSet(Shares(n, ratios), 2 .. k) = SumFunctionOnSet(exact, 2 .. k)
  <2>1. IsFiniteSet(2 .. k) BY FS_Interval
  <2>2. \A i \in 2 .. k : Shares(n, ratios)[i] = exact[i] BY <1>7, <1>9
  <2>3. QED BY <2>1, <2>2, SumSame
<1>11. \A i \in 2 .. k : /\ ratios[i] \in Int /\ exact[i] \in Int
                         /\ 2 * (n * ratios[i] - exact[i] * t) <= a
                         /\ 2 * (exact[i] * t - n * ratios[i]) <= a
  <2>1. ASSUME NEW i \in 2 .. k
        PROVE  /\ ratios[i] \in Int /\ exact[i] \in Int
               /\ 2 * (n * ratios[i] - exact[i] * t) <= a
               /\ 2 * (exact[i] * t - n * ratios[i]) <= a
    <3>1. i \in D /\ ratios[i] \in Int /\ exact[i] \in Int BY <1>2, <1>7, <1>9
    <3>2. PICK x \in Int, y \in Int : x = exact[i] * t /\ y = n * ratios[i] BY <3>1
    <3>3. 2 * Magnitude(x - y) <= a BY <1>7, <3>1, <3>2
    <3>4. x - y \in Int OBVIOUS
    <3>5. 2 * (x - y) <= a /\ 2 * (0 - (x - y)) <= a BY <3>3, <3>4, MagnitudeBound
    <3>6. 2 * (y - x) <= a BY <3>5
    <3>7. QED BY <3>1, <3>2, <3>5, <3>6
  <2>2. QED BY <2>1
<1>12. PICK R \in Int, S \in Int :
         /\ R = SumFunctionOnSet(ratios, 2 .. k) /\ S = SumFunctionOnSet(exact, 2 .. k)
         /\ 2 * (n * R - S * t) <= (k - 1) * a
         /\ 2 * (S * t - n * R) <= (k - 1) * a
  <2>1. k > 0 BY <1>1
  <2>2. /\ SumFunctionOnSet(ratios, 2 .. k) \in Int
        /\ SumFunctionOnSet(exact, 2 .. k) \in Int
        /\ 2 * (n * SumFunctionOnSet(ratios, 2 .. k) - SumFunctionOnSet(exact, 2 .. k) * t)
             <= (k - 1) * a
        /\ 2 * (SumFunctionOnSet(exact, 2 .. k) * t - n * SumFunctionOnSet(ratios, 2 .. k))
             <= (k - 1) * a
    BY <1>11, <2>1, ErrorsAdd
  <2>3. QED BY <2>2
<1>13. t = ratios[1] + R
  <2>1. D = (2 .. k) \cup {1} /\ 1 \notin 2 .. k BY <1>1
  <2>2. IsFiniteSet(2 .. k) BY FS_Interval
  <2>3. SumFunctionOnSet(ratios, (2 .. k) \cup {1}) = ratios[1] + SumFunctionOnSet(ratios, 2 .. k)
    <3>1. \A i \in (2 .. k) \cup {1} : ratios[i] \in Int BY <1>2, <2>1
    <3>2. QED BY <2>1, <2>2, <3>1, SumAdd
  <2>4. QED BY <1>4, <1>12, <2>1, <2>3
<1>14. PICK x \in Int : x = n * ratios[1] /\ Precise(x)
  <2>1. ratios[1] \in Int /\ Precise(n * ratios[1]) BY <1>1, <1>2 DEF D
  <2>2. QED BY <2>1
<1>15. 2 * Magnitude((n - S) * t - x) <= (k - 1) * a
  <2>1. PICK r1 \in Int : r1 = ratios[1] /\ r1 = t - R BY <1>1, <1>2, <1>13
  <2>2. PICK nt \in Int, St \in Int, nR \in Int : nt = n * t /\ St = S * t /\ nR = n * R
    OBVIOUS
  <2>3. (n - S) * t = nt - St /\ n * (t - R) = nt - nR BY <2>2
  <2>4. PICK b \in Int : b = (k - 1) * a OBVIOUS
  <2>5. PICK z \in Int : z = nR - St OBVIOUS
  <2>6. (n - S) * t - x = z BY <1>14, <2>1, <2>3, <2>5
  <2>7. 2 * z <= b /\ 2 * (0 - z) <= b BY <1>12, <2>2, <2>4, <2>5
  <2>8. QED BY <2>4, <2>6, <2>7, MagnitudeBound
<1>16. g[1] = n - S
  <2>1. n - S \in Int /\ k > 0 /\ k <= Significand BY <1>1
  <2>2. Magnitude(n - S) < Int64Half
    BY <1>5, <1>6, <1>14, <1>15, <2>1, FirstFits
  <2>3. n - S \in Int64 BY <2>1, <2>2, SignificandType DEF Magnitude, Int64
  <2>4. QED BY <1>8, <1>9, <1>10, <1>12, <2>3, InRange
<1>17. 2 * Magnitude(g[1] * t - n * ratios[1]) <= (k - 1) * Magnitude(t)
  BY <1>6, <1>14, <1>15, <1>16
<1>18. \A i \in D \ {1} : IsNearest(g[i], n * ratios[i], t) BY <1>7, <1>8
<1>19. QED BY <1>1, <1>3, <1>4, <1>17, <1>18 DEF g, D

\* A call that has returned has returned what its function computes.
Answered ==
  \/ call = [name |-> "none"]
  \/ \E n \in Amounts :
       \/ \E parts \in Parts :
            /\ call = [name |-> "Allocate", amount |-> n, argument |-> parts]
            /\ result = Allocate(n, parts)
       \/ \E ratios \in Ratios :
            /\ call = [name |-> "AllocateByRatios", amount |-> n, argument |-> ratios]
            /\ result = AllocateByRatios(n, ratios)
       \/ \E divisor \in Divisors :
            /\ call = [name |-> "Divide", amount |-> n, argument |-> divisor]
            /\ result = Divide(n, divisor)
       \/ \E points \in BasisPoints :
            /\ call = [name |-> "Percentage", amount |-> n, argument |-> points]
            /\ result = Percentage(n, points)

\* A behaviour is one call, so this is inductive as it stands.
LEMMA AnsweredHolds == Calls => []Answered
<1>1. NoCall => Answered BY DEF NoCall, Answered
<1>2. Answered /\ [Call]_moneyVars => Answered'
  <2>1. CASE UNCHANGED moneyVars
    BY <2>1 DEF moneyVars, Answered
  <2>2. CASE Call
    BY <2>2 DEF Call, Returns, Answered
  <2>3. QED BY <2>1, <2>2
<1>3. QED BY <1>1, <1>2, PTL DEF Calls

\* An amount is an int64.
LEMMA AmountType ==
  ASSUME NEW n \in Amounts PROVE n \in Int64 /\ n \in Int
<1>1. n \in Int64 BY ArgumentsAssumption
<1>2. QED BY <1>1, InRange

\* AllocateByRatios: what it returns, unless nothing, adds up to the amount.
LEMMA RatiosAddUp ==
  ASSUME NEW n \in Amounts, NEW ratios \in Ratios,
         AllocateByRatios(n, ratios) # Nil
  PROVE  /\ ratios # <<>> /\ RatioTotal(ratios) # 0
         /\ AllocateByRatios(n, ratios) = Allocated(n, ratios)
         /\ Sum(AllocateByRatios(n, ratios)) = n
<1>1. ratios # <<>> /\ RatioTotal(ratios) # 0 BY DEF AllocateByRatios, RatioTotal
<1>2. ratios \in Seq(Int) BY ArgumentsAssumption
<1>3. AllocateByRatios(n, ratios) = Allocated(n, ratios)
  BY <1>1, AllocatedIsAllocation
<1>4. n \in Int /\ Wrap(n) = n BY AmountType, InRange
<1>5. QED BY <1>1, <1>2, <1>3, <1>4, FirstShare

\* What has returned, adds up and is near.
LEMMA AddUp ==
  ASSUME Answered PROVE AllocationsAddUp
<1>1. ASSUME call.name = "AllocateByRatios", result # Nil
      PROVE  Sum(result) = call.amount
  <2>1. PICK n \in Amounts, ratios \in Ratios :
          /\ call = [name |-> "AllocateByRatios", amount |-> n, argument |-> ratios]
          /\ result = AllocateByRatios(n, ratios)
    BY <1>1 DEF Answered
  <2>2. QED BY <1>1, <2>1, RatiosAddUp
<1>2. ASSUME call.name = "Allocate", call.amount >= 0, result # Nil
      PROVE  Sum(result) = call.amount
  <2>1. PICK n \in Amounts, parts \in Parts :
          /\ call = [name |-> "Allocate", amount |-> n, argument |-> parts]
          /\ result = Allocate(n, parts)
    BY <1>2 DEF Answered
  <2>2. n \in Int64 /\ parts \in Int BY AmountType, ArgumentsAssumption
  <2>3. parts > 0 BY <1>2, <2>1, <2>2 DEF Allocate
  <2>4. call.amount = n BY <2>1
  <2>5. parts \in Nat BY <2>2, <2>3
  <2>6. QED BY <1>2, <2>1, <2>2, <2>3, <2>4, <2>5, AllocateAddsUp
<1>3. QED BY <1>1, <1>2 DEF AllocationsAddUp

LEMMA SharesNear ==
  ASSUME Answered PROVE SharesAreNear
<1>1. SUFFICES ASSUME call.name = "AllocateByRatios", result # Nil,
                      \A i \in DOMAIN call.argument :
                        Precise(call.amount * call.argument[i]),
                      Magnitude(SumFunction(call.argument)) <= Significand,
                      Len(call.argument) <= Significand
               PROVE  LET ratios == call.argument
                          total == SumFunction(ratios)
                      IN  /\ \A i \in DOMAIN ratios \ {1} :
                               IsNearest(result[i], call.amount * ratios[i], total)
                          /\ 2 * Magnitude(result[1] * total - call.amount * ratios[1])
                               <= (Len(ratios) - 1) * Magnitude(total)
  BY DEF SharesAreNear
<1>2. PICK n \in Amounts, ratios \in Ratios :
        /\ call = [name |-> "AllocateByRatios", amount |-> n, argument |-> ratios]
        /\ result = AllocateByRatios(n, ratios)
  BY <1>1 DEF Answered
<1>3. ratios # <<>> /\ RatioTotal(ratios) # 0 /\ result = Allocated(n, ratios)
  BY <1>1, <1>2, RatiosAddUp
<1>4. n \in Int /\ ratios \in Seq(Int) BY AmountType, ArgumentsAssumption
<1>5. call.amount = n /\ call.argument = ratios BY <1>2
<1>6. QED BY <1>1, <1>3, <1>4, <1>5, AllocatedIsNear

LEMMA QuotientsNear ==
  ASSUME Answered PROVE QuotientsAreNearest
<1>1. ASSUME call.name = "Divide", result # Nil, Precise(call.amount),
             Magnitude(call.argument) <= Significand
      PROVE  /\ IsNearest(result[1], call.amount, call.argument)
             /\ result[1] = -Divide(-call.amount, call.argument)[1]
  <2>1. PICK n \in Amounts, d \in Divisors :
          /\ call = [name |-> "Divide", amount |-> n, argument |-> d]
          /\ result = Divide(n, d)
    BY <1>1 DEF Answered
  <2>2. n \in Int /\ d \in Int BY AmountType, ArgumentsAssumption
  <2>3. call.amount = n /\ call.argument = d BY <2>1
  <2>4. d # 0 BY <1>1, <2>1 DEF Divide
  <2>5. ToDouble(n) = n /\ ToDouble(d) = d /\ ToDouble(0 - n) = 0 - n
    <3>1. 0 - n \in Int BY <2>2
    <3>2. Magnitude(n) <= Significand /\ Magnitude(0 - n) <= Significand
      BY <1>1, <2>2, <2>3, SignificandType DEF Precise, Magnitude
    <3>3. QED BY <1>1, <2>2, <2>3, <3>1, <3>2, DoubleType
  <2>6. PICK q \in Int : /\ ToInt64(RoundedQuotient(n, d)) = q /\ IsNearest(q, n, d)
                         /\ ToInt64(RoundedQuotient(0 - n, d)) = 0 - q
    BY <1>1, <2>2, <2>3, <2>4, PreciseResult
  <2>7. result[1] = q BY <2>1, <2>4, <2>5, <2>6 DEF Divide
  <2>8. -n = 0 - n BY <2>2
  <2>9. Divide(-n, d)[1] = 0 - q BY <2>4, <2>5, <2>6, <2>8 DEF Divide
  <2>10. QED BY <2>3, <2>6, <2>7, <2>9
<1>2. ASSUME call.name = "Percentage", Precise(call.amount * call.argument)
      PROVE  /\ IsNearest(result[1], call.amount * call.argument, Whole)
             /\ result[1] = -Percentage(-call.amount, call.argument)[1]
  <2>1. PICK n \in Amounts, points \in BasisPoints :
          /\ call = [name |-> "Percentage", amount |-> n, argument |-> points]
          /\ result = Percentage(n, points)
    BY <1>2 DEF Answered
  <2>2. n \in Int /\ points \in Int BY AmountType, ArgumentsAssumption
  <2>3. call.amount = n /\ call.argument = points BY <2>1
  <2>4. PICK x \in Int : x = n * points /\ Precise(x) BY <1>2, <2>2, <2>3
  <2>5. (0 - n) * points = 0 - x /\ 0 - n \in Int BY <2>2, <2>4
  <2>6. Product(n, points) = x /\ Product(0 - n, points) = 0 - x
    <3>1. Precise(0 - x) BY <2>4 DEF Precise, Magnitude
    <3>2. QED BY <2>2, <2>4, <2>5, <3>1, ProductType
  <2>7. Whole \in Int /\ Whole # 0 BY SignificandType, DoubleAssumption
  <2>8. PICK q \in Int : /\ ToInt64(RoundedQuotient(x, Whole)) = q /\ IsNearest(q, x, Whole)
                         /\ ToInt64(RoundedQuotient(0 - x, Whole)) = 0 - q
    BY <2>4, <2>7, PreciseResult
  <2>9. result[1] = q BY <2>1, <2>6, <2>8 DEF Percentage
  <2>10. -n = 0 - n BY <2>2
  <2>11. Percentage(-n, points)[1] = 0 - q BY <2>6, <2>8, <2>10 DEF Percentage
  <2>12. QED BY <2>3, <2>4, <2>8, <2>9, <2>11
<1>3. QED BY <1>1, <1>2 DEF QuotientsAreNearest

\* The parts of an allocation add up to the amount: Allocate and AllocateByRatios
\* neither lose nor create money, whatever the ratios, the digits the doubles lose
\* and the overflows; Allocate of an amount that is not negative.
THEOREM AllocationsAlwaysAddUp == Calls => []AllocationsAddUp
<1>1. Answered => AllocationsAddUp BY AddUp
<1>2. QED BY <1>1, AnsweredHolds, PTL

\* What AllocateByRatios, Divide and Percentage return through doubles is the
\* nearest integer wherever amounts, and amounts times ratios or basis points,
\* stay below half the significand: they are rounded twice, and it does no harm.
THEOREM MoneyIsNearest == Calls => []ResultsAreNearest
<1>1. Answered => ResultsAreNearest
  BY SharesNear, QuotientsNear DEF ResultsAreNearest
<1>2. QED BY <1>1, AnsweredHolds, PTL
=============================================================================
