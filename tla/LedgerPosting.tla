---------------------------- MODULE LedgerPosting ----------------------------
(***************************************************************************)
(* Posting entries to the ledger: POST /entries from the HTTP handler down *)
(* to the rows of ledger_batches and ledger_entries.  A request is served  *)
(* by its own goroutine in four separate database operations: create the   *)
(* batch (one READ COMMITTED transaction), post it (one SERIALIZABLE       *)
(* transaction that computes the running balances), and read it back.      *)
(* Requests interleave, any database operation may fail, a commit may take *)
(* effect although its acknowledgement is lost, and the process may crash. *)
(*                                                                         *)
(* PostgreSQL is external.  A serializable transaction reads the committed *)
(* state its snapshot holds, plus its own writes.  Two concurrent postings *)
(* that share an account each read the rows the other updates (the balance *)
(* query reads every entry of the account, the only index being on         *)
(* account_id), so the database commits the first and refuses the other.   *)
(* It may also refuse a posting because of a concurrent one on other       *)
(* accounts: it tracks reads by page, or by table when it scans the table. *)
(* But it tracks serializable transactions only, and rows are inserted in  *)
(* a READ COMMITTED one.  Rows that appear while a posting is under way    *)
(* are not in its snapshot; the later update of them is sure to be noticed *)
(* only where the reads are tracked coarsely (LateRowsTracked).            *)
(***************************************************************************)
EXTENDS LedgerDomain

CONSTANTS
  Requests,       \* POST /entries requests; a request's batch bears its name
  Inputs,         \* the line lists a client may submit
  Readers,        \* clients of GET /batches/{id}
  MaxClock,       \* bound: the wall clock, in the microseconds the database keeps
  Faults,         \* may database operations fail and the process crash?
  ReasonNullable, \* reversal_reason TEXT has no default: NULL until reversed
  LateRowsTracked, \* does the database notice updates of rows a snapshot lacks?
  BlankUserKnown, \* does users hold the row '' that posted_by refers to?
  Null            \* SQL NULL

ASSUME SchemaAssumption == /\ Faults \in BOOLEAN
                           /\ ReasonNullable \in BOOLEAN
                           /\ BlankUserKnown \in BOOLEAN
                           /\ LateRowsTracked \in BOOLEAN
ASSUME ClockAssumption == MaxClock \in Nat
ASSUME NullAssumption == Null \notin Int
ASSUME InputsAssumption == Inputs \subseteq Seq(Line)

VARIABLES
  clock,    \* the wall clock of the service
  late,     \* history: <<q, r>> where r's rows appeared untracked while q was posting
  phase,    \* where the goroutine of a request is, then the client's answer
  request,  \* the lines of a request being served, <<>> when not needed
  since,    \* the clock when the request arrived
  batches,  \* ledger_batches: the status of each batch, or "absent"
  entries,  \* ledger_entries: the rows of each batch in sequence order
  snapshot, \* the batches a posting transaction sees as posted
  work,     \* the rows a posting transaction has updated so far
  journal,  \* history: batches in the order their postings committed
  reader    \* the progress and the result of each GET /batches/{id}

dbVars == <<batches, entries, journal>>
txVars == <<snapshot, work>>
envVars == <<clock, late>>
vars == <<envVars, phase, request, since, dbVars, txVars, reader>>

Row(line, stamp) ==
  [account |-> line.account, type |-> line.type, amount |-> line.amount,
   createdAt |-> stamp, balanceAfter |-> Null]

InFlight == {"received", "created", "posting", "posted"}
Answers == {"201", "400", "500", "lost"}
InTransaction(r) == phase[r] = "posting"

(***************************************************************************)
(* The running balance of an account is the balance_after of its entry     *)
(* with the latest created_at among those that have one, whatever batch or *)
(* sequence it belongs to.  Entries may share a created_at, and ORDER BY   *)
(* then leaves the choice to the database: the result is a set.            *)
(***************************************************************************)
Balanced(table, account) ==
  {e \in UNION {{<<r, i>> : i \in DOMAIN table[r]} : r \in Requests} :
     /\ table[e[1]][e[2]].account = account
     /\ table[e[1]][e[2]].balanceAfter # Null}

CurrentBalance(table, account) ==
  LET posted == Balanced(table, account)
      latest == {e \in posted : \A f \in posted :
                   table[f[1]][f[2]].createdAt <= table[e[1]][e[2]].createdAt}
  IN  IF posted = {} THEN {0}
      ELSE {table[e[1]][e[2]].balanceAfter : e \in latest}

\* What GET /accounts/{id}/balance may answer.
GetAccountBalance(account) == CurrentBalance(entries, account)

\* The table as the posting transaction of r reads it.
ViewWithoutOwnWrites(r) ==
  [q \in Requests |-> IF q \in snapshot[r] THEN entries[q] ELSE <<>>]
View(r) ==
  [q \in Requests |-> IF q = r THEN work[r]
                      ELSE IF q \in snapshot[r] THEN entries[q] ELSE <<>>]

Posted == {r \in Requests : batches[r] = "posted"}
AccountsOf(r) == {entries[r][i].account : i \in DOMAIN entries[r]}

\* A posting that committed after r's snapshot, shares an account with r, and
\* is known to the database to have missed r's update as r missed its.
ConflictIgnored(r) == FALSE
Conflict(r) ==
  \E q \in Posted \ snapshot[r] :
    /\ AccountsOf(q) \cap AccountsOf(r) # {}
    /\ <<q, r>> \notin late /\ <<r, q>> \notin late

\* Any posting that committed after r's snapshot: the database may object.
Concurrent(r) == Posted \ snapshot[r] # {}

-----------------------------------------------------------------------------
Init ==
  /\ clock = 0
  /\ late = {}
  /\ phase = [r \in Requests |-> "idle"]
  /\ request = [r \in Requests |-> <<>>]
  /\ since = [r \in Requests |-> 0]
  /\ batches = [r \in Requests |-> "absent"]
  /\ entries = [r \in Requests |-> <<>>]
  /\ snapshot = [r \in Requests |-> {}]
  /\ work = [r \in Requests |-> <<>>]
  /\ journal = <<>>
  /\ reader = [c \in Readers |-> [at |-> "idle"]]

Tick ==
  /\ clock < MaxClock
  /\ clock' = clock + 1
  /\ UNCHANGED <<late, phase, request, since, dbVars, txVars, reader>>

\* The tags the handler validates: at least two entries, each amount positive.
ValidInput(lines) ==
  /\ Len(lines) >= 2
  /\ \A i \in DOMAIN lines : lines[i].amount > 0

Receive(r) ==
  /\ phase[r] = "idle"
  /\ \E lines \in Inputs :
       IF ValidInput(lines)
       THEN /\ phase' = [phase EXCEPT ![r] = "received"]
            /\ request' = [request EXCEPT ![r] = lines]
            /\ since' = [since EXCEPT ![r] = clock]
       ELSE /\ phase' = [phase EXCEPT ![r] = "400"]
            /\ UNCHANGED <<request, since>>
  /\ UNCHANGED <<envVars, dbVars, txVars, reader>>

(***************************************************************************)
(* The first transaction.  The builder stamps each entry with time.Now()   *)
(* as it goes, so the stamps never decrease and lie between the arrival of *)
(* the request and now; foreign keys reject an account that does not exist *)
(* and take the whole batch with it.                                       *)
(***************************************************************************)
Stamps(r) ==
  {s \in [DOMAIN request[r] -> since[r] .. clock] :
     \A i, j \in DOMAIN s : i < j => s[i] <= s[j]}

Creatable(lines) ==
  /\ ~BuildFails(lines)
  /\ Validate(Build(lines))
  /\ \A i \in DOMAIN lines : lines[i].account \in Accounts

Forget(r) ==
  /\ request' = [request EXCEPT ![r] = <<>>]
  /\ since' = [since EXCEPT ![r] = 0]

CreateBatch(r) ==
  /\ phase[r] = "received"
  /\ Creatable(request[r])
  /\ \E stamp \in Stamps(r) :
       entries' = [entries EXCEPT ![r] =
                     [i \in DOMAIN request[r] |-> Row(request[r][i], stamp[i])]]
  /\ batches' = [batches EXCEPT ![r] = "pending"]
  /\ \E next \in {"created"} \cup (IF Faults THEN {"500"} ELSE {}) :
       phase' = [phase EXCEPT ![r] = next]
  /\ Forget(r)
  /\ late' = late \cup {<<q, r>> : q \in {q \in Requests :
                                            InTransaction(q) /\ ~LateRowsTracked}}
  /\ UNCHANGED <<clock, journal, txVars, reader>>

CreateBatchFails(r) ==
  /\ phase[r] = "received"
  /\ Faults \/ ~Creatable(request[r])
  /\ phase' = [phase EXCEPT ![r] = "500"]
  /\ Forget(r)
  /\ UNCHANGED <<envVars, dbVars, txVars, reader>>

(***************************************************************************)
(* The second transaction, PostBatch.  Its first statement takes the       *)
(* snapshot and locks the batch row, which must be pending; then each      *)
(* entry in sequence order gets the account's current balance plus its own *)
(* effect; then the batch becomes posted and the transaction commits.      *)
(***************************************************************************)
BeginPostWithStaleSnapshot(r) ==
  /\ phase[r] = "created"
  /\ ~ReasonNullable
  /\ phase' = [phase EXCEPT ![r] = "posting"]
  /\ UNCHANGED <<envVars, request, since, dbVars, txVars, reader>>
BeginPostMarkingFirst(r) ==
  /\ phase[r] = "created"
  /\ ~ReasonNullable
  /\ phase' = [phase EXCEPT ![r] = "posting"]
  /\ snapshot' = [snapshot EXCEPT ![r] = Posted]
  /\ batches' = [batches EXCEPT ![r] = "posted"]
  /\ UNCHANGED <<envVars, request, since, entries, journal, work, reader>>
BeginPost(r) ==
  /\ phase[r] = "created"
  /\ ~ReasonNullable
  /\ batches[r] = "pending"
  /\ phase' = [phase EXCEPT ![r] = "posting"]
  /\ snapshot' = [snapshot EXCEPT ![r] = Posted]
  /\ work' = [work EXCEPT ![r] = <<>>]
  /\ UNCHANGED <<envVars, request, since, dbVars, reader>>

PostedRow(row, current) == [row EXCEPT !.balanceAfter = Apply(current, row)]

PostEntry(r) ==
  LET i == Len(work[r]) + 1
      row == entries[r][i]
  IN  /\ InTransaction(r)
      /\ i \in DOMAIN entries[r]
      /\ \E current \in CurrentBalance(View(r), row.account) :
           work' = [work EXCEPT ![r] = Append(@, PostedRow(row, current))]
      /\ UNCHANGED <<envVars, phase, request, since, dbVars, snapshot, reader>>

EndTransaction(r) ==
  /\ snapshot' = [snapshot EXCEPT ![r] = {}]
  /\ work' = [work EXCEPT ![r] = <<>>]

\* UPDATE ledger_entries SET balance_after ... WHERE id: r's rows and no other.
UpdateByAccount(r) ==
  LET last == work[r][Len(work[r])]
      set(row) == IF row.account = last.account
                  THEN [row EXCEPT !.balanceAfter = last.balanceAfter] ELSE row
  IN  [q \in Requests |-> IF q = r THEN work[r]
                          ELSE [i \in DOMAIN entries[q] |-> set(entries[q][i])]]
UpdateRows(r) == [entries EXCEPT ![r] = work[r]]

CommitPost(r) ==
  /\ InTransaction(r)
  /\ Len(work[r]) = Len(entries[r])
  /\ BlankUserKnown
  /\ ~Conflict(r)
  /\ entries' = UpdateRows(r)
  /\ batches' = [batches EXCEPT ![r] = "posted"]
  /\ journal' = Append(journal, r)
  /\ \E next \in {"posted"} \cup (IF Faults THEN {"500"} ELSE {}) :
       phase' = [phase EXCEPT ![r] = next]
  /\ EndTransaction(r)
  /\ UNCHANGED <<envVars, request, since, reader>>

\* An error anywhere rolls back what the transaction wrote.
RollbackForgotten(r) ==
  /\ entries' = [entries EXCEPT ![r] =
                   work[r] \o SubSeq(@, Len(work[r]) + 1, Len(@))]
  /\ UNCHANGED <<batches, journal>>
Rollback(r) == UNCHANGED dbVars

\* PostEntries returns the error and the handler answers 500.  Nothing retries:
\* database.Retry has no caller.
ErrorIgnored == "posted"
RetriedInsideTransaction == "posting"
OnPostError == "500"

PostFails(r) ==
  /\ \/ /\ phase[r] = "created"
        /\ Faults \/ ReasonNullable \/ batches[r] # "pending"
     \/ /\ InTransaction(r)
        /\ \/ Faults
           \/ Concurrent(r)
           \/ Len(work[r]) = Len(entries[r]) /\ ~BlankUserKnown
  /\ phase' = [phase EXCEPT ![r] = OnPostError]
  /\ EndTransaction(r)
  /\ Rollback(r)
  /\ UNCHANGED <<envVars, request, since, reader>>

\* Reading the posted batch back for the answer.
Fetch(r) ==
  /\ phase[r] = "posted"
  /\ \/ ~ReasonNullable /\ phase' = [phase EXCEPT ![r] = "201"]
     \/ (Faults \/ ReasonNullable) /\ phase' = [phase EXCEPT ![r] = "500"]
  /\ UNCHANGED <<envVars, request, since, dbVars, txVars, reader>>

\* The process dies: open transactions roll back, its clients get no answer.
Crash ==
  /\ Faults
  /\ \E r \in Requests : phase[r] \in InFlight
  /\ phase' = [r \in Requests |->
                 IF phase[r] \in InFlight THEN "lost" ELSE phase[r]]
  /\ request' = [r \in Requests |-> <<>>]
  /\ since' = [r \in Requests |-> 0]
  /\ snapshot' = [r \in Requests |-> {}]
  /\ work' = [r \in Requests |-> <<>>]
  /\ reader' = [c \in Readers |-> [at |-> "idle"]]
  /\ UNCHANGED <<envVars, dbVars>>

-----------------------------------------------------------------------------
\* GET /batches/{id}: the batch row and its entries, in two statements that
\* share no transaction.
ReadBatch(c, r) ==
  /\ reader[c].at # "entries"
  /\ batches[r] # "absent"
  /\ ~ReasonNullable
  /\ reader' = [reader EXCEPT ![c] =
                  [at |-> "entries", batch |-> r, status |-> batches[r]]]
  /\ UNCHANGED <<envVars, phase, request, since, dbVars, txVars>>

\* scanEntries takes a result that breaks off for one that ends: rows.Err() is
\* never asked.
Prefixes(rows) == {SubSeq(rows, 1, n) : n \in 0 .. Len(rows)}
Scanned(rows) == IF Faults THEN Prefixes(rows) ELSE {rows}

ReadEntries(c) ==
  /\ reader[c].at = "entries"
  /\ \E rows \in Scanned(entries[reader[c].batch]) :
       reader' = [reader EXCEPT ![c] =
                    [at |-> "answered", batch |-> @.batch, status |-> @.status,
                     rows |-> rows]]
  /\ UNCHANGED <<envVars, phase, request, since, dbVars, txVars>>

ReadFails(c) ==
  /\ Faults
  /\ reader[c].at = "entries"
  /\ reader' = [reader EXCEPT ![c] = [at |-> "idle"]]
  /\ UNCHANGED <<envVars, phase, request, since, dbVars, txVars>>

-----------------------------------------------------------------------------
Serve(r) ==
  \/ CreateBatch(r) \/ CreateBatchFails(r)
  \/ BeginPost(r) \/ PostEntry(r) \/ CommitPost(r) \/ PostFails(r)
  \/ Fetch(r)

Next ==
  \/ Tick
  \/ Crash
  \/ \E r \in Requests : Receive(r) \/ Serve(r)
  \/ \E c \in Readers : \/ ReadEntries(c) \/ ReadFails(c)
                        \/ \E r \in Requests : ReadBatch(c, r)

Spec == Init /\ [][Next]_vars

\* A goroutine that can take a step is eventually scheduled; clients, crashes
\* and the clock owe nothing.
FairSpec == Spec /\ \A r \in Requests : WF_vars(Serve(r))

-----------------------------------------------------------------------------
(***************************************************************************)
(* Properties.                                                             *)
(***************************************************************************)
\* A row of ledger_entries.
RowType == [account : Accounts, type : EntryTypes, amount : Int64,
            createdAt : 0 .. MaxClock, balanceAfter : Int64 \cup {Null}]

ReaderType ==
  [at : {"idle"}]
  \cup [at : {"entries"}, batch : Requests, status : {"pending", "posted"}]
  \cup [at : {"answered"}, batch : Requests, status : {"pending", "posted"},
        rows : Seq(RowType)]

\* The variables have the types of their Go and SQL counterparts.
TypeOK ==
  /\ clock \in 0 .. MaxClock
  /\ late \subseteq Requests \X Requests
  /\ phase \in [Requests -> {"idle"} \cup InFlight \cup Answers]
  /\ request \in [Requests -> Seq(Line)]
  /\ since \in [Requests -> 0 .. MaxClock]
  /\ batches \in [Requests -> {"absent", "pending", "posted"}]
  /\ entries \in [Requests -> Seq(RowType)]
  /\ snapshot \in [Requests -> SUBSET Requests]
  /\ work \in [Requests -> Seq(RowType)]
  /\ journal \in Seq(Requests)
  /\ reader \in [Readers -> ReaderType]

\* Posting is all or nothing whatever fails on the way: a posted batch has a
\* running balance on every one of its entries, a pending one on none, and a
\* batch that was never created has no entries.
HasBalance(row) == row.balanceAfter # Null
PostedAllOrNothing ==
  \A r \in Requests :
    /\ batches[r] = "absent" <=> entries[r] = <<>>
    /\ \A i \in DOMAIN entries[r] :
         HasBalance(entries[r][i]) <=> batches[r] = "posted"

\* The answer tells the truth: 201 only for a batch that is durably posted,
\* 400 only when nothing was written.
AnswerIsTruth ==
  \A r \in Requests :
    /\ phase[r] = "201" => batches[r] = "posted"
    /\ phase[r] = "400" => batches[r] = "absent"

\* GET /batches/{id} never shows an entry of a posted batch without or with an
\* outdated balance, although it reads the batch and its entries separately.
ReadIsConsistent ==
  \A c \in Readers :
    reader[c].at = "answered" /\ reader[c].status = "posted" =>
      /\ \A i \in DOMAIN reader[c].rows : HasBalance(reader[c].rows[i])
      /\ reader[c].rows \in Prefixes(entries[reader[c].batch])

\* The ledger is append-only: a row that exists keeps its account, side,
\* amount and time, and nothing of a posted batch ever changes.
SameLine(row, old) == [row EXCEPT !.balanceAfter = old.balanceAfter] = old
LedgerAppendOnly ==
  [][\A r \in Requests :
       /\ batches[r] # "absent" =>
            /\ DOMAIN entries'[r] = DOMAIN entries[r]
            /\ \A i \in DOMAIN entries[r] : SameLine(entries'[r][i], entries[r][i])
       /\ batches[r] = "posted" =>
            batches'[r] = "posted" /\ entries'[r] = entries[r]]_vars

\* Where a goroutine is determines the row of its batch, except once it failed.
PhaseMatchesBatch ==
  \A r \in Requests :
    /\ phase[r] \in {"idle", "received", "400"} => batches[r] = "absent"
    /\ phase[r] \in {"created", "posting"} => batches[r] = "pending"
    /\ phase[r] \in {"posted", "201"} => batches[r] = "posted"

\* A posting transaction holds the updated rows of a first part of its batch,
\* each with the balance it read plus its own effect, and sees posted batches.
WorkIsLegal(r) ==
  /\ Len(work[r]) <= Len(entries[r])
  /\ \A i \in 1 .. Len(work[r]) :
       \E current \in CurrentBalance([View(r) EXCEPT ![r] = SubSeq(work[r], 1, i - 1)],
                                     entries[r][i].account) :
         work[r][i] = PostedRow(entries[r][i], current)
TransactionInv ==
  \A r \in Requests :
    IF InTransaction(r) THEN snapshot[r] \subseteq Posted /\ WorkIsLegal(r)
                        ELSE snapshot[r] = {} /\ work[r] = <<>>

\* What a reader has seen of a posted batch stays true.
ReaderInv ==
  \A c \in Readers :
    reader[c].at # "idle" /\ reader[c].status = "posted" =>
      /\ batches[reader[c].batch] = "posted"
      /\ reader[c].at = "answered" =>
           reader[c].rows \in Prefixes(entries[reader[c].batch])

\* The inductive invariant the proofs use: the parts above and all-or-nothing
\* posting.
IInv == PostedAllOrNothing /\ PhaseMatchesBatch /\ TransactionInv /\ ReaderInv

(***************************************************************************)
(* The serial ledger of SerialPosting, on the same three variables: however *)
(* the postings interleave, fail and crash, each batch appears pending in  *)
(* one step and posted, with balances legal at that moment, in another.    *)
(***************************************************************************)
Serial == INSTANCE SerialPosting
            WITH batches <- batches, entries <- entries, journal <- journal
ImplementsSerialPosting == Serial!Spec

(***************************************************************************)
(* Balances.  Entries are compared by the order their postings committed   *)
(* in, the sequence deciding within a batch.                               *)
(***************************************************************************)
Place(r) == CHOOSE n \in DOMAIN journal : journal[n] = r
PostedBefore(e, f) ==
  \/ Place(e[1]) < Place(f[1])
  \/ e[1] = f[1] /\ e[2] < f[2]

\* The entries of the account carry distinct times, in the order of posting.
PostedInOrder(account) ==
  \A e, f \in Balanced(entries, account) :
    PostedBefore(e, f) =>
      entries[e[1]][e[2]].createdAt < entries[f[1]][f[2]].createdAt

PostedSum(account) ==
  CalculateBalance(account,
    {<<e, entries[e[1]][e[2]]>> : e \in Balanced(entries, account)})

\* No update is lost: as long as an account's entries were posted in the order
\* of their creation, its balance is the sum of everything posted to it, however
\* the posting transactions interleaved.  Without LateRowsTracked updates are
\* lost, and balance_after is not the "running balance (updated on post)".
InOrderBalanceIsSum ==
  \A account \in Accounts :
    PostedInOrder(account) => GetAccountBalance(account) = {PostedSum(account)}

\* The accounting equation over the balances the API reports: debit-normal and
\* credit-normal accounts carry the same total.
AccountingEquation ==
  LET balance == [account \in Accounts |->
                    CHOOSE b \in GetAccountBalance(account) : TRUE]
      total(accounts) == SumFunctionOnSet(balance, accounts)
  IN  (\A account \in Accounts : PostedInOrder(account)) =>
        Wrap(total(DebitNormal)) = Wrap(total(Accounts \ DebitNormal))

\* Every request that reaches the service is answered, unless a crash takes it.
EveryRequestAnswered ==
  \A r \in Requests : phase[r] = "received" ~> phase[r] \in Answers

\* PostEntries "creates and posts a balanced set of ledger entries": without
\* faults, a request the service can create is eventually posted, or else some
\* other posting has committed in the meantime.
CreatedIsPosted ==
  \A r \in Requests, n \in 0 .. Cardinality(Requests) :
    (phase[r] = "received" /\ Creatable(request[r]) /\ Len(journal) = n) ~>
      (batches[r] = "posted" \/ Len(journal) > n)
=============================================================================
