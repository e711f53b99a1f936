----------------------------- MODULE SEPAReports -----------------------------
(***************************************************************************)
(* The SEPA provider with its report files.  An ingestion claims a file by *)
(* the hash of its content, parses it, applies it line by line, each line  *)
(* an update of a payment's row and, for a final status, an event, and     *)
(* then notes how many lines it applied.  Nothing of this is one           *)
(* transaction.  Files may be ingested again and at the same time, by      *)
(* polling or as a stream, statements and publications may fail and the    *)
(* process may die between any two steps.                                  *)
(*                                                                         *)
(* What a file says is decided by the bank: a file appears once the bank   *)
(* has told of its payments what it says of them.  A file also has lines   *)
(* of payments that are not ours.                                          *)
(***************************************************************************)
EXTENDS SEPAPayments

CONSTANTS
  Files,       \* report files, by content
  Content,     \* their type, the types their text mentions, their lines
  Foreign,     \* a payment of somebody else
  Ingesters,   \* bound: ingestions under way at one time
  MaxCrashes   \* bound: how often the process dies

Pain002 == [payment : Payments \cup {Foreign}, code : {"PDNG", "ACCP", "ACSC", "RJCT"}]
Camt053 == [payment : Payments \cup {Foreign}, sts : {"BOOK", "PDNG"}, ind : {"DBIT", "CRDT"}]
ReportTypes == {"pain.002", "camt.053", "camt.054", "unknown"}

ASSUME ContentAssumption ==
  \A f \in Files :
    /\ Content[f].type \in ReportTypes
    /\ Content[f].mentions \subseteq ReportTypes
    /\ Content[f].readable \in BOOLEAN
    /\ Content[f].lines \in
         Seq(IF Content[f].type = "pain.002" THEN Pain002 ELSE Camt053)
ASSUME ForeignAssumption == Foreign \notin Payments
ASSUME NullAssumption ==
  Null \notin [status : {"PENDING", "PROCESSED", "FAILED"}, updated : Nat]
ASSUME CrashAssumption == MaxCrashes \in Nat

VARIABLES
  issued,    \* external: the files the bank has issued
  reports,   \* sepa_reports: the row of each file, or Null
  ingest,    \* the progress of each ingestion
  applied,   \* lines whose update was stored, with how often
  announced, \* provider.settlement events that reached the broker
  refused,   \* files that were refused as already processed
  crashes

repVars == <<issued, reports, ingest, applied, announced, refused, crashes>>
vars == <<payVars, repVars>>

Lines(f) == DOMAIN Content[f].lines
Init ==
  /\ PayInit
  /\ issued = {}
  /\ reports = [f \in Files |-> Null]
  /\ ingest = [i \in Ingesters |-> [at |-> "idle"]]
  /\ applied = [f \in Files |-> [k \in Lines(f) |-> 0]]
  /\ announced = {}
  /\ refused = {}
  /\ crashes = 0

-----------------------------------------------------------------------------
(***************************************************************************)
(* Parsing.                                                                *)
(***************************************************************************)
MapPain002Status(code) ==
  CASE code \in {"ACCP", "ACSC"} -> "ACCEPTED"
    [] code = "RJCT" -> "REJECTED"
    [] OTHER -> "SUBMITTED"

\* Of a statement only booked debits count.
LineStatus(type, line) ==
  IF type = "pain.002" THEN MapPain002Status(line.code)
  ELSE IF line.sts = "BOOK" /\ line.ind = "DBIT" THEN "SETTLED" ELSE "skipped"

\* The type is the first whose name occurs anywhere in the text.
DetectReportType(f) ==
  LET mentions(t) == t \in Content[f].mentions
  IN  IF mentions("pain.002") THEN "pain.002"
      ELSE IF mentions("camt.053") THEN "camt.053"
      ELSE IF mentions("camt.054") THEN "camt.054" ELSE "unknown"

\* The lines that become updates.  Both documents have the same root, so a file
\* taken for the other type parses to nothing.
ParsedLines(f, type) ==
  IF type # Content[f].type THEN {}
  ELSE {k \in Lines(f) : LineStatus(type, Content[f].lines[k]) # "skipped"}
Parses(f, type) == type \in {"pain.002", "camt.053"} /\ Content[f].readable

-----------------------------------------------------------------------------
(***************************************************************************)
(* IngestFile, which detects the type, and IngestFromReader, which is told *)
(* it.                                                                     *)
(***************************************************************************)
\* ON CONFLICT (file_hash) DO NOTHING
NeverClaimed(f) == FALSE
Claimed(f) == reports[f] # Null

Parsed(i, f, type) ==
  ingest' = [ingest EXCEPT ![i] =
    IF Parses(f, type)
    THEN [at |-> "applying", file |-> f, todo |-> ParsedLines(f, type), count |-> 0]
    ELSE [at |-> "failing", file |-> f]]

Claim(i, f, type) ==
  /\ ingest[i].at = "idle"
  /\ f \in issued
  /\ ~Claimed(f)
  /\ reports' = [reports EXCEPT ![f] = [status |-> "PENDING", updated |-> 0]]
  /\ Parsed(i, f, type) \/ (Faults /\ UNCHANGED ingest)
  /\ UNCHANGED <<payVars, issued, applied, announced, refused, crashes>>

Refuse(i, f) ==
  /\ ingest[i].at = "idle"
  /\ f \in issued
  /\ Claimed(f)
  /\ refused' = refused \cup {f}
  /\ UNCHANGED <<payVars, issued, reports, ingest, applied, announced, crashes>>

IngestFile(i, f) == Claim(i, f, DetectReportType(f))
IngestFromReader(i, f) == \E type \in ReportTypes : Claim(i, f, type)

\* Lines are applied in their order.
NextLine(i) == CHOOSE k \in ingest[i].todo : \A j \in ingest[i].todo : k <= j
LineCounted(i, k, by) ==
  ingest' = [ingest EXCEPT ![i].at = "applying", ![i].todo = @ \ {k}, ![i].count = @ + 1]
LineDone(i, k, by) ==
  ingest' = [ingest EXCEPT ![i].at = "applying", ![i].todo = @ \ {k}, ![i].count = @ + by]

\* UpdateFromReport takes no other status than these, and a row must exist.
Updatable(p, s) == s \in {"ACCEPTED", "SETTLED", "REJECTED"} /\ p # Foreign /\ row[p] # NotFound
Terminal(s) == s \in {"SETTLED", "REJECTED"}

Line(i) == Content[ingest[i].file].lines[NextLine(i)]
StatusOf(i) == LineStatus(Content[ingest[i].file].type, Line(i))

StoreLine(i) ==
  LET f == ingest[i].file
      k == NextLine(i)
  IN  /\ row' = UpdateStatus(Line(i).payment, StatusOf(i))
      /\ applied' = [applied EXCEPT ![f][k] = @ + 1]

\* An update that fails is passed over with a warning.
ApplyLine(i) ==
  /\ ingest[i].at = "applying"
  /\ ingest[i].todo # {}
  /\ \/ /\ Updatable(Line(i).payment, StatusOf(i))
        /\ StoreLine(i)
        /\ IF Terminal(StatusOf(i)) THEN ingest' = [ingest EXCEPT ![i].at = "publishing"]
           ELSE LineDone(i, NextLine(i), 1)
     \/ /\ Updatable(Line(i).payment, StatusOf(i)) => Faults
        /\ LineDone(i, NextLine(i), 0)
        /\ \/ UNCHANGED <<row, applied>>
           \/ Updatable(Line(i).payment, StatusOf(i)) /\ StoreLine(i)
  /\ UNCHANGED <<procVars, bank, said, reversed, issued, reports, announced, refused, crashes>>

\* The error of a publication is logged.
PublishLine(i) ==
  /\ ingest[i].at = "publishing"
  /\ announced' \in {announced \cup {<<Line(i).payment, StatusOf(i)>>}}
                    \cup (IF Faults THEN {announced} ELSE {})
  /\ LineDone(i, NextLine(i), 1)
  /\ UNCHANGED <<payVars, issued, reports, applied, refused, crashes>>

CloseReport(i, status, updated) ==
  /\ LET f == ingest[i].file
         closed == [reports EXCEPT ![f] = [status |-> status, updated |-> updated]]
     IN  reports' \in {closed} \cup (IF Faults THEN {reports} ELSE {})
  /\ ingest' = [ingest EXCEPT ![i] = [at |-> "idle"]]
  /\ UNCHANGED <<payVars, issued, applied, announced, refused, crashes>>

MarkProcessed(i) ==
  /\ ingest[i].at = "applying"
  /\ ingest[i].todo = {}
  /\ CloseReport(i, "PROCESSED", ingest[i].count)

MarkFailed(i) ==
  /\ ingest[i].at = "failing"
  /\ CloseReport(i, "FAILED", 0)

-----------------------------------------------------------------------------
\* The bank issues a file when it stands by all the file says of our payments.
Issue(f) ==
  /\ f \notin issued
  /\ \A k \in ParsedLines(f, Content[f].type) :
       LET line == Content[f].lines[k]
       IN  line.payment \in Payments =>
             LineStatus(Content[f].type, line) \in said[line.payment]
  /\ issued' = issued \cup {f}
  /\ UNCHANGED <<payVars, reports, ingest, applied, announced, refused, crashes>>

Crash ==
  /\ crashes < MaxCrashes
  /\ crashes' = crashes + 1
  /\ PayCrash
  /\ ingest' = [i \in Ingesters |-> [at |-> "idle"]]
  /\ UNCHANGED <<issued, reports, applied, announced, refused>>

Ingest(i) ==
  \/ \E f \in Files : IngestFile(i, f) \/ IngestFromReader(i, f) \/ Refuse(i, f)
  \/ ApplyLine(i) \/ PublishLine(i) \/ MarkProcessed(i) \/ MarkFailed(i)

Next ==
  \/ PayNext /\ UNCHANGED repVars
  \/ \E f \in Files : Issue(f)
  \/ \E i \in Ingesters : Ingest(i)
  \/ Crash

Spec == Init /\ [][Next]_vars

-----------------------------------------------------------------------------
(***************************************************************************)
(* Properties.                                                             *)
(***************************************************************************)
\* The variables have the types of their Go and SQL counterparts.
TypeOK ==
  /\ PayTypeOK
  /\ issued \subseteq Files
  /\ reports \in [Files ->
       [status : {"PENDING", "PROCESSED", "FAILED"}, updated : Nat] \cup {Null}]
  /\ ingest \in [Ingesters ->
       [at : {"idle"}] \cup [at : {"failing"}, file : Files]
       \cup [at : {"applying", "publishing"}, file : Files, todo : SUBSET Nat, count : Nat]]
  /\ DOMAIN applied = Files
  /\ \A f \in Files : applied[f] \in [Lines(f) -> Nat]
  /\ announced \subseteq Payments \X SEPAStatus
  /\ refused \subseteq Files
  /\ crashes \in 0 .. MaxCrashes

\* However often and however concurrently a file is ingested, each of its lines
\* is stored at most once: the hash is claimed before the first line and stays
\* claimed after a crash.
AppliedOnce ==
  \A f \in Files : \A k \in Lines(f) : applied[f][k] <= 1

\* A processed report does not count a line that was not stored.
Stored(f) == {k \in Lines(f) : applied[f][k] > 0}
CountIsTrue ==
  \A f \in Files :
    reports[f] # Null => reports[f].updated <= Cardinality(Stored(f))

\* The provider keeps the promise of BankTransfers, whatever the order in which
\* files, answers, recalls and returns reach the row.
Transfers == INSTANCE BankTransfers
               WITH Statuses <- SEPAStatus, Failure <- "REJECTED",
                    Final <- {"SETTLED", "REJECTED"},
                    status <- row,
                    givenUp <- {p \in Payments : submit[p].at = "gaveUp"}
ImplementsBankTransfers == Transfers!Spec
=============================================================================
