---------------------------- MODULE LedgerAccounts ----------------------------
(***************************************************************************)
(* The chart of accounts: POST /accounts and POST /init-system-accounts    *)
(* down to the rows of ledger_accounts.  Creating an account reads its     *)
(* parent in one statement and inserts the row in another; initialising a  *)
(* tenant inserts the system accounts one statement at a time, with no     *)
(* transaction around the loop.  Requests interleave, statements may fail, *)
(* and the process may crash anywhere.  Rows are never updated or deleted. *)
(* PostgreSQL is external: a statement is atomic and UNIQUE(tenant_id,     *)
(* code) refuses a second row.                                             *)
(***************************************************************************)
EXTENDS Integers, SequencesExt

CONSTANTS
  Tenants, Currencies,
  Pieces,       \* strings without a slash
  Codes,        \* account codes a client may name
  SystemCodes,  \* the codes of SystemAccounts(), in their order
  Creators,     \* POST /accounts requests; a request's account bears its name
  Initializers, \* POST /init-system-accounts requests
  NoParent,     \* no parent_id
  Ghost,        \* an account id no row has
  Faults        \* may statements fail and the process crash?

\* A code is any string: as a path is split at its slashes, so is a code.
ASSUME CodesAssumption == Codes \subseteq Seq(Pieces) \ {<<>>}
ASSUME SystemCodesAssumption ==
  /\ SystemCodes \in Seq(Codes)
  /\ \A i, j \in DOMAIN SystemCodes : SystemCodes[i] = SystemCodes[j] => i = j
ASSUME FaultsAssumption == Faults \in BOOLEAN

VARIABLES
  accounts, \* ledger_accounts: a set of rows
  creator,  \* the progress of each POST /accounts, then its answer
  init      \* the progress of each POST /init-system-accounts, then its answer

vars == <<accounts, creator, init>>

\* ULIDs: fresh for every account created.
CreatorId(c) == <<c, 0>>
SystemId(i, k) == <<i, k>>
Ids == {CreatorId(c) : c \in Creators}
       \cup {SystemId(i, k) : i \in Initializers, k \in DOMAIN SystemCodes}

ASSUME NoParentAssumption == NoParent \notin Ids

Answers == {"200", "201", "409", "500", "lost"}
Fail == "500"

Init ==
  /\ accounts = {}
  /\ creator = [c \in Creators |-> [at |-> "idle"]]
  /\ init = [i \in Initializers |-> [at |-> "idle"]]

(***************************************************************************)
(* The row of a new account, and the effect of SetParent on it.  A path is *)
(* the string of the codes from the root on, joined with slashes; nothing  *)
(* keeps slashes out of a code, so the same path can be joined in several  *)
(* ways.  A string is the sequence of the pieces between its slashes.      *)
(***************************************************************************)
NewAccountWithBlankParent(id, tenant, code, currency) ==
  [id |-> id, tenant |-> tenant, code |-> code, currency |-> currency,
   parent |-> Ghost, path |-> code]
NewAccount(id, tenant, code, currency) ==
  [id |-> id, tenant |-> tenant, code |-> code, currency |-> currency,
   parent |-> NoParent, path |-> code]

ParentCodeOnly(account, parent) ==
  [account EXCEPT !.parent = parent.id, !.path = parent.code \o account.code]
SetParent(account, parent) ==
  [account EXCEPT !.parent = parent.id, !.path = parent.path \o account.code]

AnyParent(account, parent) == TRUE
CanBeParent(account, parent) ==
  parent.tenant = account.tenant /\ parent.currency = account.currency

\* The row GetAccount finds: the id within the tenant.
GetAccount(tenant, id) == {a \in accounts : a.tenant = tenant /\ a.id = id}

(***************************************************************************)
(* The UNIQUE constraint, and what becomes of its error on the way up: the *)
(* store replaces the driver's error by its own, so that the callers' test *)
(* for a driver error with code 23505 no longer recognises it.             *)
(***************************************************************************)
NeverTaken(account) == FALSE
Taken(account) ==
  \E a \in accounts : a.tenant = account.tenant /\ a.code = account.code

DuplicateError == "ErrAlreadyExists"
IsUniqueViolation(error) == error = "23505"

CreateFailed(error) == IF IsUniqueViolation(error) THEN "409" ELSE Fail

-----------------------------------------------------------------------------
\* A valid POST /accounts arrives.
Receive(c) ==
  /\ creator[c].at = "idle"
  /\ \E tenant \in Tenants, code \in Codes, currency \in Currencies,
        parent \in {a.id : a \in accounts} \cup {NoParent, Ghost} :
       creator' = [creator EXCEPT ![c] =
         [at |-> IF parent = NoParent THEN "inserting" ELSE "received",
          parent |-> parent,
          account |-> NewAccount(CreatorId(c), tenant, code, currency)]]
  /\ UNCHANGED <<accounts, init>>

\* The parent is read and the path derived from it, before the insert.
FindParent(c) ==
  /\ creator[c].at = "received"
  /\ \E parent \in GetAccount(creator[c].account.tenant, creator[c].parent) :
       /\ CanBeParent(creator[c].account, parent)
       /\ creator' = [creator EXCEPT ![c].at = "inserting",
                                     ![c].account = SetParent(@, parent)]
  /\ UNCHANGED <<accounts, init>>

FindParentFails(c) ==
  /\ creator[c].at = "received"
  /\ \/ Faults
     \/ \A parent \in GetAccount(creator[c].account.tenant, creator[c].parent) :
          ~CanBeParent(creator[c].account, parent)
  /\ creator' = [creator EXCEPT ![c] = [at |-> Fail]]
  /\ UNCHANGED <<accounts, init>>

Insert(c) ==
  /\ creator[c].at = "inserting"
  /\ ~Taken(creator[c].account)
  /\ accounts' = accounts \cup {creator[c].account}
  /\ \E answer \in {"201"} \cup (IF Faults THEN {Fail} ELSE {}) :
       creator' = [creator EXCEPT ![c] = [at |-> answer]]
  /\ UNCHANGED init

InsertFails(c) ==
  /\ creator[c].at = "inserting"
  /\ \/ Faults /\ creator' = [creator EXCEPT ![c] = [at |-> Fail]]
     \/ /\ Taken(creator[c].account)
        /\ creator' = [creator EXCEPT ![c] = [at |-> CreateFailed(DuplicateError)]]
  /\ UNCHANGED <<accounts, init>>

-----------------------------------------------------------------------------
\* POST /init-system-accounts: next is the index of the account to create.
ReceiveInit(i) ==
  /\ init[i].at = "idle"
  /\ \E tenant \in Tenants, currency \in Currencies :
       init' = [init EXCEPT ![i] = [at |-> "looping", tenant |-> tenant,
                                    currency |-> currency, next |-> 1]]
  /\ UNCHANGED <<accounts, creator>>

SystemAccount(i) ==
  NewAccount(SystemId(i, init[i].next), init[i].tenant,
             SystemCodes[init[i].next], init[i].currency)
Looping(i) == init[i].at = "looping" /\ init[i].next \in DOMAIN SystemCodes

InsertSystem(i) ==
  /\ Looping(i)
  /\ ~Taken(SystemAccount(i))
  /\ accounts' = accounts \cup {SystemAccount(i)}
  /\ \/ init' = [init EXCEPT ![i].next = @ + 1]
     \/ Faults /\ init' = [init EXCEPT ![i] = [at |-> Fail]]
  /\ UNCHANGED creator

\* "Skip if already exists" continues the loop, any other error ends it.
SkipAnyError(error) == TRUE
Skipped(error) == IsUniqueViolation(error)

InsertSystemFails(i) ==
  /\ Looping(i)
  /\ \E error \in (IF Taken(SystemAccount(i)) THEN {DuplicateError} ELSE {})
                  \cup (IF Faults THEN {"unavailable"} ELSE {}) :
       init' = IF Skipped(error) THEN [init EXCEPT ![i].next = @ + 1]
                                 ELSE [init EXCEPT ![i] = [at |-> Fail]]
  /\ UNCHANGED <<accounts, creator>>

Initialized(i) ==
  /\ init[i].at = "looping"
  /\ init[i].next \notin DOMAIN SystemCodes
  /\ init' = [init EXCEPT ![i] = [at |-> "200", tenant |-> @.tenant]]
  /\ UNCHANGED <<accounts, creator>>

-----------------------------------------------------------------------------
\* The process dies; what was inserted stays.
InFlight == {"received", "inserting", "looping"}
Lost(request) == IF request.at \in InFlight THEN [at |-> "lost"] ELSE request
Crash ==
  /\ Faults
  /\ creator' = [c \in Creators |-> Lost(creator[c])]
  /\ init' = [i \in Initializers |-> Lost(init[i])]
  /\ UNCHANGED accounts

Next ==
  \/ \E c \in Creators : \/ Receive(c) \/ FindParent(c) \/ FindParentFails(c)
                         \/ Insert(c) \/ InsertFails(c)
  \/ \E i \in Initializers : \/ ReceiveInit(i) \/ InsertSystem(i)
                             \/ InsertSystemFails(i) \/ Initialized(i)
  \/ Crash

Spec == Init /\ [][Next]_vars

-----------------------------------------------------------------------------
(***************************************************************************)
(* Properties.                                                             *)
(***************************************************************************)
Account ==
  [id : Ids, tenant : Tenants, code : Codes, currency : Currencies,
   parent : Ids \cup {NoParent}, path : Seq(Pieces)]

\* The variables have the types of their Go and SQL counterparts.
TypeOK ==
  /\ accounts \subseteq Account
  /\ creator \in [Creators ->
       [at : {"idle"} \cup Answers]
       \cup [at : {"received", "inserting"}, account : Account,
             parent : Ids \cup {NoParent, Ghost}]]
  /\ init \in [Initializers ->
       [at : {"idle"} \cup Answers]
       \cup [at : {"200"}, tenant : Tenants]
       \cup [at : {"looping"}, tenant : Tenants, currency : Currencies,
             next : 1 .. Len(SystemCodes) + 1]]

\* An account hangs below one of its own tenant and currency, whose path its own
\* path continues.
ParentsAgree ==
  \A a \in accounts :
    a.parent # NoParent =>
      \E p \in accounts :
        /\ p.id = a.parent /\ p.tenant = a.tenant /\ p.currency = a.currency
        /\ a.path = p.path \o a.code

\* The path of an account tells its ancestors, although the parent is read long
\* before the row is inserted: the paths of the accounts above begin its own, and
\* of the accounts of its tenant with a code without a slash only theirs do, as
\* long as no code on the way up has a slash.
PathIsHierarchy ==
  LET parentOf(a) == {p \in accounts : p.id = a.parent}
      above[a \in accounts] == {a} \cup UNION {above[p] : p \in parentOf(a)}
      plain(a) == Len(a.code) = 1
  IN  \A a, b \in accounts :
        /\ a \in above[b] => a.tenant = b.tenant /\ IsPrefix(a.path, b.path)
        /\ /\ a.tenant = b.tenant /\ IsPrefix(a.path, b.path)
           /\ plain(a) /\ \A c \in above[b] : plain(c)
           => a \in above[b]

\* A tenant whose initialisation answered 200 has every system account,
\* whatever other requests created, failed or skipped meanwhile.
InitializedHasAll ==
  \A i \in Initializers : init[i].at = "200" =>
    \A k \in DOMAIN SystemCodes :
      \E a \in accounts : a.tenant = init[i].tenant /\ a.code = SystemCodes[k]
=============================================================================
