------------------------ MODULE LedgerAccounts_proofs ------------------------
(***************************************************************************)
(* Proofs about LedgerAccounts, for any number of requests, tenants, codes *)
(* and currencies, with and without faults and crashes.                    *)
(***************************************************************************)
EXTENDS LedgerAccounts, WellFoundedInduction, TLAPS

InitState ==
  [at : {"idle"} \cup Answers]
  \cup [at : {"200"}, tenant : Tenants]
  \cup [at : {"looping"}, tenant : Tenants, currency : Currencies,
        next : 1 .. Len(SystemCodes) + 1]
CreatorState ==
  [at : {"idle"} \cup Answers]
  \cup [at : {"received", "inserting"}, account : Account,
        parent : Ids \cup {NoParent, Ghost}]

(***************************************************************************)
(* The strengthening of the invariants: what a request has found out before*)
(* it inserts is still so, because rows are neither updated nor deleted.   *)
(* A code names one account of its tenant, which paths rest on.            *)
(***************************************************************************)
CodesUnique ==
  \A a, b \in accounts : a.tenant = b.tenant /\ a.code = b.code => a = b
HangsBelow(a, p) ==
  /\ p.id = a.parent /\ p.tenant = a.tenant /\ p.currency = a.currency
  /\ a.path = p.path \o a.code
Hangs(a) == a.parent # NoParent => \E p \in accounts : HangsBelow(a, p)
HasSystem(tenant, k) ==
  \E a \in accounts : a.tenant = tenant /\ a.code = SystemCodes[k]

FoundParent ==
  \A c \in Creators : creator[c].at = "inserting" => Hangs(creator[c].account)
InsertedSoFar ==
  \A i \in Initializers : init[i].at = "looping" =>
    \A k \in 1 .. init[i].next - 1 : HasSystem(init[i].tenant, k)
IInv == CodesUnique /\ ParentsAgree /\ InitializedHasAll /\ FoundParent /\ InsertedSoFar

-----------------------------------------------------------------------------
(***************************************************************************)
(* Accounts.                                                               *)
(***************************************************************************)
LEMMA NewAccountType ==
  ASSUME NEW id \in Ids, NEW tenant \in Tenants, NEW code \in Codes,
         NEW currency \in Currencies
  PROVE  /\ NewAccount(id, tenant, code, currency) \in Account
         /\ NewAccount(id, tenant, code, currency).parent = NoParent
BY CodesAssumption DEF NewAccount, Account

\* SetParent yields an account that hangs below the parent.
LEMMA SetParentCorrect ==
  ASSUME NEW account \in Account, NEW parent \in Account, CanBeParent(account, parent)
  PROVE  /\ SetParent(account, parent) \in Account
         /\ HangsBelow(SetParent(account, parent), parent)
<1>1. parent.path \o account.code \in Seq(Pieces) BY CodesAssumption DEF Account
<1>2. QED BY <1>1 DEF SetParent, HangsBelow, CanBeParent, Account

LEMMA SystemAccountType ==
  ASSUME TypeOK, NEW i \in Initializers, Looping(i)
  PROVE  /\ SystemAccount(i) \in Account
         /\ SystemAccount(i).parent = NoParent
         /\ SystemAccount(i).tenant = init[i].tenant
         /\ SystemAccount(i).code = SystemCodes[init[i].next]
         /\ init[i] \in [at : {"looping"}, tenant : Tenants, currency : Currencies,
                         next : 1 .. Len(SystemCodes)]
<1>1. init[i] \in [at : {"looping"}, tenant : Tenants, currency : Currencies,
                   next : 1 .. Len(SystemCodes)]
  BY SystemCodesAssumption DEF TypeOK, Looping, Answers, Fail
<1>2. SystemId(i, init[i].next) \in Ids BY <1>1, SystemCodesAssumption DEF Ids
<1>3. SystemCodes[init[i].next] \in Codes BY <1>1, SystemCodesAssumption
<1>4. QED BY <1>1, <1>2, <1>3, CodesAssumption DEF SystemAccount, NewAccount, Account

-----------------------------------------------------------------------------
LEMMA InitHolds == Init => TypeOK /\ IInv
BY DEF Init, TypeOK, IInv, CodesUnique, ParentsAgree, InitializedHasAll,
       FoundParent, InsertedSoFar

LEMMA NextType == TypeOK /\ [Next]_vars => TypeOK'
<1> SUFFICES ASSUME TypeOK, [Next]_vars PROVE TypeOK' OBVIOUS
<1>1. /\ accounts \subseteq Account
      /\ creator \in [Creators -> CreatorState]
      /\ init \in [Initializers -> InitState]
  BY DEF TypeOK, CreatorState, InitState
<1>2. SUFFICES /\ accounts' \subseteq Account
               /\ creator' \in [Creators -> CreatorState]
               /\ init' \in [Initializers -> InitState]
  BY DEF TypeOK, CreatorState, InitState
<1>3. \A answer \in Answers : [at |-> answer] \in CreatorState /\ [at |-> answer] \in InitState
  BY DEF CreatorState, InitState
<1>4. Fail \in Answers /\ "409" \in Answers /\ "201" \in Answers /\ "lost" \in Answers
  BY DEF Fail, Answers
<1>5. ASSUME NEW c \in Creators, Receive(c)
      PROVE  creator' \in [Creators -> CreatorState]
  <2>1. PICK tenant \in Tenants, code \in Codes, currency \in Currencies,
             parent \in {a.id : a \in accounts} \cup {NoParent, Ghost} :
          creator' = [creator EXCEPT ![c] =
            [at |-> IF parent = NoParent THEN "inserting" ELSE "received",
             parent |-> parent,
             account |-> NewAccount(CreatorId(c), tenant, code, currency)]]
    BY <1>5 DEF Receive
  <2>2. parent \in Ids \cup {NoParent, Ghost} BY <1>1 DEF Account
  <2>3. CreatorId(c) \in Ids BY DEF Ids
  <2>4. NewAccount(CreatorId(c), tenant, code, currency) \in Account
    BY <2>3, NewAccountType
  <2>5. [at |-> IF parent = NoParent THEN "inserting" ELSE "received",
         parent |-> parent,
         account |-> NewAccount(CreatorId(c), tenant, code, currency)] \in CreatorState
    BY <2>2, <2>4 DEF CreatorState
  <2>6. QED BY <1>1, <2>1, <2>5
<1>6. ASSUME NEW c \in Creators, FindParent(c)
      PROVE  creator' \in [Creators -> CreatorState]
  <2>1. PICK parent \in GetAccount(creator[c].account.tenant, creator[c].parent) :
          /\ CanBeParent(creator[c].account, parent)
          /\ creator' = [creator EXCEPT ![c].at = "inserting",
                                        ![c].account = SetParent(@, parent)]
    BY <1>6 DEF FindParent
  <2>2. creator[c] \in [at : {"received", "inserting"}, account : Account,
                        parent : Ids \cup {NoParent, Ghost}]
    BY <1>1, <1>6 DEF FindParent, CreatorState, Answers, Fail
  <2>3. parent \in Account BY <1>1 DEF GetAccount
  <2>4. SetParent(creator[c].account, parent) \in Account
    BY <2>1, <2>2, <2>3, SetParentCorrect
  <2>5. creator' = [creator EXCEPT ![c] =
          [creator[c] EXCEPT !.at = "inserting",
                             !.account = SetParent(creator[c].account, parent)]]
    BY <1>1, <2>1
  <2>6. [creator[c] EXCEPT !.at = "inserting",
                           !.account = SetParent(creator[c].account, parent)] \in CreatorState
    BY <2>2, <2>4 DEF CreatorState
  <2>7. QED BY <1>1, <2>5, <2>6
<1>7. ASSUME NEW c \in Creators, FindParentFails(c)
      PROVE  creator' \in [Creators -> CreatorState]
  BY <1>1, <1>3, <1>4, <1>7 DEF FindParentFails
<1>8. ASSUME NEW c \in Creators, Insert(c)
      PROVE  accounts' \subseteq Account /\ creator' \in [Creators -> CreatorState]
  <2>1. creator[c].account \in Account
    BY <1>1, <1>8 DEF Insert, CreatorState, Answers, Fail
  <2>2. PICK answer \in Answers : creator' = [creator EXCEPT ![c] = [at |-> answer]]
    BY <1>4, <1>8 DEF Insert
  <2>3. QED BY <1>1, <1>3, <1>8, <2>1, <2>2 DEF Insert
<1>9. ASSUME NEW c \in Creators, InsertFails(c)
      PROVE  creator' \in [Creators -> CreatorState]
  <2>1. PICK answer \in Answers : creator' = [creator EXCEPT ![c] = [at |-> answer]]
    BY <1>4, <1>9 DEF InsertFails, CreateFailed
  <2>2. QED BY <1>1, <1>3, <2>1
<1>10. ASSUME NEW i \in Initializers, ReceiveInit(i)
       PROVE  init' \in [Initializers -> InitState]
  <2>1. PICK tenant \in Tenants, currency \in Currencies :
          init' = [init EXCEPT ![i] = [at |-> "looping", tenant |-> tenant,
                                       currency |-> currency, next |-> 1]]
    BY <1>10 DEF ReceiveInit
  <2>2. 1 \in 1 .. Len(SystemCodes) + 1 BY SystemCodesAssumption
  <2>3. QED BY <1>1, <2>1, <2>2 DEF InitState
<1>11. ASSUME NEW i \in Initializers, Looping(i),
              init' = [init EXCEPT ![i].next = @ + 1] \/ init' = [init EXCEPT ![i] = [at |-> Fail]]
       PROVE  init' \in [Initializers -> InitState]
  <2>1. init[i] \in [at : {"looping"}, tenant : Tenants, currency : Currencies,
                     next : 1 .. Len(SystemCodes)]
    BY <1>11, SystemAccountType
  <2>2. [init[i] EXCEPT !.next = @ + 1] \in InitState
    BY <2>1, SystemCodesAssumption DEF InitState
  <2>3. CASE init' = [init EXCEPT ![i].next = @ + 1]
    <3>1. init' = [init EXCEPT ![i] = [init[i] EXCEPT !.next = @ + 1]] BY <1>1, <2>3
    <3>2. QED BY <1>1, <2>2, <3>1
  <2>4. CASE init' = [init EXCEPT ![i] = [at |-> Fail]] BY <1>1, <1>3, <1>4, <2>4
  <2>5. QED BY <1>11, <2>3, <2>4
<1>12. ASSUME NEW i \in Initializers, InsertSystem(i)
       PROVE  accounts' \subseteq Account /\ init' \in [Initializers -> InitState]
  <2>1. SystemAccount(i) \in Account BY <1>12, SystemAccountType DEF InsertSystem
  <2>2. QED BY <1>1, <1>11, <1>12, <2>1 DEF InsertSystem
<1>13. ASSUME NEW i \in Initializers, InsertSystemFails(i)
       PROVE  init' \in [Initializers -> InitState]
  BY <1>11, <1>13 DEF InsertSystemFails
<1>14. ASSUME NEW i \in Initializers, Initialized(i)
       PROVE  init' \in [Initializers -> InitState]
  <2>1. init[i].tenant \in Tenants
    BY <1>1, <1>14 DEF Initialized, InitState, Answers, Fail
  <2>2. [at |-> "200", tenant |-> init[i].tenant] \in InitState BY <2>1 DEF InitState
  <2>3. QED BY <1>1, <1>14, <2>2 DEF Initialized
<1>15. CASE Crash
  <2>1. \A c \in Creators : Lost(creator[c]) \in CreatorState BY <1>1, <1>3, <1>4 DEF Lost
  <2>2. \A i \in Initializers : Lost(init[i]) \in InitState BY <1>1, <1>3, <1>4 DEF Lost
  <2>3. QED BY <1>1, <1>15, <2>1, <2>2 DEF Crash
<1>16. CASE UNCHANGED vars BY <1>1, <1>16 DEF vars
<1>17. ASSUME NEW c \in Creators,
              Receive(c) \/ FindParent(c) \/ FindParentFails(c) \/ Insert(c) \/ InsertFails(c)
       PROVE  /\ accounts' \subseteq Account
              /\ creator' \in [Creators -> CreatorState]
              /\ init' \in [Initializers -> InitState]
  <2>1. init' = init
    BY <1>17 DEF Receive, FindParent, FindParentFails, Insert, InsertFails
  <2>2. Insert(c) \/ accounts' = accounts
    BY <1>17 DEF Receive, FindParent, FindParentFails, InsertFails
  <2>3. QED BY <1>1, <1>5, <1>6, <1>7, <1>8, <1>9, <1>17, <2>1, <2>2
<1>18. ASSUME NEW i \in Initializers,
              ReceiveInit(i) \/ InsertSystem(i) \/ InsertSystemFails(i) \/ Initialized(i)
       PROVE  /\ accounts' \subseteq Account
              /\ creator' \in [Creators -> CreatorState]
              /\ init' \in [Initializers -> InitState]
  <2>1. creator' = creator
    BY <1>18 DEF ReceiveInit, InsertSystem, InsertSystemFails, Initialized
  <2>2. InsertSystem(i) \/ accounts' = accounts
    BY <1>18 DEF ReceiveInit, InsertSystemFails, Initialized
  <2>3. QED BY <1>1, <1>10, <1>12, <1>13, <1>14, <1>18, <2>1, <2>2
<1>19. QED BY <1>15, <1>16, <1>17, <1>18 DEF Next

\* What is said of the rows stays true as rows are added.
LEMMA Monotonic ==
  ASSUME accounts \subseteq accounts'
  PROVE  /\ \A a : Hangs(a) => Hangs(a)'
         /\ \A tenant, k : HasSystem(tenant, k) => HasSystem(tenant, k)'
BY DEF Hangs, HangsBelow, HasSystem

\* A row for which no other stands in the way is added.
LEMMA AddRow ==
  ASSUME TypeOK, CodesUnique, ParentsAgree, NEW a \in Account,
         ~Taken(a), Hangs(a), accounts' = accounts \cup {a}
  PROVE  CodesUnique' /\ ParentsAgree'
<1>1. CodesUnique' BY DEF CodesUnique, Taken
<1>2. ParentsAgree'
  <2>1. \A b \in accounts' : Hangs(b)
    BY DEF ParentsAgree, Hangs, HangsBelow
  <2>2. \A b \in accounts' : Hangs(b)'
    BY <2>1, Monotonic
  <2>3. QED BY <2>2 DEF ParentsAgree, Hangs, HangsBelow
<1>3. QED BY <1>1, <1>2

LEMMA NextInv == TypeOK /\ IInv /\ [Next]_vars => IInv'
<1> SUFFICES ASSUME TypeOK, IInv, [Next]_vars PROVE IInv' OBVIOUS
<1>1. ASSUME UNCHANGED accounts PROVE CodesUnique' /\ ParentsAgree'
  BY <1>1 DEF IInv, CodesUnique, ParentsAgree
<1>2. ASSUME UNCHANGED creator, accounts \subseteq accounts' PROVE FoundParent'
  BY <1>2, Monotonic DEF IInv, FoundParent, Hangs, HangsBelow
<1>3. ASSUME UNCHANGED init, accounts \subseteq accounts'
      PROVE  InsertedSoFar' /\ InitializedHasAll'
  <2>1. InsertedSoFar' BY <1>3 DEF IInv, InsertedSoFar, HasSystem
  <2>2. InitializedHasAll' BY <1>3 DEF IInv, InitializedHasAll
  <2>3. QED BY <2>1, <2>2
<1>4. ASSUME NEW c \in Creators, Receive(c) PROVE IInv'
  <2>1. FoundParent'
    <3>1. \A d \in Creators :
            creator'[d] # creator[d] /\ creator'[d].at = "inserting" =>
              creator'[d].account.parent = NoParent
      BY <1>4, NewAccountType DEF Receive, NewAccount, TypeOK
    <3>2. QED BY <1>4, <3>1 DEF Receive, IInv, FoundParent, Hangs, HangsBelow
  <2>2. QED BY <1>1, <1>3, <1>4, <2>1 DEF Receive, IInv
<1>5. ASSUME NEW c \in Creators, FindParent(c) PROVE IInv'
  <2>1. PICK parent \in GetAccount(creator[c].account.tenant, creator[c].parent) :
          /\ CanBeParent(creator[c].account, parent)
          /\ creator' = [creator EXCEPT ![c].at = "inserting",
                                        ![c].account = SetParent(@, parent)]
    BY <1>5 DEF FindParent
  <2>2. creator[c] \in [at : {"received", "inserting"}, account : Account,
                        parent : Ids \cup {NoParent, Ghost}]
    BY <1>5 DEF FindParent, TypeOK, Answers, Fail
  <2>3. parent \in accounts /\ parent \in Account BY DEF GetAccount, TypeOK
  <2>4. HangsBelow(SetParent(creator[c].account, parent), parent)
    BY <2>1, <2>2, <2>3, SetParentCorrect
  <2>5. /\ creator'[c].account = SetParent(creator[c].account, parent)
        /\ \A d \in Creators : d # c => creator'[d] = creator[d]
    BY <2>1, <2>2 DEF TypeOK
  <2>6. UNCHANGED <<accounts, init>> BY <1>5 DEF FindParent
  <2>7. FoundParent'
    <3>1. Hangs(creator'[c].account) BY <2>3, <2>4, <2>5 DEF Hangs
    <3>2. \A d \in Creators : creator'[d].at = "inserting" => Hangs(creator'[d].account)
      BY <2>5, <3>1 DEF IInv, FoundParent
    <3>3. QED BY <2>6, <3>2 DEF FoundParent, Hangs, HangsBelow
  <2>8. QED BY <1>1, <1>3, <2>6, <2>7 DEF IInv
<1>6. ASSUME NEW c \in Creators, NEW answer \in Answers,
             creator' = [creator EXCEPT ![c] = [at |-> answer]],
             accounts \subseteq accounts'
      PROVE  FoundParent'
  <2>1. creator'[c].at # "inserting" /\ \A d \in Creators : d # c => creator'[d] = creator[d]
    BY <1>6 DEF TypeOK, Answers, Fail
  <2>2. \A d \in Creators : creator'[d].at = "inserting" => Hangs(creator'[d].account)
    BY <2>1 DEF IInv, FoundParent
  <2>3. QED BY <1>6, <2>2 DEF FoundParent, Hangs, HangsBelow
<1>7. ASSUME NEW c \in Creators, FindParentFails(c) \/ InsertFails(c) PROVE IInv'
  <2>1. UNCHANGED <<accounts, init>> BY <1>7 DEF FindParentFails, InsertFails
  <2>2. \E answer \in Answers : creator' = [creator EXCEPT ![c] = [at |-> answer]]
    BY <1>7 DEF FindParentFails, InsertFails, CreateFailed, Answers, Fail
  <2>3. QED BY <1>1, <1>3, <1>6, <2>1, <2>2 DEF IInv
<1>8. ASSUME NEW c \in Creators, Insert(c) PROVE IInv'
  <2>1. creator[c].account \in Account
    BY <1>8 DEF Insert, TypeOK, Answers, Fail
  <2>2. accounts' = accounts \cup {creator[c].account} /\ init' = init
    BY <1>8 DEF Insert
  <2>3. CodesUnique' /\ ParentsAgree'
    BY <1>8, <2>1, <2>2, AddRow DEF Insert, IInv, FoundParent
  <2>4. \E answer \in Answers : creator' = [creator EXCEPT ![c] = [at |-> answer]]
    BY <1>8 DEF Insert, Answers, Fail
  <2>5. QED BY <1>3, <1>6, <2>2, <2>3, <2>4 DEF IInv
<1>9. ASSUME NEW i \in Initializers, ReceiveInit(i) PROVE IInv'
  <2>1. /\ init'[i].at = "looping" /\ init'[i].next = 1
        /\ \A j \in Initializers : j # i => init'[j] = init[j]
    BY <1>9 DEF ReceiveInit, TypeOK
  <2>2. UNCHANGED <<accounts, creator>> BY <1>9 DEF ReceiveInit
  <2>3. InsertedSoFar' BY <2>1, <2>2 DEF IInv, InsertedSoFar, HasSystem
  <2>4. InitializedHasAll' BY <2>1, <2>2 DEF IInv, InitializedHasAll
  <2>5. QED BY <1>1, <1>2, <2>2, <2>3, <2>4 DEF IInv
<1>10. ASSUME NEW i \in Initializers, init[i].at = "looping", accounts \subseteq accounts',
              init' = [init EXCEPT ![i] = [at |-> Fail]]
       PROVE  InsertedSoFar' /\ InitializedHasAll'
  <2>1. /\ init'[i].at = Fail /\ Fail # "looping" /\ Fail # "200"
        /\ \A j \in Initializers : j # i => init'[j] = init[j]
    BY <1>10 DEF TypeOK, Fail
  <2>2. InsertedSoFar' BY <1>10, <2>1 DEF IInv, InsertedSoFar, HasSystem
  <2>3. InitializedHasAll' BY <1>10, <2>1 DEF IInv, InitializedHasAll
  <2>4. QED BY <2>2, <2>3
<1>11. ASSUME NEW i \in Initializers, InsertSystem(i) PROVE IInv'
  <2> DEFINE a == SystemAccount(i)
  <2>1. /\ a \in Account /\ a.parent = NoParent
        /\ a.tenant = init[i].tenant /\ a.code = SystemCodes[init[i].next]
        /\ init[i] \in [at : {"looping"}, tenant : Tenants, currency : Currencies,
                        next : 1 .. Len(SystemCodes)]
    BY <1>11, SystemAccountType DEF InsertSystem
  <2>2. accounts' = accounts \cup {a} /\ creator' = creator /\ ~Taken(a)
    BY <1>11 DEF InsertSystem
  <2> HIDE DEF a
  <2>3. CodesUnique' /\ ParentsAgree'
    BY <2>1, <2>2, AddRow DEF IInv, Hangs
  <2>4. InsertedSoFar' /\ InitializedHasAll'
    <3>1. CASE init' = [init EXCEPT ![i] = [at |-> Fail]] BY <1>10, <2>1, <2>2, <3>1
    <3>2. CASE init' = [init EXCEPT ![i].next = @ + 1]
      <4>1. /\ init'[i].at = "looping" /\ init'[i].tenant = init[i].tenant
            /\ init'[i].next = init[i].next + 1
            /\ \A j \in Initializers : j # i => init'[j] = init[j]
        BY <2>1, <3>2 DEF TypeOK
      <4>2. \A k \in 1 .. init[i].next - 1 : HasSystem(init[i].tenant, k)
        BY <2>1 DEF IInv, InsertedSoFar
      <4>3. \A k \in 1 .. init'[i].next - 1 : k \in 1 .. init[i].next - 1 \/ k = init[i].next
        BY <2>1, <4>1
      <4>4. \A k \in 1 .. init'[i].next - 1 :
              \E b \in accounts' : b.tenant = init[i].tenant /\ b.code = SystemCodes[k]
        BY <2>1, <2>2, <4>2, <4>3 DEF HasSystem
      <4>5. InsertedSoFar'
        BY <2>2, <4>1, <4>4 DEF IInv, InsertedSoFar, HasSystem
      <4>6. InitializedHasAll' BY <2>2, <4>1 DEF IInv, InitializedHasAll
      <4>7. QED BY <4>5, <4>6
    <3>3. QED BY <1>11, <3>1, <3>2 DEF InsertSystem
  <2>5. QED BY <1>2, <2>2, <2>3, <2>4 DEF IInv
<1>12. ASSUME NEW i \in Initializers, InsertSystemFails(i) PROVE IInv'
  <2>1. /\ init[i].at = "looping" /\ UNCHANGED <<accounts, creator>>
        /\ init' = [init EXCEPT ![i] = [at |-> Fail]]
    BY <1>12 DEF InsertSystemFails, Looping, Skipped, IsUniqueViolation, DuplicateError
  <2>2. QED BY <1>1, <1>2, <1>10, <2>1 DEF IInv
<1>13. ASSUME NEW i \in Initializers, Initialized(i) PROVE IInv'
  <2>1. /\ init'[i].at = "200" /\ init'[i].tenant = init[i].tenant
        /\ \A j \in Initializers : j # i => init'[j] = init[j]
        /\ UNCHANGED <<accounts, creator>>
    BY <1>13 DEF Initialized, TypeOK
  <2>2. \A k \in DOMAIN SystemCodes : HasSystem(init[i].tenant, k)
    <3>1. init[i].at = "looping" /\ init[i].next \in 1 .. Len(SystemCodes) + 1
      BY <1>13 DEF Initialized, TypeOK, Answers, Fail
    <3>2. DOMAIN SystemCodes = 1 .. init[i].next - 1
      BY <1>13, <3>1, SystemCodesAssumption DEF Initialized
    <3>3. QED BY <3>1, <3>2 DEF IInv, InsertedSoFar
  <2>3. InsertedSoFar' BY <2>1 DEF IInv, InsertedSoFar, HasSystem
  <2>4. InitializedHasAll' BY <2>1, <2>2 DEF IInv, InitializedHasAll, HasSystem
  <2>5. QED BY <1>1, <1>2, <2>1, <2>3, <2>4 DEF IInv
<1>14. CASE Crash
  <2>1. /\ \A c \in Creators : creator'[c].at = "inserting" => creator'[c] = creator[c]
        /\ \A i \in Initializers :
             init'[i].at \in {"looping", "200"} => init'[i] = init[i]
        /\ UNCHANGED accounts
    BY <1>14 DEF Crash, Lost
  <2>2. FoundParent' BY <2>1 DEF IInv, FoundParent, Hangs, HangsBelow
  <2>3. InsertedSoFar' BY <2>1 DEF IInv, InsertedSoFar, HasSystem
  <2>4. InitializedHasAll' BY <2>1 DEF IInv, InitializedHasAll
  <2>5. QED BY <1>1, <2>1, <2>2, <2>3, <2>4 DEF IInv
<1>15. CASE UNCHANGED vars BY <1>1, <1>2, <1>3, <1>15 DEF vars, IInv
<1>16. QED
  BY <1>4, <1>5, <1>7, <1>8, <1>9, <1>11, <1>12, <1>13, <1>14, <1>15 DEF Next

LEMMA Invariant == Spec => [](TypeOK /\ IInv)
<1>1. (TypeOK /\ IInv) /\ [Next]_vars => (TypeOK /\ IInv)' BY NextType, NextInv
<1>2. QED BY <1>1, InitHolds, PTL DEF Spec

-----------------------------------------------------------------------------
(***************************************************************************)
(* An id is inserted once.  A request in flight has an id no row bears, its *)
(* account bears that id, and an initialisation has not used the ids of the *)
(* accounts still to come.  A row without a parent is the root of its path. *)
(***************************************************************************)
Unused(id) == \A a \in accounts : a.id # id
Root(a) == a.parent = NoParent => a.path = a.code

CreatorOk(c, request) ==
  /\ request.at \in {"idle", "received", "inserting"} => Unused(CreatorId(c))
  /\ request.at \in {"received", "inserting"} => request.account.id = CreatorId(c)
  /\ request.at = "inserting" => Root(request.account)
InitOk(i, request) ==
  \A k \in DOMAIN SystemCodes :
    request.at = "idle" \/ (request.at = "looping" /\ request.next <= k)
      => Unused(SystemId(i, k))

IdsUnique == \A a, b \in accounts : a.id = b.id => a = b
RootPaths == \A a \in accounts : Root(a)
IdInv ==
  /\ IdsUnique
  /\ RootPaths
  /\ \A c \in Creators : CreatorOk(c, creator[c])
  /\ \A i \in Initializers : InitOk(i, init[i])

\* Nothing is claimed of a request that was answered.
LEMMA Answered ==
  ASSUME NEW answer \in Answers
  PROVE  /\ \A c : CreatorOk(c, [at |-> answer])
         /\ \A i : InitOk(i, [at |-> answer])
BY DEF Answers, CreatorOk, InitOk

\* A row with an unused id is added; other ids are as unused as before.
LEMMA AddId ==
  ASSUME IdsUnique, RootPaths, NEW a, Unused(a.id), Root(a), accounts' = accounts \cup {a}
  PROVE  /\ IdsUnique' /\ RootPaths'
         /\ \A id : id # a.id /\ Unused(id) => Unused(id)'
BY DEF IdsUnique, RootPaths, Root, Unused

LEMMA DifferentIds ==
  /\ \A c, d : CreatorId(c) = CreatorId(d) => c = d
  /\ \A c, i : \A k \in DOMAIN SystemCodes : CreatorId(c) # SystemId(i, k)
  /\ \A i, j, k, l : SystemId(i, k) = SystemId(j, l) => i = j /\ k = l
<1>1. DOMAIN SystemCodes = 1 .. Len(SystemCodes) /\ Len(SystemCodes) \in Nat
  BY SystemCodesAssumption
<1>2. QED BY <1>1 DEF CreatorId, SystemId

LEMMA IdsKept == TypeOK /\ IdInv /\ [Next]_vars => IdInv'
<1> SUFFICES ASSUME TypeOK, IdInv, [Next]_vars PROVE IdInv' OBVIOUS
<1>1. ASSUME UNCHANGED accounts,
             \A c \in Creators : CreatorOk(c, creator'[c]),
             \A i \in Initializers : InitOk(i, init'[i])
      PROVE  IdInv'
  BY <1>1 DEF IdInv, IdsUnique, RootPaths, Root, CreatorOk, InitOk, Unused
<1>2. ASSUME UNCHANGED creator PROVE \A c \in Creators : CreatorOk(c, creator'[c])
  BY <1>2 DEF IdInv
<1>3. ASSUME UNCHANGED init PROVE \A i \in Initializers : InitOk(i, init'[i])
  BY <1>3 DEF IdInv
<1>4. ASSUME NEW c \in Creators, CreatorOk(c, creator'[c]),
             \A d \in Creators : d # c => creator'[d] = creator[d]
      PROVE  \A d \in Creators : CreatorOk(d, creator'[d])
  BY <1>4 DEF IdInv
<1>5. ASSUME NEW i \in Initializers, InitOk(i, init'[i]),
             \A j \in Initializers : j # i => init'[j] = init[j]
      PROVE  \A j \in Initializers : InitOk(j, init'[j])
  BY <1>5 DEF IdInv
<1>6. ASSUME NEW c \in Creators, Receive(c) PROVE IdInv'
  <2>1. PICK tenant \in Tenants, code \in Codes, currency \in Currencies,
             parent \in {a.id : a \in accounts} \cup {NoParent, Ghost} :
          creator' = [creator EXCEPT ![c] =
            [at |-> IF parent = NoParent THEN "inserting" ELSE "received",
             parent |-> parent,
             account |-> NewAccount(CreatorId(c), tenant, code, currency)]]
    BY <1>6 DEF Receive
  <2>2. creator[c].at = "idle" /\ UNCHANGED <<accounts, init>> BY <1>6 DEF Receive
  <2>3. Unused(CreatorId(c)) BY <2>2 DEF IdInv, CreatorOk
  <2>4. /\ creator'[c].account = NewAccount(CreatorId(c), tenant, code, currency)
        /\ \A d \in Creators : d # c => creator'[d] = creator[d]
    BY <2>1 DEF TypeOK
  <2>5. CreatorOk(c, creator'[c]) BY <2>3, <2>4 DEF CreatorOk, NewAccount, Root
  <2>6. QED BY <1>1, <1>3, <1>4, <2>2, <2>4, <2>5
<1>7. ASSUME NEW c \in Creators, FindParent(c) PROVE IdInv'
  <2>1. PICK parent \in GetAccount(creator[c].account.tenant, creator[c].parent) :
          creator' = [creator EXCEPT ![c].at = "inserting",
                                     ![c].account = SetParent(@, parent)]
    BY <1>7 DEF FindParent
  <2>2. /\ creator[c] \in [at : {"received", "inserting"}, account : Account,
                           parent : Ids \cup {NoParent, Ghost}]
        /\ creator[c].at = "received" /\ UNCHANGED <<accounts, init>>
    BY <1>7 DEF FindParent, TypeOK, Answers, Fail
  <2>3. parent \in Account BY DEF GetAccount, TypeOK
  <2>4. /\ creator'[c].account = SetParent(creator[c].account, parent)
        /\ \A d \in Creators : d # c => creator'[d] = creator[d]
    BY <2>1, <2>2 DEF TypeOK
  <2>5. /\ SetParent(creator[c].account, parent).id = creator[c].account.id
        /\ SetParent(creator[c].account, parent).parent # NoParent
    BY <2>2, <2>3, NoParentAssumption DEF SetParent, Account
  <2>6. creator[c].account.id = CreatorId(c) /\ Unused(CreatorId(c))
    BY <2>2 DEF IdInv, CreatorOk
  <2>7. CreatorOk(c, creator'[c]) BY <2>4, <2>5, <2>6 DEF CreatorOk, Root
  <2>8. QED BY <1>1, <1>3, <1>4, <2>2, <2>4, <2>7
<1>8. ASSUME NEW c \in Creators, FindParentFails(c) \/ InsertFails(c) PROVE IdInv'
  <2>1. UNCHANGED <<accounts, init>> BY <1>8 DEF FindParentFails, InsertFails
  <2>2. PICK answer \in Answers : creator' = [creator EXCEPT ![c] = [at |-> answer]]
    BY <1>8 DEF FindParentFails, InsertFails, CreateFailed, Answers, Fail
  <2>3. creator'[c] = [at |-> answer] /\ \A d \in Creators : d # c => creator'[d] = creator[d]
    BY <2>2 DEF TypeOK
  <2>4. CreatorOk(c, creator'[c]) BY <2>3, Answered
  <2>5. QED BY <1>1, <1>3, <1>4, <2>1, <2>3, <2>4
<1>9. ASSUME NEW c \in Creators, Insert(c) PROVE IdInv'
  <2> DEFINE a == creator[c].account
  <2>1. /\ a.id = CreatorId(c) /\ Unused(a.id) /\ Root(a)
        /\ accounts' = accounts \cup {a} /\ init' = init
    BY <1>9 DEF Insert, IdInv, CreatorOk
  <2>2. PICK answer \in Answers : creator' = [creator EXCEPT ![c] = [at |-> answer]]
    BY <1>9 DEF Insert, Answers, Fail
  <2>3. creator'[c] = [at |-> answer] /\ \A d \in Creators : d # c => creator'[d] = creator[d]
    BY <2>2 DEF TypeOK
  <2> HIDE DEF a
  <2>4. /\ IdsUnique' /\ RootPaths'
        /\ \A id : id # a.id /\ Unused(id) => Unused(id)'
    BY <2>1, AddId DEF IdInv
  <2>5. \A d \in Creators : CreatorOk(d, creator[d])'
    <3>1. \A d \in Creators : CreatorOk(d, creator'[d]) BY <1>4, <2>3, Answered
    <3>2. \A d \in Creators : d # c => CreatorId(d) # a.id BY <2>1, DifferentIds
    <3>3. \A d \in Creators : d # c /\ Unused(CreatorId(d)) => Unused(CreatorId(d))'
      BY <2>4, <3>2 DEF CreatorId
    <3>4. creator'[c].at \notin {"idle", "received", "inserting"}
      BY <2>3 DEF Answers
    <3>5. QED BY <3>1, <3>3, <3>4 DEF CreatorOk, Root
  <2>6. \A i \in Initializers : InitOk(i, init[i])'
    <3>1. \A i \in Initializers, k \in DOMAIN SystemCodes :
            Unused(SystemId(i, k)) => Unused(SystemId(i, k))'
      BY <2>1, <2>4, DifferentIds DEF SystemId
    <3>2. QED BY <2>1, <3>1 DEF IdInv, InitOk
  <2>7. QED BY <2>4, <2>5, <2>6 DEF IdInv
<1>10. ASSUME NEW i \in Initializers, ReceiveInit(i) PROVE IdInv'
  <2>1. /\ init[i].at = "idle" /\ UNCHANGED <<accounts, creator>>
        /\ \A j \in Initializers : j # i => init'[j] = init[j]
    BY <1>10 DEF ReceiveInit, TypeOK
  <2>2. InitOk(i, init'[i]) BY <2>1 DEF IdInv, InitOk
  <2>3. QED BY <1>1, <1>2, <1>5, <2>1, <2>2
<1>11. ASSUME NEW i \in Initializers, NEW answer \in Answers,
              init' = [init EXCEPT ![i] = [at |-> answer]]
       PROVE  \A j \in Initializers : InitOk(j, init'[j])
  <2>1. init'[i] = [at |-> answer] /\ \A j \in Initializers : j # i => init'[j] = init[j]
    BY <1>11 DEF TypeOK
  <2>2. QED BY <1>5, <2>1, Answered
<1>12. ASSUME NEW i \in Initializers, InsertSystem(i) PROVE IdInv'
  <2> DEFINE a == SystemAccount(i)
             k == init[i].next
  <2>1. /\ init[i] \in [at : {"looping"}, tenant : Tenants, currency : Currencies,
                        next : 1 .. Len(SystemCodes)]
        /\ Looping(i)
    BY <1>12, SystemAccountType DEF InsertSystem
  <2>2. k \in DOMAIN SystemCodes BY <2>1 DEF Looping
  <2>3. a.id = SystemId(i, k) /\ Root(a) BY DEF SystemAccount, NewAccount, Root
  <2>4. Unused(a.id) BY <2>1, <2>2, <2>3 DEF IdInv, InitOk
  <2>5. accounts' = accounts \cup {a} /\ creator' = creator BY <1>12 DEF InsertSystem
  <2> HIDE DEF a
  <2>6. /\ IdsUnique' /\ RootPaths'
        /\ \A id : id # a.id /\ Unused(id) => Unused(id)'
    BY <2>3, <2>4, <2>5, AddId DEF IdInv
  <2>7. \A c \in Creators : CreatorOk(c, creator[c])'
    <3>1. \A c \in Creators : Unused(CreatorId(c)) => Unused(CreatorId(c))'
      BY <2>2, <2>3, <2>6, DifferentIds DEF CreatorId
    <3>2. QED BY <2>5, <3>1 DEF IdInv, CreatorOk, Root
  <2>8. /\ \A j \in Initializers : j # i => init'[j] = init[j]
        /\ \/ init'[i].at = "looping" /\ init'[i].next = k + 1
           \/ init'[i].at \notin {"idle", "looping"}
    BY <1>12, <2>1 DEF InsertSystem, TypeOK, Fail
  <2>9. \A j \in Initializers : InitOk(j, init[j])'
    <3>1. k \in Int /\ \A l \in DOMAIN SystemCodes : l \in Int /\ (k + 1 <= l => k # l /\ k <= l)
      BY <2>1, SystemCodesAssumption
    <3>2. \A j \in Initializers, l \in DOMAIN SystemCodes :
            (j # i \/ l # k) /\ Unused(SystemId(j, l)) => Unused(SystemId(j, l))'
      BY <2>3, <2>6, DifferentIds DEF SystemId
    <3>3. ASSUME NEW j \in Initializers, NEW l \in DOMAIN SystemCodes,
                 \/ init'[j].at = "idle" 
                 \/ init'[j].at = "looping" /\ init'[j].next <= l
          PROVE  (j # i \/ l # k) /\ Unused(SystemId(j, l))
      <4>1. CASE j # i BY <2>8, <3>3, <4>1 DEF IdInv, InitOk
      <4>2. CASE j = i BY <2>1, <2>8, <3>1, <3>3, <4>2 DEF IdInv, InitOk
      <4>3. QED BY <4>1, <4>2
    <3>4. QED BY <3>2, <3>3 DEF InitOk, SystemId
  <2>10. QED BY <2>6, <2>7, <2>9 DEF IdInv
<1>13. ASSUME NEW i \in Initializers, InsertSystemFails(i) PROVE IdInv'
  <2>1. /\ UNCHANGED <<accounts, creator>>
        /\ init' = [init EXCEPT ![i] = [at |-> Fail]]
    BY <1>13 DEF InsertSystemFails, Skipped, IsUniqueViolation, DuplicateError
  <2>2. QED BY <1>1, <1>2, <1>11, <2>1 DEF Answers, Fail
<1>14. ASSUME NEW i \in Initializers, Initialized(i) PROVE IdInv'
  <2>1. /\ init'[i].at = "200"
        /\ \A j \in Initializers : j # i => init'[j] = init[j]
        /\ UNCHANGED <<accounts, creator>>
    BY <1>14 DEF Initialized, TypeOK
  <2>2. InitOk(i, init'[i]) BY <2>1 DEF InitOk
  <2>3. QED BY <1>1, <1>2, <1>5, <2>1, <2>2
<1>15. CASE Crash
  <2>1. /\ \A c \in Creators : creator'[c] = creator[c] \/ creator'[c] = [at |-> "lost"]
        /\ \A i \in Initializers : init'[i] = init[i] \/ init'[i] = [at |-> "lost"]
        /\ UNCHANGED accounts
    BY <1>15 DEF Crash, Lost
  <2>2. "lost" \in Answers BY DEF Answers
  <2>3. \A c \in Creators : CreatorOk(c, creator'[c]) BY <2>1, <2>2, Answered DEF IdInv
  <2>4. \A i \in Initializers : InitOk(i, init'[i]) BY <2>1, <2>2, Answered DEF IdInv
  <2>5. QED BY <1>1, <2>1, <2>3, <2>4
<1>16. CASE UNCHANGED vars BY <1>1, <1>2, <1>3, <1>16 DEF vars
<1>17. QED
  BY <1>6, <1>7, <1>8, <1>9, <1>10, <1>12, <1>13, <1>14, <1>15, <1>16 DEF Next

LEMMA IdInvariant == Spec => []IdInv
<1>1. Init => IdInv
  BY DEF Init, IdInv, IdsUnique, RootPaths, CreatorOk, InitOk, Unused
<1>2. QED BY <1>1, Invariant, IdsKept, PTL DEF Spec

-----------------------------------------------------------------------------
(***************************************************************************)
(* Paths and ancestors.  The recursive definition of the ancestors has a   *)
(* solution, the accounts that are in every set that holds the account and *)
(* the parents of its members.  What is claimed of a solution is claimed   *)
(* of all accounts: it would fail first at a shortest path, where it holds *)
(* for the parent.                                                         *)
(***************************************************************************)
\* Where a sequence is extended.
LEMMA Extension ==
  ASSUME NEW s \in Seq(Pieces), NEW t \in Seq(Pieces)
  PROVE  /\ s \o t \in Seq(Pieces)
         /\ Len(s \o t) = Len(s) + Len(t)
         /\ Len(s) \in Nat /\ Len(t) \in Nat
         /\ \A i \in 1 .. Len(s) : (s \o t)[i] = s[i]
         /\ Len(t) = 1 => (s \o t)[Len(s \o t)] = t[1]
OBVIOUS

\* The path of a row is not empty and ends in its code.
LEMMA PathsOfRows ==
  ASSUME TypeOK, ParentsAgree, RootPaths, NEW a \in accounts
  PROVE  /\ a.path \in Seq(Pieces) /\ a.code \in Seq(Pieces)
         /\ Len(a.path) \in Nat \ {0} /\ Len(a.code) \in Nat \ {0}
         /\ Len(a.code) = 1 => a.path[Len(a.path)] = a.code[1]
<1>1. /\ a.path \in Seq(Pieces) /\ a.code \in Seq(Pieces)
      /\ Len(a.code) \in Nat \ {0}
  BY CodesAssumption DEF TypeOK, Account
<1>2. CASE a.parent = NoParent
  BY <1>1, <1>2 DEF RootPaths, Root
<1>3. CASE a.parent # NoParent
  <2>1. PICK p \in accounts : a.path = p.path \o a.code BY <1>3 DEF ParentsAgree
  <2>2. p.path \in Seq(Pieces) BY DEF TypeOK, Account
  <2> DEFINE s == p.path
             t == a.code
             u == a.path
  <2>3. s \in Seq(Pieces) /\ t \in Seq(Pieces) /\ u = s \o t /\ Len(t) \in Nat \ {0}
    BY <1>1, <2>1, <2>2
  <2> HIDE DEF s, t, u
  <2>4. /\ Len(u) = Len(s) + Len(t) /\ Len(s) \in Nat
        /\ Len(t) = 1 => u[Len(u)] = t[1]
    BY <2>3, Extension
  <2>5. Len(u) \in Nat \ {0} BY <2>3, <2>4
  <2>6. QED BY <1>1, <2>4, <2>5 DEF t, u
<1>4. QED BY <1>2, <1>3

\* Within a tenant one account with a code without a slash has a given path.
LEMMA PlainPathsUnique ==
  ASSUME TypeOK, ParentsAgree, RootPaths, CodesUnique,
         NEW a \in accounts, NEW b \in accounts, a.tenant = b.tenant, a.path = b.path,
         Len(a.code) = 1, Len(b.code) = 1
  PROVE  a = b
<1>1. a.code \in Seq(Pieces) /\ b.code \in Seq(Pieces) /\ a.code[1] = b.code[1]
  BY PathsOfRows
<1>2. a.code = b.code BY <1>1
<1>3. QED BY <1>2 DEF CodesUnique

\* What begins a sequence begins every extension of it; a prefix of an extension
\* by one element is a prefix of the sequence or the whole.
LEMMA PrefixOfExtension ==
  ASSUME NEW s \in Seq(Pieces), NEW t \in Seq(Pieces), NEW code \in Seq(Pieces)
  PROVE  /\ IsPrefix(s, s)
         /\ IsPrefix(s, t) => IsPrefix(s, t \o code)
         /\ Len(code) = 1 /\ IsPrefix(s, t \o code) => IsPrefix(s, t) \/ s = t \o code
<1> DEFINE u == t \o code
<1>1. /\ u \in Seq(Pieces) /\ Len(u) = Len(t) + Len(code)
      /\ \A i \in 1 .. Len(t) : u[i] = t[i]
  BY Extension
<1>2. Len(s) \in Nat /\ Len(t) \in Nat /\ Len(code) \in Nat OBVIOUS
<1> HIDE DEF u
<1>3. IsPrefix(s, s) BY <1>2 DEF IsPrefix
<1>4. ASSUME Len(s) <= Len(t) PROVE IsPrefix(s, t) <=> IsPrefix(s, u)
  <2>1. SubSeq(u, 1, Len(s)) = SubSeq(t, 1, Len(s)) BY <1>1, <1>2, <1>4
  <2>2. QED BY <1>1, <1>2, <1>4, <2>1 DEF IsPrefix
<1>5. ASSUME IsPrefix(s, t) PROVE IsPrefix(s, u)
  BY <1>2, <1>4, <1>5 DEF IsPrefix
<1>6. ASSUME Len(code) = 1, IsPrefix(s, u) PROVE IsPrefix(s, t) \/ s = u
  <2>1. Len(s) <= Len(t) + 1 BY <1>1, <1>2, <1>6 DEF IsPrefix
  <2>2. CASE Len(s) <= Len(t) BY <1>4, <1>6, <2>2
  <2>3. CASE Len(s) = Len(t) + 1
    <3>1. SubSeq(s, 1, Len(s)) = s /\ SubSeq(u, 1, Len(u)) = u BY <1>1, <1>2
    <3>2. QED BY <1>1, <1>2, <1>6, <2>3, <3>1 DEF IsPrefix
  <2>4. QED BY <1>2, <2>1, <2>2, <2>3
<1>7. QED BY <1>3, <1>5, <1>6 DEF u

ParentOf(a) == {p \in accounts : p.id = a.parent}

\* The accounts in every set that holds b and the parents of its members.
Holds(b, set) == b \in set /\ \A c \in set : ParentOf(c) \subseteq set
Closure(b) == {a \in accounts : \A set \in SUBSET accounts : Holds(b, set) => a \in set}

LEMMA ClosureIsRecursive ==
  ASSUME NEW b \in accounts
  PROVE  Closure(b) = {b} \cup UNION {Closure(p) : p \in ParentOf(b)}
<1> DEFINE Y == {b} \cup UNION {Closure(p) : p \in ParentOf(b)}
<1>1. Y \subseteq Closure(b)
  <2>1. b \in Closure(b) BY DEF Closure, Holds
  <2>2. ASSUME NEW p \in ParentOf(b), NEW a \in Closure(p) PROVE a \in Closure(b)
    <3>1. \A set : Holds(b, set) => Holds(p, set) BY DEF Holds
    <3>2. QED BY <3>1 DEF Closure
  <2>3. QED BY <2>1, <2>2
<1>2. Holds(b, Y) /\ Y \subseteq accounts
  <2>1. \A p \in ParentOf(b) : p \in accounts /\ p \in Closure(p)
    BY DEF Closure, Holds, ParentOf
  <2>2. \A p \in ParentOf(b) : \A c \in Closure(p) : ParentOf(c) \subseteq Closure(p)
    BY DEF Closure, Holds, ParentOf
  <2>3. \A p \in ParentOf(b) : Closure(p) \subseteq accounts BY DEF Closure
  <2>4. \A c \in Y : ParentOf(c) \subseteq Y BY <2>1, <2>2
  <2>5. QED BY <2>3, <2>4 DEF Holds
<1>3. Closure(b) \subseteq Y
  <2> HIDE DEF Y
  <2>1. QED BY <1>2 DEF Closure
<1>4. QED BY <1>1, <1>3

\* A set of naturals has a least element.
LEMMA NatMinimum ==
  ASSUME NEW S, S \subseteq Nat, S # {}
  PROVE  \E n \in S : \A k \in S : n <= k
<1> DEFINE R == {ss \in Nat \X Nat : ss[1] < ss[2]}
<1>1. R = OpToRel(<, Nat) BY DEF OpToRel
<1>2. IsWellFoundedOn(R, Nat) BY <1>1, NatLessThanWellFounded
<1>3. \A j, k \in Nat : j < k => <<j, k>> \in R OBVIOUS
<1> HIDE DEF R
<1>4. PICK n \in S : \A k \in S : <<k, n>> \notin R BY <1>2, WFMin
<1>5. \A k \in S : ~(k < n) BY <1>3, <1>4
<1>6. QED BY <1>5

\* The two halves of the claim, for an account b and the accounts above it.
Begin(b, above) ==
  \A a \in above : a \in accounts /\ a.tenant = b.tenant /\ IsPrefix(a.path, b.path)
Complete(b, above) ==
  (\A c \in above : Len(c.code) = 1) =>
    \A a \in accounts :
      a.tenant = b.tenant /\ Len(a.code) = 1 /\ IsPrefix(a.path, b.path) => a \in above

\* They hold of a root.
LEMMA RootIsRight ==
  ASSUME TypeOK, CodesUnique, ParentsAgree, RootPaths,
         NEW b \in accounts, b.parent = NoParent
  PROVE  Begin(b, {b}) /\ Complete(b, {b})
<1>1. b.path \in Seq(Pieces) /\ b.path = b.code BY PathsOfRows DEF RootPaths, Root
<1>2. Begin(b, {b}) BY <1>1, PrefixOfExtension DEF Begin
<1>3. ASSUME Len(b.code) = 1, NEW a \in accounts, a.tenant = b.tenant, Len(a.code) = 1,
             IsPrefix(a.path, b.path)
      PROVE  a = b
  <2>1. a.path \in Seq(Pieces) /\ Len(a.path) \in Nat \ {0} BY PathsOfRows
  <2>2. Len(b.path) = 1 /\ Len(a.path) = 1 BY <1>1, <1>3, <2>1 DEF IsPrefix
  <2>3. SubSeq(a.path, 1, 1) = a.path /\ SubSeq(b.path, 1, 1) = b.path
    BY <1>1, <2>1, <2>2
  <2>4. a.path = b.path BY <1>3, <2>2, <2>3 DEF IsPrefix
  <2>5. QED BY <1>3, <2>4, PlainPathsUnique
<1>4. QED BY <1>2, <1>3 DEF Complete

\* They hold of an account if they hold of its parent.
LEMMA ChildIsRight ==
  ASSUME TypeOK, CodesUnique, ParentsAgree, RootPaths,
         NEW b \in accounts, NEW p \in accounts, HangsBelow(b, p),
         NEW above, Begin(p, above), Complete(p, above)
  PROVE  Begin(b, {b} \cup above) /\ Complete(b, {b} \cup above)
<1>1. /\ b.path \in Seq(Pieces) /\ p.path \in Seq(Pieces) /\ b.code \in Seq(Pieces)
      /\ b.path = p.path \o b.code /\ p.tenant = b.tenant
  BY PathsOfRows DEF HangsBelow
<1>2. \A a \in accounts :
        /\ IsPrefix(b.path, b.path)
        /\ IsPrefix(a.path, p.path) => IsPrefix(a.path, b.path)
        /\ Len(b.code) = 1 /\ IsPrefix(a.path, b.path)
             => IsPrefix(a.path, p.path) \/ a.path = b.path
  <2> SUFFICES ASSUME NEW a \in accounts
               PROVE  /\ IsPrefix(b.path, b.path)
                      /\ IsPrefix(a.path, p.path) => IsPrefix(a.path, b.path)
                      /\ Len(b.code) = 1 /\ IsPrefix(a.path, b.path)
                           => IsPrefix(a.path, p.path) \/ a.path = b.path
    OBVIOUS
  <2>1. a.path \in Seq(Pieces) BY PathsOfRows
  <2>2. IsPrefix(b.path, b.path)
    <3>1. \A s \in Seq(Pieces) : IsPrefix(s, s) BY PrefixOfExtension
    <3>2. QED BY <1>1, <3>1
  <2>3. /\ IsPrefix(a.path, p.path) => IsPrefix(a.path, p.path \o b.code)
        /\ Len(b.code) = 1 /\ IsPrefix(a.path, p.path \o b.code)
             => IsPrefix(a.path, p.path) \/ a.path = p.path \o b.code
    <3>1. \A s, t, code \in Seq(Pieces) :
            /\ IsPrefix(s, t) => IsPrefix(s, t \o code)
            /\ Len(code) = 1 /\ IsPrefix(s, t \o code) => IsPrefix(s, t) \/ s = t \o code
      BY PrefixOfExtension
    <3>2. QED BY ONLY <1>1, <2>1, <3>1, Zenon
  <2>4. QED BY <1>1, <2>2, <2>3
<1>3. Begin(b, {b} \cup above) BY <1>1, <1>2 DEF Begin
<1>4. Complete(b, {b} \cup above)
  BY <1>1, <1>2, PlainPathsUnique DEF Complete
<1>5. QED BY <1>3, <1>4

\* The state form of the theorem below.
LEMMA PathTellsAncestors ==
  ASSUME TypeOK, IdsUnique, CodesUnique, ParentsAgree, RootPaths
  PROVE  PathIsHierarchy
<1> DEFINE Solves(f) ==
      f = [a \in accounts |-> {a} \cup UNION {f[p] : p \in ParentOf(a)}]
<1>1. Solves([b \in accounts |-> Closure(b)])
  <2> DEFINE C == [b \in accounts |-> Closure(b)]
  <2>1. \A b \in accounts : {C[p] : p \in ParentOf(b)} = {Closure(p) : p \in ParentOf(b)}
    BY DEF ParentOf
  <2>2. \A b \in accounts : C[b] = {b} \cup UNION {C[p] : p \in ParentOf(b)}
    BY <2>1, ClosureIsRecursive
  <2>3. QED BY <2>2
<1>2. ASSUME NEW f, Solves(f)
      PROVE  \A b \in accounts : Begin(b, f[b]) /\ Complete(b, f[b])
  <2>1. \A b \in accounts : f[b] = {b} \cup UNION {f[p] : p \in ParentOf(b)} BY <1>2
  <2> DEFINE Wrong == {b \in accounts : ~(Begin(b, f[b]) /\ Complete(b, f[b]))}
             Lengths == {Len(b.path) : b \in Wrong}
  <2>2. SUFFICES ASSUME Wrong # {} PROVE FALSE OBVIOUS
  <2>3. \A b \in accounts : Len(b.path) \in Nat BY PathsOfRows
  <2>4. Lengths \subseteq Nat /\ Lengths # {} BY <2>2, <2>3
  <2>5. PICK n \in Lengths : \A k \in Lengths : n <= k
    <3> HIDE DEF Lengths
    <3>1. QED BY <2>4, NatMinimum
  <2>6. PICK b \in Wrong : Len(b.path) = n BY <2>5
  <2>7. CASE b.parent = NoParent
    <3>1. ParentOf(b) = {} BY <2>7, NoParentAssumption DEF ParentOf, TypeOK, Account
    <3>2. f[b] = {b} BY <2>1, <3>1
    <3>3. QED BY <2>7, <3>2, RootIsRight
  <2>8. CASE b.parent # NoParent
    <3>1. PICK p \in accounts : HangsBelow(b, p) BY <2>8 DEF ParentsAgree, HangsBelow
    <3>2. ParentOf(b) = {p} BY <3>1 DEF ParentOf, HangsBelow, IdsUnique
    <3>3. Len(p.path) < Len(b.path)
      <4>1. /\ p.path \in Seq(Pieces) /\ b.code \in Seq(Pieces) /\ Len(b.code) \in Nat \ {0}
            /\ b.path = p.path \o b.code
        BY <3>1, PathsOfRows DEF HangsBelow
      <4> DEFINE s == p.path
                 t == b.code
                 u == b.path
      <4>2. s \in Seq(Pieces) /\ t \in Seq(Pieces) /\ u = s \o t /\ Len(t) \in Nat \ {0}
        BY <4>1
      <4> HIDE DEF s, t, u
      <4>3. Len(u) = Len(s) + Len(t) /\ Len(s) \in Nat BY <4>2, Extension
      <4>4. Len(s) < Len(u) BY <4>2, <4>3
      <4>5. QED BY <4>4 DEF s, u
    <3>4. p \notin Wrong BY <2>3, <2>5, <2>6, <3>3
    <3>5. Begin(p, f[p]) /\ Complete(p, f[p]) BY <3>4
    <3>6. f[b] = {b} \cup f[p] BY <2>1, <3>2
    <3>7. QED BY <3>1, <3>5, <3>6, ChildIsRight
  <2>9. QED BY <2>7, <2>8
<1> DEFINE above == CHOOSE f : Solves(f)
<1>3. Solves(above)
  <2> HIDE DEF Solves
  <2>1. QED BY <1>1
<1>4. above = CHOOSE f : f = [a \in accounts |-> {a} \cup UNION {f[p] : p \in ParentOf(a)}]
  OBVIOUS
<1> HIDE DEF above, Solves
<1>5. \A b \in accounts : Begin(b, above[b]) /\ Complete(b, above[b])
  BY <1>2, <1>3
<1>6. \A a, b \in accounts :
        /\ a \in above[b] => a.tenant = b.tenant /\ IsPrefix(a.path, b.path)
        /\ /\ a.tenant = b.tenant /\ IsPrefix(a.path, b.path)
           /\ Len(a.code) = 1 /\ \A c \in above[b] : Len(c.code) = 1
           => a \in above[b]
  BY <1>5 DEF Begin, Complete
<1>7. QED BY <1>4, <1>6 DEF PathIsHierarchy, ParentOf
-----------------------------------------------------------------------------
\* Rows and requests have their types in every reachable state.
THEOREM TypeCorrect == Spec => []TypeOK
BY Invariant, PTL

\* An account hangs below one of its own tenant and currency whose path its own
\* continues, although the parent was read in a statement before the insert.
THEOREM ParentsDoAgree == Spec => []ParentsAgree
<1>1. IInv => ParentsAgree BY DEF IInv
<1>2. QED BY <1>1, Invariant, PTL

\* An initialisation that answered 200 left every system account, for any list of
\* them, although it inserts them without a transaction.
THEOREM InitializationIsComplete == Spec => []InitializedHasAll
<1>1. IInv => InitializedHasAll BY DEF IInv
<1>2. QED BY <1>1, Invariant, PTL

\* The path of an account tells its ancestors, for trees of any depth and codes
\* with any slashes: the paths of the accounts above begin its own, and where no
\* code involved has a slash only theirs do, although the parent is read long
\* before the row is inserted.
THEOREM PathsTellAncestors == Spec => []PathIsHierarchy
<1>1. TypeOK /\ IInv /\ IdInv => PathIsHierarchy
  BY PathTellsAncestors DEF IInv, IdInv
<1>2. QED BY <1>1, Invariant, IdInvariant, PTL
=============================================================================
