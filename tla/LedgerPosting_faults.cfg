CONSTANTS
  cash = cash
  alice = alice
  bob = bob
  carol = carol
  ghost = ghost
  AccountIds = {cash, alice, bob, carol, ghost}
  Accounts = {cash, alice, bob, carol}
  DebitNormal = {cash}
  Requests = {r1, r2}
  Inputs <- FaultyInputs
  Readers = {g1}
  MaxClock = 1
  Faults = TRUE
  ReasonNullable = FALSE
  LateRowsTracked = TRUE
  BlankUserKnown = TRUE
  Int64Half = 4
  Null = Null
  g1 = g1
CHECK_DEADLOCK FALSE
SPECIFICATION Spec
INVARIANTS TypeOK PostedAllOrNothing AnswerIsTruth ReadIsConsistent IInv
PROPERTIES LedgerAppendOnly ImplementsSerialPosting
SYMMETRY RequestSymmetry
