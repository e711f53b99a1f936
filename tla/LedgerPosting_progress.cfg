CONSTANTS
  cash = cash
  alice = alice
  bob = bob
  carol = carol
  ghost = ghost
  AccountIds = {cash, alice, bob, carol, ghost}
  Accounts = {cash, alice, bob, carol}
  DebitNormal = {cash}
  Requests = {r1, r2, r3}
  Inputs <- ProgressInputs
  Readers = {}
  MaxClock = 0
  Faults = FALSE
  ReasonNullable = FALSE
  LateRowsTracked = TRUE
  BlankUserKnown = TRUE
  Int64Half = 8
  Null = Null
CHECK_DEADLOCK FALSE
SPECIFICATION FairSpec
PROPERTIES EveryRequestAnswered CreatedIsPosted
