CONSTANTS
  Payments = {p1}
  Hooks = {h1, h2}
  Recalls = {c1}
  Returns = {n1}
  Window = 0
  MaxClock = 1
  KeepsIntent = TRUE
  MarksAccepted = TRUE
  MaxCrashes = 1
  Faults = TRUE
  Null = Null
CHECK_DEADLOCK FALSE
SPECIFICATION FairSpec
INVARIANTS TypeOK RecordInv
PROPERTIES ImplementsBankTransfers SettledIsAnnounced
