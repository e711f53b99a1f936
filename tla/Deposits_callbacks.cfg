CONSTANTS
  Payments = {p1}
  Callbacks = {c1, c2}
  Subscribers = {s1, s2}
  MaxDeliver = 2
  MaxCrashes = 1
  Faults = TRUE
  None = None
CHECK_DEADLOCK FALSE
SPECIFICATION FairSpec
INVARIANTS TypeOK HandledIsCompleted FailedHasNoDeposit AckedIsHandled
 
