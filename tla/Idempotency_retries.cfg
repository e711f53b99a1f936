CONSTANTS
  Requests = {r1, r2, r3}
  Keys = {k1}
  NoKey = NoKey
  Tenants = {t1, t2}
  MaxLapses = 1
  Faults = TRUE
  None = None
CHECK_DEADLOCK FALSE
SPECIFICATION Spec
INVARIANTS SuccessIsTrue RepeatsAreNotRun
SYMMETRY Symmetry
