CONSTANTS
  Txns = {t1}
  Captures = {c1}
  Refunds = {r1}
  Instances = {n1, n2}
  AutoCapture = FALSE
  CanFail = TRUE
  None = None
  Requests = {i1}
  Amounts = {0, 1}
  Currencies = {gbp}
  Methods = {"OPEN_BANKING", "CARD"}
  Windows = {w1}
  Tenant = tenant
CHECK_DEADLOCK FALSE
SPECIFICATION Spec
INVARIANTS TypeOK PostedIsCaptured ReversedIsChargedBack RequestsAreBacked
SYMMETRY Symmetry
