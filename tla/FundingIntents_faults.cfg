CONSTANTS
  Requests = {i1, i2}
  Calls = {c1, c2}
  Tenants = {default, other}
  DefaultTenant = default
  Keys = {k1, k2}
  Amounts = {0, 1, 2}
  Currencies = {gbp, eur}
  Methods = {"OPEN_BANKING", "SEPA"}
  Windows = {w1, w2}
  Null = Null
  Faults = TRUE
CHECK_DEADLOCK FALSE
SPECIFICATION Spec
INVARIANTS TypeOK OneIntentPerKey SettlementIsBacked CreditsAreMatched
SYMMETRY Symmetry
