CONSTANTS
  p1 = p1
  accepted = accepted
  rejected = rejected
  statement = statement
  Payments = {p1}
  Recalls = {c1}
  Returns = {n1}
  KeepsIntent = TRUE
  Faults = TRUE
  Null = Null
  Files = {accepted, rejected, statement}
  Content <- ThreeFiles
  Foreign = Foreign
  Ingesters = {g1, g2}
  MaxCrashes = 1
CHECK_DEADLOCK FALSE
SPECIFICATION Spec
INVARIANTS TypeOK AppliedOnce CountIsTrue
PROPERTIES ImplementsBankTransfers
SYMMETRY Symmetry
