CONSTANTS
  assets = assets
  revenue = revenue
  branch = branch
  Tenants = {t1, t2}
  Currencies = {gbp, eur}
  Pieces = {assets, revenue, branch}
  Codes <- FourCodes
  SystemCodes <- TwoSystemCodes
  Creators = {c1, c2}
  Initializers = {i1, i2}
  NoParent = NoParent
  Ghost = Ghost
  Faults = TRUE
CHECK_DEADLOCK FALSE
SPECIFICATION Spec
INVARIANTS TypeOK PathIsHierarchy ParentsAgree InitializedHasAll
SYMMETRY Symmetry
