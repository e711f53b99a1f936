CONSTANTS
  Int64Half = 64
  Significand = 32
  Beyond <- LeastInt64
  Whole = 10
  Amounts <- Int64
  Parts <- UpToFour
  Divisors <- SmallDivisors
  BasisPoints <- Points
  Ratios <- SmallRatios
CHECK_DEADLOCK FALSE
SPECIFICATION Calls
INVARIANTS AllocationsAddUp ResultsAreNearest
