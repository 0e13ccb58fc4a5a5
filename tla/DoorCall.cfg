SPECIFICATION SpecGranted
CONSTANTS
  r1 = r1
  r2 = r2
  laptop = laptop
  desktop = desktop
  priya = priya
  Requests <- TwoRequests
  Tokens <- TwoTokens
  Subjects <- AllSubjects
  OwnerOf <- PriyaOwnsBoth
  NumAgents = 2
  Ceiling = 2
  SpendCeiling = 1
  Replicas = 1
  MaxCost = 1
  MaxCalls = 3
  MaxDay = 1
  MaxTroubles = 1
SYMMETRY Symmetry
INVARIANTS PooledCeiling EveryRunRecorded AuthorityIsCurrent SpendOvershootBounded
PROPERTY ImplementsLedger
CHECK_DEADLOCK FALSE
