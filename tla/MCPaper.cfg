SPECIFICATION Spec
CONSTANTS
  mcp = mcp
  cli = cli
  Callers = {mcp, cli}
  Loop = Loop
  Requests <- MCRequests
  Contracts <- MCContracts
  RiskLimits <- MCLimits
  Equity <- MCEquity
  Losses <- MCLosses
  DotenvAtStart = "unset"
  Infinity = 1000000
  MaxQueue = 2
  BatchSize = 2
  LoopAmounts <- MCLoopAmounts
  MaxCalls = 2
  MaxBatches = 3
  MaxSecond = 1
  MaxResting = 1
  MaxFaults = 1
SYMMETRY MCSymmetry
INVARIANTS
  TypeOK
  OrdersAreOwn
  BatchesAccounted
  LateOrdersBounded
  OverrunBounded
CHECK_DEADLOCK FALSE
