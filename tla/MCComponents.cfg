SPECIFICATION Spec
CONSTANTS
  Infinity = 1000000
  MaxRetries = 3
  Events <- MCEvents
  MaxLines = 4
  Base = 2
  Magic = 6
  Version = 1
  Kinds = {1, 2}
  MaxFrames = 3
  Policies = {p1, p2, p3}
  First = p1
  Rewards <- MCRewards
  MaxFall = 1
  MinObservations = 1
  MinAdvantage = 1
  MaxOutcomes = 2
  Agents <- MCAgents
  Sorted <- MCSorted
  Clients = {c1, c2}
  Workers = 1
  Pages <- MCPages
  Tasks = {t1, t2}
  MaxVersion = 2
  Symbols = {"X"}
  Calls = {q1, q2}
  MaxAge = 1
  MaxTime = 4
  MaxFeed = 2
INVARIANTS
  BridgeInOrder
  OnePolicyTrades
  NativeAgrees
  ResearchLeaksNothing
  MarketSettles
PROPERTIES
  StreamRunEnds
  StoreIsHashChain
  PoolAnswers
CHECK_DEADLOCK FALSE
