SPECIFICATION FixtureSpec
CONSTANTS
  MarketId = {m1, m2}
  ZeroId = zero
  Time = {1, 2, 3}
  ResolutionTime = {2, 9}
  Reserves <- MCReserves
  Trades <- MCTrades
  NoTrade = None
  None = None
  MaxEvents = 5
  FloatMax = 10
  MaxSeconds = 4
  MaxFloat = 10
  MaxInt64 = 4
  NanoLimit = 4
  FlowWindow = 2
  Contract = "fixture"
  MaxUint64 = 9
  MaxUint256 = 10
INVARIANTS
  MarketLifecycle
  RepliesConverted
  ExportLoads
  ExportIsReference
  RowsAreStable
SYMMETRY Swaps
CHECK_DEADLOCK FALSE
