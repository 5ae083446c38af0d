SPECIFICATION Spec
CONSTANTS
  FloatMax = 3
  MaxSeconds = 3
  None = None
  Market = "m"
  FlowWindow = 2
  Update <- MCUpdate
  Point <- MCPoint
  MaxUpdates = 3
  MaxExactInteger = 0
  NanoLimit = 3
INVARIANTS
  PointInTime
  FlowIsExact
  ConsumersAccept
CHECK_DEADLOCK FALSE
