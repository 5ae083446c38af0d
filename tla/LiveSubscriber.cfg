SPECIFICATION LiveFairSpec
CONSTANTS
  BufferSize = 2
  MaxLogs = 4
INVARIANTS
  NothingLost
  CancelStops
  ErrorReported
PROPERTIES
  Returns
CHECK_DEADLOCK FALSE
