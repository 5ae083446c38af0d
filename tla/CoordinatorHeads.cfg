SPECIFICATION HeadsSpec
CONSTANTS
  Hash <- MCHash
  NoHash = NoHash
  Event <- MCEvent
  Block <- MCBlock
  Known <- MCKnown
  NumberOf <- MCNumberOf
  ParentOf <- MCParentOf
  LogsOf <- MCLogsOf
  Genesis = "g"
  StartBlock = 1
  RetainedDepth = 1
  BackfillMaxRange = 2
  LiveQueueSize = 1
  EntryPoints = {"backfill"}
  MaxProviderSteps = 3
PROPERTY DuplicateHeadsHarmless
CHECK_DEADLOCK FALSE
