SPECIFICATION Spec
CONSTANTS
  Hash <- MCHash
  NoHash = NoHash
  Event <- MCEvent
  Block <- MCBlock
  Known <- MCKnown
  NumberOf <- MCNumberOf
  ParentOf <- MCParentOf
  LogsOf <- MCLogsOf
  Genesis = "g"
  StartBlock = 1
  RetainedDepth = 1
  BackfillMaxRange = 2
  LiveQueueSize = 1
  EntryPoints = {"backfill"}
  MaxProviderSteps = 2
INVARIANT ReplayMatchesChain
CHECK_DEADLOCK FALSE
