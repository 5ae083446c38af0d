SPECIFICATION FairSpec
CONSTANTS
  Hash <- MCHash
  NoHash = NoHash
  Event <- MCEvent
  Block <- MCBlock
  Known <- MCKnown
  NumberOf <- MCNumberOf
  ParentOf <- MCParentOf
  LogsOf <- MCLogsOf
  Genesis = "g"
  StartBlock = 1
  RetainedDepth = 1
  BackfillMaxRange = 2
  LiveQueueSize = 1
  EntryPoints = {"backfill", "subscribe"}
  MaxProviderSteps = 3
INVARIANTS
  StoreIsCanonicalRun
  FinalizedAreTheProviders
  EventsBelongToBlock
  CheckpointsAccepted
PROPERTIES
  CommitsAreWhole
  LogImplemented
  ReorgBounded
  CatchesUp
CHECK_DEADLOCK FALSE
