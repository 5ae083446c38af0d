SPECIFICATION IngestSpec
CONSTANTS
  Hash <- MCHash
  NoHash = NoHash
  Event <- MCEvent
  Block <- MCBlock
  Candidate <- MCCandidate
  Depth <- MCDepth
  Height <- MCHeight
  MaxCandidate = 2
PROPERTIES
  FinalizedKept
  LogRefined
