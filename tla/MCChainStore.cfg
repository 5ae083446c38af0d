SPECIFICATION Spec
CONSTANTS
  Hash <- MCHash
  NoHash = NoHash
  Event <- MCEvent
  Block <- MCBlock
  Candidate <- MCCandidate
  Depth <- MCDepth
  Height <- MCHeight
  MaxCandidate = 3
INVARIANTS
  TypeOK
  GapFree
  FinalityIsPrefix
  StateIsReplay
  ReconcileSound
PROPERTY RejectedLeavesStore
