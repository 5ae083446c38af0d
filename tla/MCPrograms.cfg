SPECIFICATION FairSpec
CONSTANTS
  Settings <- MCSettings
  MaxRuns = 3
  MaxOf <- MCMaxOf
INVARIANTS
  WholeFiles
  ArtifactsInOrder
  NothingLeftBehind
  ExitTellsAll
PROPERTY CancelEnds
CHECK_DEADLOCK FALSE
