SPECIFICATION EvaluationSpec
CONSTANTS
  MaxFloat = 1
  Datasets <- MCDatasets
  Configs <- MCConfigs
INVARIANTS
  NoLeakage
  FoldsAreAll
CHECK_DEADLOCK FALSE
