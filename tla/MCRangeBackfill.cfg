SPECIFICATION FairSpec
CONSTANTS
  FromBlock = 6
  ToBlock = 15
  MinRange = 2
  MaxRange = 9
  MaxUint = 15
  Log <- MCLog
INVARIANTS
  RequestsTile
  EmittedInOrder
  DoneIsComplete
PROPERTY Terminates
CHECK_DEADLOCK FALSE
