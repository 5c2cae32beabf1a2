SPECIFICATION FairSpec
CONSTANTS
  NumCells = 3
  CodeCells = {0, 1, 2}
  Parents <- MCParents
  Starts = {1}
  Edited = {0, 1}
  MaxEpochs = 2
  MaxProcesses = 2
  MaxActions = 1
  MaxEdits = 1
  MaxFaults = 1
INVARIANTS
  TypeOK
  PausedGraphIsRecoverable
  SuccessIsCurrent
  OneRuntime
PROPERTIES
  CancellationSettles
CHECK_DEADLOCK FALSE
