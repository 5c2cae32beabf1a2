SPECIFICATION FairSpec
CONSTANTS
  NumCells = 1
  CodeCells = {0}
  Kinds = {}
  MaxActions = 0
  MaxEdits = 0
  MaxProcesses = 1
  MaxSignals = 1
CHECK_DEADLOCK FALSE
PROPERTY CancellationIsBounded
