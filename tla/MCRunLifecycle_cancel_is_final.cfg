SPECIFICATION Spec
CONSTANTS
  NumCells = 2
  CodeCells = {0, 1}
  Kinds = {"resume"}
  MaxActions = 1
  MaxEdits = 0
  MaxProcesses = 2
  MaxSignals = 1
CHECK_DEADLOCK FALSE
INVARIANT PersistedCancellationIsFinal
