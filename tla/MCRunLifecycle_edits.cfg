SPECIFICATION Spec
CONSTANTS
  NumCells = 3
  CodeCells = {1, 2}
  Kinds = {"resume", "restart"}
  MaxActions = 2
  MaxEdits = 1
  MaxProcesses = 1
  MaxSignals = 0
CHECK_DEADLOCK FALSE
INVARIANT SuccessIsOfTheSource
PROPERTY RecoveryIsOfItsFailure
