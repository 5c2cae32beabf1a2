SPECIFICATION FairSpec
CONSTANTS
  NumCells = 1
  CodeCells = {0}
  Kinds = {"resume", "restart", "stop_resource"}
  MaxActions = 1
  MaxEdits = 0
  MaxProcesses = 2
  MaxSignals = 1
CHECK_DEADLOCK FALSE
INVARIANT TypeOK
INVARIANT TerminalEventMatchesRun
INVARIANT PausedRunnerIsReachable
PROPERTY TerminalLeftOnlyByRestart
PROPERTY ExecutingCancellationSettles
PROPERTY ActionsSettle
PROPERTY CancellationIsKept
