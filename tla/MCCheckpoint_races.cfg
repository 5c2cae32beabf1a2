SPECIFICATION FairSpec
CONSTANTS
  MaxClock = 3
  MaxFailures = 1
  MaxProcesses = 2
CHECK_DEADLOCK FALSE
INVARIANT TypeOK
INVARIANT PendingGenerationIsAwaited
PROPERTY EditsAreKept
PROPERTY SuccessIsWrittenBack
PROPERTY PendingIsWritten
PROPERTY CheckpointsMoveForward
