SPECIFICATION FairSpec
CONSTANTS
  r1 = r1
  r2 = r2
  None = None
  Rs = {r1, r2}
  Keyed = {r1, r2}
  Lifecycles <- MCLifecycles
  ErrorLimit = 1
  MaxEvents = 2
  MaxStops = 1
CHECK_DEADLOCK FALSE
INVARIANT TypeOK
INVARIANT OneStopAtATime
INVARIANT WaitIsWatched
PROPERTY ConfirmedStopIsSettled
PROPERTY StopAnswered
PROPERTY RowsKeepWhatIsKnown
