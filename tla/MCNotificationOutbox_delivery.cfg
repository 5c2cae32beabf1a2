SPECIFICATION FairSpec
CONSTANTS
  hook = hook
  ntfy = ntfy
  Off = Off
  c1 = c1
  c2 = c2
  Destinations = {hook}
  Credentials = {c1, c2}
  MaxAttempts = 2
  MaxRouting = 2
  Keep = 1
  QueueSize = 1
  MaxEpochs = 1
  MaxFailures = 1
  MaxNotices = 2
  MaxChanges = 1
  MaxFaults = 1
CHECK_DEADLOCK FALSE
INVARIANT TypeOK
INVARIANT NothingOwedIsLost
INVARIANT DrainedIsSettled
PROPERTY OwedIsSettled
PROPERTY ImplementsNotices
INVARIANT RowsAgree
