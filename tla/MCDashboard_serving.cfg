SPECIFICATION FairSpec
CONSTANTS
  MaxTunnels = 2
  FailureThreshold = 2
  Dashboards = 3
  QueueSize = 1
  MaxEvents = 2
  MaxIncidents = 2
INVARIANTS
  TypeOK
  DashboardsAreLinked
  NothingOutlivesTheService
PROPERTIES
  NothingSkipped
  PageCatchesUp
CHECK_DEADLOCK FALSE
