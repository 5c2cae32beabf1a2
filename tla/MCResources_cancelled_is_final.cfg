SPECIFICATION Spec
CONSTANTS
  r1 = r1
  r2 = r2
  None = None
  Rs = {r1}
  Keyed = {r1}
  Lifecycles <- MCLifecycles
  ErrorLimit = 1
  MaxEvents = 1
  MaxStops = 1
CHECK_DEADLOCK FALSE
PROPERTY CancelledIsFinal
