SPECIFICATION FairSpec
CONSTANTS
  a = a
  b = b
  c = c
  here = here
  there = there
  NoProc = NoProc
  Procs = {a, b, c}
  Hosts = {here, there}
  HostOf <- TwoHosts
  Crashers = {a, b, c}
CHECK_DEADLOCK FALSE
INVARIANT TypeOK
PROPERTY LockSafety
PROPERTY LockProgress
