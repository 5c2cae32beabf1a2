SPECIFICATION Spec
CONSTANTS
  a = a
  b = b
  c = c
  here = here
  there = there
  NoProc = NoProc
  Procs = {a, b, c}
  Hosts = {here, there}
  HostOf <- OneHost
  Crashers = {a, b, c}
CHECK_DEADLOCK FALSE
INVARIANT MutualExclusion
