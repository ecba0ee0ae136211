SPECIFICATION Spec
CONSTANTS
  p1 = p1  p2 = p2  p3 = p3  kA = kA  kB = kB
  Plugins = {p1, p2}
  Packages = {kA, kB}
  Components <- SinglePackages
  Ops = {o1, o2}
  Base = Base
  None = None
  Requests = {r1}
  BusyPlugins = {}
  InitialLocks = {{}, {p1}}
  Overrun = TRUE
  MaxTime = 1
  MaxFaults = 1
  MaxConsole = 1
INVARIANTS
  FailureLeavesNoRelease
  OnlyServedRuns
\* The operation ids of the instance run out.
CHECK_DEADLOCK FALSE
