SPECIFICATION FairSpec
CONSTANTS
  p1 = p1  p2 = p2  p3 = p3  kA = kA  kB = kB
  Plugins = {p1, p2}
  Packages = {kA, kB}
  Components <- SinglePackages
  Ops = {o1, o2}
  Base = Base
  None = None
  Requests = {r1, r2}
  BusyPlugins = {p1, p2}
  InitialLocks = {{}, {p1}}
  Overrun = FALSE
  MaxTime = 3
  MaxFaults = 1
  MaxConsole = 0
PROPERTIES
  OperationsFinish
  DrainWaits
\* The operation ids of the instance run out.
CHECK_DEADLOCK FALSE
