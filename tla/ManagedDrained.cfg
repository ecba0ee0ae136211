SPECIFICATION Spec
CONSTANTS
  p1 = p1  p2 = p2  p3 = p3  kA = kA  kB = kB
  Plugins = {p1, p2}
  Packages = {kA, kB}
  Components <- SinglePackages
  Ops = {o1}
  Base = Base
  None = None
  Requests = {r1}
  BusyPlugins = {p1}
  InitialLocks = {{p1}}
  Overrun = FALSE
  MaxTime = 0
  MaxFaults = 0
  MaxConsole = 1
PROPERTIES
  DrainWaits
\* The operation ids of the instance run out.
CHECK_DEADLOCK FALSE
