SPECIFICATION Spec
CONSTANTS
  p1 = p1  p2 = p2  p3 = p3  kA = kA  kB = kB
  Plugins = {p1, p2, p3}
  Packages = {kA, kB}
  Components <- PairPackages
  Ops = {o1, o2}
  Base = Base
  None = None
  Requests = {r1, r2}
  BusyPlugins = {}
  InitialLocks = {{}, {p3}, {p1, p2}}
  Overrun = FALSE
  MaxTime = 3
  MaxFaults = 2
  MaxConsole = 0
INVARIANTS
  TypeOK
  OneOperation
  ReleaseMatchesLifecycle
  ManifestsFollowLifecycle
  FailureLeavesNoRelease
  SuccessIsPublished
  PackagesFollowLifecycle
PROPERTIES
  FailureRestores
  OutcomeIsFinal
SYMMETRY RequestSymmetry
\* The operation ids of the instance run out.
CHECK_DEADLOCK FALSE
