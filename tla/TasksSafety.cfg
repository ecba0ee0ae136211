SPECIFICATION Spec
CONSTANTS
  Workflows = {w1, w2}
  Leases = {l1, l2}
  Passes = {d1, d2}
  PageSize = 1
  Nothing = Nothing
  MaxAttempts = 1
  MaxToggles = 3
  MaxFaults = 1
INVARIANTS
  TypeOK
  DisabledWritesNothing
  WaiterKept
SYMMETRY TaskSymmetry
\* Workflows complete and operations run out.
CHECK_DEADLOCK FALSE
