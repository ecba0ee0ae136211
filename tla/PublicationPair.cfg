SPECIFICATION Spec
CONSTANTS
  i1 = i1
  i2 = i2
  Intents = {i1, i2}
  Versions = {1, 2}
  None = None
  Foreign = Foreign
  MaxAttempts = 1
  LateWrites = FALSE
  MaxCrashes = 0
  MaxRestarts = 0
  MaxForeign = 0
INVARIANTS
  ReservationExcludes
  OneBaseline
SYMMETRY Symmetry
\* Workflows end and the bounded requests run out.
CHECK_DEADLOCK FALSE
