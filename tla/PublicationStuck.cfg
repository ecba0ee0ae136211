SPECIFICATION Spec
CONSTANTS
  i1 = i1
  i2 = i2
  Intents = {i1}
  Versions = {1}
  None = None
  Foreign = Foreign
  MaxAttempts = 2
  LateWrites = FALSE
  MaxCrashes = 0
  MaxRestarts = 1
  MaxForeign = 0
INVARIANTS
  PublishingIsRecoverable
\* Workflows end and the bounded requests run out.
CHECK_DEADLOCK FALSE
