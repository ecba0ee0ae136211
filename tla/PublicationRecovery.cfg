SPECIFICATION FairSpec
CONSTANTS
  i1 = i1
  i2 = i2
  Intents = {i1}
  Versions = {1}
  None = None
  Foreign = Foreign
  MaxAttempts = 2
  LateWrites = FALSE
  MaxCrashes = 1
  MaxRestarts = 1
  MaxForeign = 1
INVARIANTS
  TypeOK
  PublishedIsProved
  RefusedIsNotReleased
  ConflictIsForeign
PROPERTIES
  KeepsPromise
  OperationsEnd
  WorkflowsEnd
\* Workflows end and the bounded requests run out.
CHECK_DEADLOCK FALSE
