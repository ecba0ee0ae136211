SPECIFICATION Spec
CHECK_DEADLOCK FALSE
CONSTANTS
  Keys = {k1, k2}
  Requests = {r1, r2, r3}
  Bodies = {b1, b2}
  Responses = {done, rejected}
  Ok = {done}
  Unavailable = unavailable
  Nothing = nothing
  MaxSends = 4
  MaxToggles = 2
  MaxFaults = 1
SYMMETRY RequestSymmetry
INVARIANTS
  TypeOK
  AnswersAgree
  OutboxFollowsRows
  DisabledOwesNothing
PROPERTY KeepsPromise
