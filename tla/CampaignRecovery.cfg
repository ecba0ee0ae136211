SPECIFICATION Spec
CONSTANTS
  Deliveries = {d1}
  Audience = {d1}
  Senders = 2
  Consumers = {c1}
  Dispatch = Dispatch
  Page = 1
  BatchSize = 1
  FailAfter = 1
  MaxTries = 2
  Controls <- AllControls
  MaxControls = 3
  MaxReplays = 1
  MaxEvents = 1
  MaxFaults = 1
  MaxCrashes = 1
INVARIANTS
  TypeOK
  AcceptedOnce
  SentIsAccepted
  RetryIsSafe
\* Jobs, controls and faults run out.
CHECK_DEADLOCK FALSE
