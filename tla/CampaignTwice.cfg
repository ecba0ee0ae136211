SPECIFICATION Spec
CONSTANTS
  Deliveries = {d1}
  Audience = {d1}
  Senders = 2
  Consumers = {c1}
  Dispatch = Dispatch
  Page = 1
  BatchSize = 1
  FailAfter = 1
  MaxTries = 2
  Controls = {"start"}
  MaxControls = 1
  MaxReplays = 0
  MaxEvents = 0
  MaxFaults = 1
  MaxCrashes = 0
INVARIANT SentOnce
\* Jobs, controls and faults run out.
CHECK_DEADLOCK FALSE
