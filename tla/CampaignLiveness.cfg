SPECIFICATION FairSpec
CONSTANTS
  Deliveries = {d1, d2}
  Audience = {d1}
  Senders = 1
  Consumers = {c1, c2}
  Dispatch = Dispatch
  Page = 1
  BatchSize = 2
  FailAfter = 1
  MaxTries = 2
  Controls = {"start", "pause", "subscribe"}
  MaxControls = 2
  MaxReplays = 0
  MaxEvents = 0
  MaxFaults = 0
  MaxCrashes = 0
INVARIANTS
  FinishedIsSettled
  NobodyForgotten
PROPERTIES
  CampaignFinishes
\* Jobs, controls and faults run out.
CHECK_DEADLOCK FALSE
