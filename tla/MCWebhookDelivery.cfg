\* Two overlapping calls of retryPending.
\* The system stops where every delivery is settled.
CHECK_DEADLOCK FALSE
SPECIFICATION FairSpec
CONSTANTS
  Events = {e1}
  Webhooks = {h1}
  Runs = {r1, r2}
  MaxAttempts = 3
  Batch = 1
  MaxFaults = 1
  NoRequest = NoRequest
INVARIANTS
  TypeOK
  GivenUpLate
  SuccessWasAccepted
PROPERTIES
  ClosedStays
  DeliveriesSettle
