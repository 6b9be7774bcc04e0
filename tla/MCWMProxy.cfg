\* Three server processes; three starts and two cancels; one failure.
SPECIFICATION Spec
CONSTANTS
  Servers = {s1, s2, s3}
  AsyncJobStart = FALSE
  MaxStarts = 3
  MaxCancels = 2
  MaxFaults = 1
  UserPurges = TRUE
  None = None
INVARIANTS DeliveredOnce AcceptedIsSettled
PROPERTIES CancelledNotDelivered
CHECK_DEADLOCK FALSE
