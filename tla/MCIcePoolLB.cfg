SPECIFICATION Spec
CONSTANTS
  RequestWorkers = {}
  CommandWorkers = {c1, c2}
  LBWorkers = {l1}
  NumRequests = 0
  JobOf <- Jobs0
  MaxQueries = 3
  MaxRenewals = 1
  LBLimit = 0
  CanStop = TRUE
  None = None
INVARIANTS
  LBQueueBounded
  NobodyWaitsForStopped
CHECK_DEADLOCK FALSE
