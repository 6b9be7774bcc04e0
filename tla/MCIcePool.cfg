SPECIFICATION FairSpec
CONSTANTS
  RequestWorkers = {r1, r2, r3}
  CommandWorkers = {}
  LBWorkers = {}
  NumRequests = 5
  JobOf <- Jobs5
  MaxQueries = 0
  MaxRenewals = 0
  LBLimit = 0
  CanStop = FALSE
  None = None
INVARIANT
  OnePerJob
PROPERTIES
  EveryRequestExecuted
  JobOrder
CHECK_DEADLOCK FALSE
