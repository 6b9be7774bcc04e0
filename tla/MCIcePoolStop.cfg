SPECIFICATION FairSpec
CONSTANTS
  RequestWorkers = {r1}
  CommandWorkers = {}
  LBWorkers = {}
  NumRequests = 2
  JobOf <- Jobs2
  MaxQueries = 0
  MaxRenewals = 0
  LBLimit = 0
  CanStop = TRUE
  None = None
PROPERTY
  StopTerminates
CHECK_DEADLOCK FALSE
