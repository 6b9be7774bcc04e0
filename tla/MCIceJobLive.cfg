\* One job that is replanned and cancelled; replies to the submission get lost.
SPECIFICATION FairSpec
CONSTANTS
  Jobs = {j1}
  Queries = {q1}
  Loggers = {l1}
  MaxCrashes = 0
  MaxRecycles = 0
  Replanned = {j1}
  Cancelled = {j1}
  LostReplies = TRUE
  Expiring = {}
  BetterExpires = FALSE
  Purgeable = {}
  FailBlacklisted = FALSE
  PurgeJobs = FALSE
  LBLimit = 0
  NoProxy = NoProxy
  Nobody = Nobody
INVARIANT CurrentCopy
PROPERTIES EveryJobEnds EveryRowLeaves
CHECK_DEADLOCK FALSE
