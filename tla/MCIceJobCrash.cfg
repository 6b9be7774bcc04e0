SPECIFICATION Spec
CONSTANTS
  Jobs = {j1}
  Queries = {q1}
  Loggers = {l1}
  MaxCrashes = 1
  MaxRecycles = 1
  Replanned = {}
  Cancelled = {}
  LostReplies = FALSE
  Expiring = {j1}
  BetterExpires = FALSE
  Purgeable = {j1}
  FailBlacklisted = FALSE
  PurgeJobs = FALSE
  LBLimit = 0
  NoProxy = NoProxy
  Nobody = Nobody
INVARIANT NoEventLost
CHECK_DEADLOCK FALSE
