SPECIFICATION Spec
CONSTANTS
  Jobs = {j1, j2}
  Queries = {q1, q2}
  Loggers = {l1}
  MaxCrashes = 0
  MaxRecycles = 0
  Replanned = {}
  Cancelled = {j1}
  LostReplies = FALSE
  Expiring = {}
  BetterExpires = FALSE
  Purgeable = {}
  FailBlacklisted = TRUE
  PurgeJobs = TRUE
  LBLimit = 0
  NoProxy = NoProxy
  Nobody = Nobody
SYMMETRY SymmetricQueries
INVARIANTS TypeOK GivenBackOnce NotForgotten ResubmittedDead
CHECK_DEADLOCK FALSE
