\* Every operation; the process may die after any write.
SPECIFICATION Spec
CONSTANTS
  Ops = {"add", "first", "remove", "only", "update", "truncate", "compact"}
  MaxOps = 5
  MaxCrashes = 1
INVARIANTS Atomic WellFormed Recovers
CHECK_DEADLOCK FALSE
