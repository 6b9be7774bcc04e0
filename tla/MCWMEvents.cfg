\* Two workers, a valid and an invalid request, the replanner as periodic event;
\* the valid request may have been found by recovery.
SPECIFICATION LiveSpec
CONSTANTS
  Workers = {w1, w2}
  Requests = {submit, bad}
  Cancels = {}
  Invalid = {bad}
  Periodics = {replanner}
  Replanner = {replanner}
  QueueSize = 2
  LongDelay = 2
  PostponeDelay = 1
  Horizon = 1
  MaxFaults = 1
  HaveIsmThreads = TRUE
INVARIANTS NoLostWakeup TimerArmed StopWakesAll NoRequestLost ExecutedAlone
PROPERTIES EveryRequestServed StopEnds
