\* Two writers with their own ids; the reader and the machine may crash once.
SPECIFICATION FairSpec
CONSTANTS
  w1 = w1
  w2 = w2
  Writers = {w1, w2}
  Requests = {r1, r2}
  None = None
  Id <- DistinctIds
  MaxClock = 2
  MaxCrashes = 1
  MaxPowerFailures = 1
  MaxFaults = 1
INVARIANTS
  NeverPartial
  NoLoss
  ListedStillThere
PROPERTIES
  MailSpec
  EventuallyServed
CHECK_DEADLOCK FALSE
