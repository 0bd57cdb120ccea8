SPECIFICATION FairSpec
CONSTANTS
  t1 = t1
  f1 = f1
  f2 = f2
  Trackers <- MCTrackers
  Flushers <- TwoFlushers
  MaxQueue = 2
  MaxAge = 3
  FlushAt = 2
  FlushInterval = 1
  MaxBatchEvents = 2
  MaxBatchBytes = 3
  FirstDelay = 1
  LongestDelay = 2
  Sizes = {1}
  Statuses = {202, 413, 503}
  MaxTime = 2
  MaxPerCall = 1
  MaxEvents = 2
  MaxRestarts = 1
  MaxFailures = 2
  Advices = {0}
  ClockJumps = FALSE
  StorageFails = FALSE
PROPERTIES
  FlushReturns
  EventuallyLeaves
  FlushPostcondition
