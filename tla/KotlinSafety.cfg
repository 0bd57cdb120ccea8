SPECIFICATION Spec
CONSTANTS
  t1 = t1
  f1 = f1
  f2 = f2
  Trackers <- MCTrackers
  Flushers <- OneFlusher
  MaxQueue = 2
  MaxAge = 0
  FlushAt = 2
  FlushInterval = 1
  MaxBatchEvents = 2
  MaxBatchBytes = 3
  FirstDelay = 1
  LongestDelay = 2
  Sizes = {1, 2}
  Statuses = {202, 413, 429, 503}
  MaxTime = 1
  MaxPerCall = 2
  MaxEvents = 3
  MaxRestarts = 1
  MaxFailures = 2
  Advices = {0}
  ClockJumps = TRUE
  StorageFails = TRUE
PROPERTY KeepsPromise
INVARIANTS
  SettledOnce
  BatchIsHeadOfQueue
