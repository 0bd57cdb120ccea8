SPECIFICATION Spec
CONSTANTS
  o1 = o1
  o2 = o2
  Objects <- TwoObjects
  MaxQueue = 2
  MaxAge = 0
  FlushAt = 2
  FlushInterval = 1
  MaxBatchEvents = 1
  MaxBatchBytes = 3
  FirstDelay = 1
  LongestDelay = 1
  Sizes = {1}
  Statuses = {202, 413, 503}
  MaxTime = 1
  MaxPerCall = 1
  MaxEvents = 3
  MaxDrains = 1
  MaxFailures = 1
  Advices = {0}
  ClockJumps = TRUE
  StorageFails = TRUE
SYMMETRY ObjectSymmetry
PROPERTY KeepsPromise
INVARIANT BatchIsHeadOfQueue
