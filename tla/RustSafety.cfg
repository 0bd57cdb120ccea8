SPECIFICATION Spec
CONSTANTS
  c1 = c1
  c2 = c2
  Callers <- MCCallers
  MaxQueue = 2
  MaxAge = 1
  FlushAt = 2
  FlushInterval = 1
  MaxBatchEvents = 2
  MaxBatchBytes = 3
  FirstDelay = 1
  LongestDelay = 2
  Sizes = {1, 2}
  Statuses = {202, 413, 503}
  MaxTime = 2
  MaxPerCall = 2
  MaxEvents = 3
  MaxFailures = 2
  Advices = {0, 2}
SYMMETRY CallerSymmetry
INVARIANTS
  OneFlight
  BatchIsHeadOfQueue
  RetryWaits
  SentInOrder
PROPERTY KeepsPromise
