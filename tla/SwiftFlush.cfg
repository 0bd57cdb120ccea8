SPECIFICATION FairSpec
CONSTANTS
  o1 = o1
  o2 = o2
  Objects <- OneObject
  MaxQueue = 2
  MaxAge = 3
  FlushAt = 2
  FlushInterval = 1
  MaxBatchEvents = 2
  MaxBatchBytes = 3
  FirstDelay = 1
  LongestDelay = 2
  Sizes = {1}
  Statuses = {202, 413, 429, 503}
  MaxTime = 2
  MaxPerCall = 1
  MaxEvents = 2
  MaxDrains = 2
  MaxFailures = 2
  Advices = {0}
  ClockJumps = FALSE
  StorageFails = FALSE
PROPERTIES
  FlushPostcondition
  ReleasedEnds
  EventuallyLeaves
