SPECIFICATION PipelineSpec
CONSTANTS
  r1 = r1
  r2 = r2
  j1 = j1
  j2 = j2
  Messages = {1, 2}
  Actors = {1, 2}
  ActorOf <- OneActorEach
  Requests <- TwoRequests
  Jobs <- TwoJobs
  Deliverers = {}
  Destinations <- NoDestination
  IdOf <- OneEvent
  Lag = 1
  DedupWindow = 1
  RotationPage = 1
  PruneBatch = 1
  BatchSize = 1
  MaxFlight = 0
  MaxResend = 2
  MaxTime = 3
  MaxQueue = 1
  MaxAge = 2
  MaxTransit = 0
SYMMETRY Interchangeable
INVARIANTS
  NothingLost
  CountedOnce
  OnceInTheStore
