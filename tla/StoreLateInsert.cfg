SPECIFICATION Spec
CONSTANTS
  r1 = r1
  r2 = r2
  j1 = j1
  j2 = j2
  p1 = p1
  p2 = p2
  Messages = {1, 2}
  Actors = {1, 2}
  ActorOf <- OneActorEach
  Requests <- TwoRequests
  Jobs = {j1}
  Deliverers = {}
  Destinations <- NoDestination
  Lag = 2
  DedupWindow = 2
  RotationPage = 1
  PruneBatch = 1
  BatchSize = 1
  MaxFlight = 2
  MaxResend = 1
  MaxTime = 3
SYMMETRY Interchangeable
INVARIANTS
  NothingLost
