SPECIFICATION ProgressSpec
CONSTANTS
  r1 = r1
  r2 = r2
  j1 = j1
  j2 = j2
  p1 = p1
  p2 = p2
  Messages = {1}
  Actors = {1}
  ActorOf <- OneActorEach
  Requests = {r1}
  Jobs = {j1}
  Deliverers = {p1}
  Destinations <- TwoDestinations
  Lag = 1
  DedupWindow = 1
  RotationPage = 1
  PruneBatch = 1
  BatchSize = 1
  MaxFlight = 0
  MaxResend = 1
  MaxTime = 2
PROPERTIES
  EventuallyForwarded
  RawIsPruned
  EventuallyRotated
