SPECIFICATION FairSpec
CONSTANTS
  Request = {r1, r2, r3}
  Caller = {c1, c2}
  Timed = {c1}
  MaxConcurrent = 2
INVARIANTS
  TypeOK
  OpenWhileInFlight
  InFlightExact
  NilMeansReleased
  CloseOrder
PROPERTIES
  TimedShutdownReturns
  ShutdownReturnsAfterHandlers
  ImplementsGracefulService
CHECK_DEADLOCK FALSE
