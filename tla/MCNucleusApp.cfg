SPECIFICATION FairSpec
CONSTANTS
  Connection = {k1, k2}
  MaxConcurrent = 1
INVARIANTS
  TypeOK
  NoSocketBehind
  ListeningWhileDraining
  CleanExit
PROPERTIES
  ImplementsEndpoint
  SignalEndsRun
  QueuedAreTaken
CHECK_DEADLOCK FALSE
