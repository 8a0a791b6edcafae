SPECIFICATION FairSpec
CONSTANTS
  Connection = {k1, k2}
  MaxConcurrent = 1
PROPERTIES
  ExitsWhenRequested
CHECK_DEADLOCK FALSE
