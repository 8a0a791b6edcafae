SPECIFICATION Spec
CONSTANTS
  Connection = {k1, k2}
  MaxConcurrent = 1
INVARIANTS
  RefusedAreTold
CHECK_DEADLOCK FALSE
