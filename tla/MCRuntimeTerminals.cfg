SPECIFICATION FairSpec
CONSTANTS
  Owner = {o1}
  Id = {i1}
  Session = {s1}
  Command = {c1, c2}
  Ender = {e1}
  MaxConcurrent = 2
INVARIANTS
  TypeOK
  NilLeavesNothing
  WorkIsBacked
PROPERTIES
  EndedCommandsStop
  ShutdownReturns
CHECK_DEADLOCK FALSE
