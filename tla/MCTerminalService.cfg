SPECIFICATION Spec
CONSTANTS
  Owner = {o1, o2}
  Id = {i1, i2}
  Session = {s1, s2}
  Command = {c1, c2}
  Ender = {e1, e2}
  FreshIds = TRUE
SYMMETRY
  Interchangeable
INVARIANTS
  TypeOK
  EndedAreCancelled
  LiveAreRegistered
  ShutdownEndsAll
  AnsweredEndsCancelled
  EndOnce
CHECK_DEADLOCK FALSE
