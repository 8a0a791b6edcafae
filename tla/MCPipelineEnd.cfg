SPECIFICATION Spec
CONSTANTS
  Request = {r1, r2, r3}
  Session = {s1}
  Terminal = {t1}
  WritesMayFail = FALSE
SYMMETRY
  Interchangeable
INVARIANTS
  EndIsPersisted
CHECK_DEADLOCK FALSE
