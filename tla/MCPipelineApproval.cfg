SPECIFICATION Spec
CONSTANTS
  Request = {r1, r2, r3}
  Session = {s1}
  Terminal = {t1}
  WritesMayFail = FALSE
SYMMETRY
  Interchangeable
INVARIANTS
  ApprovalSurfaced
CHECK_DEADLOCK FALSE
