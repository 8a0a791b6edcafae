SPECIFICATION Spec
CONSTANTS
  Request = {r1, r2, r3}
  Session = {s1}
  Terminal = {t1}
  WritesMayFail = TRUE
SYMMETRY
  Interchangeable
INVARIANTS
  TypeOK
  AnswerIsRecorded
  AuditIsBacked
  RowsHaveSession
  ExecutedWasAllowed
  EndedRowStays
CHECK_DEADLOCK FALSE
