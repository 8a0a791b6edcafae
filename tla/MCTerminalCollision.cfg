SPECIFICATION Spec
CONSTANTS
  Owner = {o1}
  Id = {i1}
  Session = {s1, s2}
  Command = {c1, c2}
  Ender = {e1, e2}
  FreshIds = FALSE
INVARIANTS
  EndedAreCancelled
CHECK_DEADLOCK FALSE
