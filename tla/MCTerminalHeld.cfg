SPECIFICATION FairSpec
CONSTANTS
  Owner = {o1}
  Id = {i1}
  Session = {s1}
  Command = {c1, c2}
  Ender = {}
  FreshIds = TRUE
PROPERTIES
  TimeoutEnforced
CHECK_DEADLOCK FALSE
