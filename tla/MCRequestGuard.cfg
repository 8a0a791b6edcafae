SPECIFICATION Spec
CONSTANTS
  v1 = v1
  v2 = v2
  v3 = v3
  c1 = c1
  s1 = s1
  s2 = s2
  Request <- MCRequest
  Session <- MCSession
  TTL = 1
  Time = {1, 2}
  Caller <- MCCaller
  Input <- MCInput
  ConfiguredRoots <- MCRoots
  Actions <- MCActions
  DeniedFragments <- MCDenied
  ApprovalFragments <- MCApproval
  MaxTimeoutMS = 3
  DefaultTimeout = 12
  Milli = 4
  Word = 64
  Real <- MCReal
  Kind <- MCKind
SYMMETRY Symmetry
INVARIANTS
  TypeOK
  MostSevereRuleDecides
  DeadlineAsAsked
  OpensInsideRoots
  ListedIsAllowed
PROPERTIES
  NoRevival
  RefusedOnlyWhenOver
  ImplementsAtomicSessions
CHECK_DEADLOCK FALSE
