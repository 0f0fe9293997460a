SPECIFICATION Spec
CONSTANTS
  u1 = u1
  a1 = a1
  t1 = t1
  t2 = t2
  s1 = s1
  s2 = s2
  s3 = s3
  None = None
  Users = {u1}
  Addresses = {a1}
  Counters = {u1, a1}
  Threads = {t1, t2}
  Sessions = {s1, s2, s3}
  Timeout = 1
  CleanupInterval = 1
  LoginMax = 1
  MaxSessions = 1
  FailOpen = TRUE
  MaxClock = 0
  MaxLogins = 4
  MaxFaults = 1
SYMMETRY AuthSymmetry
INVARIANTS
  TypeOK
  OverrunIsBounded
  LoginRestoresTheCap
  TokenHasSession
  GuessesAreBounded
CHECK_DEADLOCK FALSE
