SPECIFICATION Spec
CONSTANTS
  u1 = u1
  a1 = a1
  t1 = t1
  t2 = t2
  s1 = s1
  s2 = s2
  s3 = s3
  None = None
  Users = {u1}
  Addresses = {a1}
  Counters = {}
  Threads = {t1, t2}
  Sessions = {s1}
  Timeout = 2
  CleanupInterval = 1
  LoginMax = 1
  MaxSessions = 1
  FailOpen = TRUE
  MaxClock = 3
  MaxLogins = 1
  MaxFaults = 1
SYMMETRY AuthSymmetry
INVARIANTS
  KeyOutlivesUse
PROPERTY OnlyOverlapRevives
CHECK_DEADLOCK FALSE
