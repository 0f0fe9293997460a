SPECIFICATION Spec
CONSTANTS
  u1 = u1
  s1 = s1
  s2 = s2
  v1 = v1
  v2 = v2
  t1 = t1
  t2 = t2
  None = None
  Users = {u1}
  Sessions = {s1, s2}
  UserOf <- OneUser
  Values = {v1, v2}
  Callers = {t1, t2}
  Backends = {"memory", "redis", "memcached"}
  Timeouts = {1, 2, 3}
  Grace = 1
  Day = 2
  Month = 3
  MaxClock = 3
  MaxCalls = 3
  MaxFaults = 1
SYMMETRY Symmetry
INVARIANTS
  ListedUnlessRaced
PROPERTIES
  KeepsContract
CHECK_DEADLOCK FALSE
