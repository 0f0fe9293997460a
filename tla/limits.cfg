SPECIFICATION Spec
CONSTANTS
  c1 = c1
  t1 = t1
  n1 = n1
  pa = pa
  pb = pb
  ka = ka
  r1 = r1
  r2 = r2
  None = None
  Clients = {c1}
  Tiers = {t1}
  Names = {n1}
  Paths = {pa, pb}
  Keys = {ka}
  KeyOf <- OneKey
  Limits <- TwoLimits
  Default <- DefaultLimit
  FailOpen = TRUE
  Backends = {"redis", "memcached"}
  Requests = {r1, r2}
  MaxClock = 3
  MaxRequests = 4
  MaxChanges = 2
  MaxFaults = 1
SYMMETRY RequestSymmetry
INVARIANTS
  AdmittedWithinLimit
  RefusedOnlyOverLimit
CHECK_DEADLOCK FALSE
