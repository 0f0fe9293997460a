SPECIFICATION Spec
CONSTANTS
  a1 = a1
  a2 = a2
  b1 = b1
  e1 = e1
  e2 = e2
  g1 = g1
  g2 = g2
  s1 = s1
  r1 = r1
  r2 = r2
  None = None
  Accounts = {a1, a2}
  Bases = {b1}
  Emails = {e1, e2}
  Identities = {g1, g2}
  Profiles <- MCProfiles
  Registrations <- MCRegistrations
  Updates <- MCUpdates
  States = {s1}
  Requests = {r1, r2}
  MaxRequests = 3
  MaxFaults = 1
INVARIANTS
  TypeOK
  AStateSignsInOnce
PROPERTIES
  AnIdentityKeepsItsAccount
  EveryRequestIsAnswered
CHECK_DEADLOCK FALSE
