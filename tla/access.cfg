SPECIFICATION Spec
CONSTANTS
  admin = admin
  ana = ana
  eva = eva
  nAdmin = nAdmin
  nAna = nAna
  nNew = nNew
  k1 = k1
  k2 = k2
  r1 = r1
  r2 = r2
  r3 = r3
  A = A
  B = B
  t1 = t1
  t2 = t2
  c1 = c1
  c2 = c2
  Wildcard = Wildcard
  None = None
  Nobody = Nobody
  Platform = Platform
  Accounts = {admin, ana, eva}
  Names = {nAdmin, nAna, nNew}
  KeyIds = {k1, k2}
  Resources = {"rubrics"}
  Actions = {"read", "create"}
  Grants <- MCGrants
  Tenants = {A, B}
  Rubrics = {r1, r2, r3}
  Connections = {c1, c2}
  TenantOf <- MCTenantOf
  FirstNames <- MCFirstNames
  Superusers = {admin}
  FirstKeys <- MCFirstKeys
  FirstGrant <- Mixed
  FirstRubrics <- MCFirstRubrics
  Threads = {t1, t2}
  MaxRequests = 3
  MaxFaults = 1
SYMMETRY AccessSymmetry
INVARIANTS
  TypeOK
  AdmittedKeysWereUsable
  StatementsRunUnderOwnContext
  AnswersStayWithTheTenant
  OrdinaryUsersChangeTheirOwnRow
CHECK_DEADLOCK FALSE
