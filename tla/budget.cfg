SPECIFICATION Spec
CONSTANTS
  r1 = r1
  r2 = r2
  j1 = j1
  j2 = j2
  d1 = d1
  d2 = d2
  d3 = d3
  d4 = d4
  None = None
  Requests <- MCRequests
  Jobs <- MCJobs
  JobsOf <- MCJobsOf
  Images <- MCImages
  Budgets <- MCBudgets
  Runs <- MCRuns
  AttemptsOf <- MCAttemptsOf
  MaxAttempts = 2
  MaxRetries = 1
  MaxRare = 1
SYMMETRY MCSymmetry
CHECK_DEADLOCK FALSE
INVARIANTS
  OverrunIsWithinReach
  EveryTokenIsAccounted
