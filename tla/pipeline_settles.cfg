SPECIFICATION FairSpec
CONSTANTS
  j1 = j1
  j2 = j2
  s1 = s1
  s2 = s2
  d1 = d1
  d2 = d2
  d3 = d3
  upload = upload
  again = again
  None = None
  Jobs = {j1, j2}
  Submissions = {s1, s2}
  Deliveries = {d1, d2, d3}
  Requests = {upload}
  JobsOf <- TwoJobs
  Recorrections = {}
  SubmissionOf <- OneEach
  Images = {s1}
  MaxAttempts = 2
  AckBroker = TRUE
  MaxCrashes = 1
  MaxOverlaps = 0
  MaxFaults = 0
INVARIANT EveryCallIsRecorded
PROPERTY SentJobsSettle
CHECK_DEADLOCK FALSE
