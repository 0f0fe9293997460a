SPECIFICATION Spec
CONSTANTS
  j1 = j1
  j2 = j2
  s1 = s1
  s2 = s2
  d1 = d1
  d2 = d2
  d3 = d3
  upload = upload
  again = again
  None = None
  Jobs = {j1, j2}
  Submissions = {s1}
  Deliveries = {d1, d2}
  Requests = {upload, again}
  JobsOf <- UploadAndAgain
  Recorrections = {again}
  SubmissionOf <- SameEssay
  Images = {s1}
  MaxAttempts = 2
  AckBroker = TRUE
  MaxCrashes = 0
  MaxOverlaps = 1
  MaxFaults = 1
SYMMETRY DeliverySymmetry
INVARIANTS
  DoneHasResult
  ResultIsRecorded
  AttemptHistory
PROPERTY ResultIsWriteOnce
CHECK_DEADLOCK FALSE
