SPECIFICATION Spec
CONSTANTS
  j1 = j1
  j2 = j2
  Jobs <- TwoJobs
  UploadJobs <- OneJob
  CapacityRetries = 0
  Calls <- Removals
  MaxCrashes = 1
  MaxDbFaults = 1
CHECK_DEADLOCK FALSE
INVARIANTS CompletedServable
