SPECIFICATION Spec
CONSTANTS
  j1 = j1
  j2 = j2
  Jobs <- OneJob
  UploadJobs <- NoJob
  CapacityRetries = 0
  Calls <- AllCalls
  MaxCrashes = 0
  MaxDbFaults = 0
CHECK_DEADLOCK FALSE
PROPERTY CancelledNeverFails
