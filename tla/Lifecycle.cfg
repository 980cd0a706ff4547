SPECIFICATION WarmSpec
CONSTANTS
  j1 = j1
  j2 = j2
  Jobs <- OneJob
  UploadJobs <- NoJob
  CapacityRetries = 1
  Calls <- AllCalls
  MaxCrashes = 1
  MaxDbFaults = 0
CHECK_DEADLOCK FALSE
INVARIANTS TypeOK LiveRowHasOwner CookieOwned SettledJobIsQuiet
PROPERTIES EndedJobStays KeepsPromise EveryJobSettles CancelUnwinds
