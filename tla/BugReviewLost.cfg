SPECIFICATION Spec
CONSTANTS
  r1 = r1
  r2 = r2
  v1 = v1
  Job = Job
  Missing = Missing
  Nobody = Nobody
  Rebuilds <- OneRebuildOnly
  Reviews <- OneReview
  MaxFaults = 0
  MaxOverruns = 0
INVARIANTS
  NothingLost
CHECK_DEADLOCK FALSE
