SPECIFICATION Spec
CONSTANTS
  r1 = r1
  r2 = r2
  v1 = v1
  Job = Job
  Missing = Missing
  Nobody = Nobody
  Rebuilds <- TwoRebuilds
  Reviews <- OneReview
  MaxFaults = 1
  MaxOverruns = 1
INVARIANTS
  OneRebuild
  ReviewKept
  RowsDescribeFiles
PROPERTIES
  KeepsPromise
  RebuildEnds
CHECK_DEADLOCK FALSE
