SPECIFICATION FairSpec
CONSTANTS
  job = job
  other = other
  rebuild = rebuild
  Songs <- JobAndRebuild
  Rebuilds <- OnlyRebuild
  Tries <- Once
  QueueCeiling = 1
  WallCeiling = 3
  JobCap = 1
  DayCap = 2
  MaxAsk = 1
  MaxLost = 1
CHECK_DEADLOCK FALSE
INVARIANTS TypeOK LiveRunIsWatched CostNearCap OwnCapKept
PROPERTIES WindowCloses
