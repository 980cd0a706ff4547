SPECIFICATION Spec
CONSTANTS
  h1 = h1
  h2 = h2
  Nobody = Nobody
  UnknownHost = UnknownHost
  Market <- SmallMarket
  Priors <- SomePriors
  MaxPrice = 4
  MaxJobCost = 21
  DayCap = 200
  ReadyTimeout = 5
  Attempts = 3
  MaxSeconds = 15
  Grace = 1
  TransferTime = 2
  CallTime = 1
  PollTime = 2
  MaxFaults = 1
INVARIANTS
  InstanceOwned
  CostCovers
  SpendBounded
CHECK_DEADLOCK FALSE
