SPECIFICATION Spec
CONSTANTS
  t1 = t1
  t2 = t2
  own = own
  canon = canon
  alien = alien
  konj = konj
  live = live
  horse = horse
  None = None
  Threads <- TwoThreads
  Metadata <- SomeMetadata
  Songs <- SomeSongs
  Records <- SomeRecords
  NonLatinWords <- NonLatinOnes
  LatinArtists <- LatinOnes
  Tolerance = 2
  Reject = 5
  MaxQueries = 3
  MaxLookups = 1
INVARIANTS
  NoWrongCut
  WrongCutIsKept
PROPERTIES
  CachedMissIsTrue
  LookupEnds
CHECK_DEADLOCK FALSE
