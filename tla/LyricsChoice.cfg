SPECIFICATION Spec
CONSTANTS
  Settings <- SomeSettings
  Runners <- AllRunners
  MaxMisses = 2
INVARIANTS
  NotAnotherSong
  RightWordsKept
  CorrectedByOne
  FilesAgree
CHECK_DEADLOCK FALSE
