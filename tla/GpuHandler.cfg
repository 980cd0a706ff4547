SPECIFICATION HandlerSpec
CONSTANTS
  hook = hook
  verse = verse
  dash = dash
  Unknown = Unknown
  Songs <- SmallSongs
  Modes <- BothModes
  Spots <- SmallSpots
  Words <- TwoWords
  Odd <- OddTexts
  MaxHeard = 2
  MaxCrops = 3
  MaxCrop = 26
  MaxAudio = 50
INVARIANTS
  RecoveredAreSung
  BudgetKept
  FirstContextsFirst
  BaselineSurvives
CHECK_DEADLOCK FALSE
