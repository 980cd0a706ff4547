SPECIFICATION FairSpec
CONSTANTS
  j1 = j1
  j2 = j2
  c1 = c1
  All = All
  Jobs <- OneJob
  Clients <- OneClient
  End = 3
  BusyEnds = FALSE
  QueueMax = 2
  NotesPerJob = 1
  MaxBeats = 2
  MaxConnects = 2
  MaxRestarts = 1
CHECK_DEADLOCK FALSE
INVARIANTS TypeOK JobFeedSeesEnd
PROPERTIES EndIsShown
