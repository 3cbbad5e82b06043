SPECIFICATION ExecutorFairSpec
CONSTANTS
  e1 = e1
  e2 = e2
  c1 = c1
  c2 = c2
  NoEntry = NoEntry
  Entry <- MCEntry
  InitQueue <- MCQueue
  AlbumOf <- MCAlbum
  Requester <- Two
  Scenarios <- All
  Duration = 2
  Lead = 1
  BcastCap = 2
  MaxTime = 2
  MaxTimers = 4
INVARIANT ExecutorTypeOK
INVARIANT ActsOnce
INVARIANT NeverEarly
INVARIANT OneOfEach
PROPERTY ImplementsAlarms
PROPERTY DeadlineActs
CHECK_DEADLOCK FALSE
