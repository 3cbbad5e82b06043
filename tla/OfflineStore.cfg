SPECIFICATION StoreFairSpec
CONSTANTS
  ReserveFloor = 1
  ReservePct = 0
  Setback = 1
  EvictFloor = 1
  CriticalAvail = 1
  StarFloorBytes = 1
  Id <- MCId
  Suffix <- MCSuffix
  Batch = 2
  Catalog <- MCCatalog
  InitSong <- MCSong
  NextSong <- MCNext
  Rows <- MCRows
  Ahead = 1
  Configured = 4
  Disk = 8
  GiveUpAfter = 2
  MaxChain = 2
  Scenarios <- All
INVARIANT StoreTypeOK
INVARIANT OfferedIsCommitted
INVARIANT BadBytesStayOut
PROPERTY FlapKeepsPins
PROPERTY MirrorSettles
PROPERTY MirrorComplete
CHECK_DEADLOCK FALSE
