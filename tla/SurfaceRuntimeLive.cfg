SPECIFICATION FairSpec
CONSTANTS
  Names = {n}
  Entries = {a, b}
  NoEntry = NoEntry
  MaxSups = 3
  MaxRetries = 3
  MaxReloads = 2
  MaxDeaths = 2
  DieAnytime = TRUE
INVARIANTS
  SeriesFollowSlot
  AppsAreOwned
PROPERTIES
  WorkingSurfaceStays
  PendingRecovers
  EveryWaitEnds
CHECK_DEADLOCK FALSE
