SPECIFICATION Spec
CONSTANTS
  Names = {m, n}
  Entries = {a}
  NoEntry = NoEntry
  MaxSups = 3
  MaxRetries = 2
  MaxReloads = 1
  MaxDeaths = 1
  DieAnytime = TRUE
INVARIANTS
  PendingIsRetried
CHECK_DEADLOCK FALSE
