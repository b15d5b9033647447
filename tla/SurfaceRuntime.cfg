SPECIFICATION Spec
CONSTANTS
  Names = {m, n}
  Entries = {a, b}
  NoEntry = NoEntry
  MaxSups = 3
  MaxRetries = 2
  MaxReloads = 2
  MaxDeaths = 1
  DieAnytime = FALSE
INVARIANTS
  PendingIsRetried
  OneRetryPerSlot
  ServesEntryInForce
  HealthTellsTruth
CHECK_DEADLOCK FALSE
