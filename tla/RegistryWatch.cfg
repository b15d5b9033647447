SPECIFICATION WSpec
CONSTANTS
  Requesters = {watch, admin}
  Watch = watch
  CancelBeforeFirstStep = FALSE
  Secrets = {s}
  Registry = registry
  MayBeMissing = FALSE
  NoEntry = NoEntry
  MaxWrites = 2
INVARIANTS
  AnswersAreFresh
  NoWaiterIsStranded
  FingerprintsAreNotNewer
PROPERTIES
  WatchConverges
CHECK_DEADLOCK FALSE
