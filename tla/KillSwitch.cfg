SPECIFICATION Spec
CONSTANTS
  Items = {i, j}
  Admins = {a, b}
  Malformed = Malformed
  Missing = Missing
  NoState = NoState
  MaxStamp = 3
  MaxRestarts = 1
  MaxCancels = 1
SYMMETRY Symmetry
INVARIANTS
  AcknowledgedIsKept
  AcknowledgedTakesEffect
PROPERTIES
  OnlyWhatTheFileSaid
  StaleTellsTruth
CHECK_DEADLOCK FALSE
