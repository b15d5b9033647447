SPECIFICATION Spec
CONSTANTS
  Subjects = {u}
  Shared = Shared
  NoBucket = NoBucket
  Never = Never
  Calls = 4
  PerS = 5
  Burst = 2
  Second = 1
  Grain = 2
  MaxNow = 7
INVARIANTS
  WindowIsBounded
PROPERTIES
  WaitIsNearlyEnough
  ImplementsTokenBucket
CHECK_DEADLOCK FALSE
