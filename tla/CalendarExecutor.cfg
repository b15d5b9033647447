SPECIFICATION Spec
CONSTANTS
  Users = {u1, u2}
  Calls = {c1, c2}
  Deployment = dep
  Built = {p1, p2, p3}
  CacheSize = 1
  Rotates = TRUE
  MaxRefresh = 2
  MaxLost = 1
INVARIANTS
  NeverClosedInUse
  EvictedAreClosed
  RotationIsKept
SYMMETRY Symmetry
CHECK_DEADLOCK FALSE
