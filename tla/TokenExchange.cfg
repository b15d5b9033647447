SPECIFICATION Spec
CONSTANTS
  Calls = {c, d}
  Subjects = {s, t}
  Configs = {x, y}
  Lifetimes = {1, 2}
  Skew = 1
  MaxEntries = 1
  MaxDelay = 1
  MaxGen = 2
  MaxClock = 1
SYMMETRY Symmetry
INVARIANTS
  OwnToken
  WaitersAreIndependent
CHECK_DEADLOCK FALSE
