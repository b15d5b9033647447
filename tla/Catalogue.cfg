SPECIFICATION FairSpec
CONSTANTS
  Tools = {p, q}
  Calls = {c, d}
  TTL = 2
  Never = Never
  MaxNow = 6
PROPERTIES
  OneRelistPerTTL
  ExpiryIsNoticed
CHECK_DEADLOCK FALSE
