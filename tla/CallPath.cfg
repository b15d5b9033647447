SPECIFICATION FairSpec
CONSTANTS
  Calls = {c, d}
  r = r
  w = w
  Tools <- MCTools
  Roles <- MCRoles
  Callers <- MCCallers
  Configs <- MCConfigs
  Kinds = {"absent", "reads", "unsaid"}
  Attached <- MCAttached
  Pinned = {r}
  Burst = 1
  NoCall = NoCall
  MaxChanges = 2
INVARIANTS
  RefusedCostNothing
  TokensAreAccounted
  HiddenStaysHidden
PROPERTIES
  WritesAreApproved
  EveryCallEnds
CHECK_DEADLOCK FALSE
