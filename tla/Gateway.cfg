SPECIFICATION Spec
CONSTANTS
  None = None
  Deployment = Deployment
  varied = varied
  plain = plain
  Order <- MCOrder
  Registries <- MCRegistries
  Envs <- MCEnvs
  Callers <- MCCallers
  Calls = {c1, c2}
  MaxRetries = 1
INVARIANTS
  NeverSilentlyShared
  NothingLeaks
  DegradedIsExact
  NoLateConfigFault
  OperatorIsToldTheTruth
  OwnReason
SYMMETRY Symmetry
CHECK_DEADLOCK FALSE
