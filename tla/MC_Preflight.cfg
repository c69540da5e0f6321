SPECIFICATION Spec
CONSTANTS
  c1 = c1
  c2 = c2
  t1 = t1
  t2 = t2
  Settings <- MCSettings
  Collectors = {c1, c2}
  Dialect = "postgres"
  Scopes = {1, 2}
  Definitions = {1, 2}
  Tables = {t1, t2}
  Shapes = {"integer", "text", "opaque", "divided", "hidden", "gone"}
  GenMod = 3
  PreflightMaxAge = 1
  None = None
INVARIANTS
  SatisfiedHolds
  UnobservedBlocks
CHECK_DEADLOCK FALSE
