SPECIFICATION Spec
CONSTANTS
    Settings <- MCSettings
    MaxDepth = 2
    MaxCost = 4
    MaxSub = 2
INVARIANTS
  MeaningPreserved
  ArgumentsFit
PROPERTIES
  BuildIsRepeatable
CHECK_DEADLOCK FALSE
