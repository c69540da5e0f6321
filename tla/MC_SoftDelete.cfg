SPECIFICATION Spec
CONSTANTS
    Settings <- MCSoft
    MaxDepth = 2
    MaxCost = 4
    MaxSub = 2
INVARIANT SoftDeleteExcluded

CHECK_DEADLOCK FALSE
