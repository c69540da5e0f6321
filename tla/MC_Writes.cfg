CONSTANTS
    c1 = c1
    c2 = c2
    Callers = {c1, c2}
    Calls <- MCCalls
    Old <- MCOld
    MaxPurges = 1
    ColOrder <- MCColOrder
    Unique <- MCUnique
    Default = 7
    RowSets <- MCRowSets
    Options <- MCOptions
    Dialects = {"postgres", "mysql"}
    Before <- MCBefore
    MaxBatch = 2
SPECIFICATION Spec
INVARIANTS
  WholeOrNothing
  AnswersAreRows
  NestedIsWhole
  BatchMatchesSingle
  WriteIsTargeted
PROPERTIES
  ConnectionsReturn
CHECK_DEADLOCK FALSE
