SPECIFICATION Spec
CONSTANTS
  None = None
  Cases <- MCCases
  Declares <- MCDeclares
INVARIANTS
  ComparisonIsRight
CHECK_DEADLOCK FALSE
