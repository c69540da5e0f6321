SPECIFICATION Spec
CONSTANTS
  None = None
  Cases <- TableCases
  Declares <- MCDeclares
INVARIANTS
  DeclaredIsNotAbsent
CHECK_DEADLOCK FALSE
