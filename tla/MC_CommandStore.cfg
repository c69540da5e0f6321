SPECIFICATION MCSpec
CONSTANTS
  c1 = c1
  c2 = c2
  Callers = {c1, c2}
  Keys = {k1}
  small = small
  hooked = hooked
  Inputs <- MCInputs
  Steps <- MCSteps
  Hooks <- MCHooks
  Counts = {1, 2}
  MaxRuns = 2
  MaxPurges = 1
  MaxDamage = 1
  NoRow = NoRow
  NoTx = NoTx
INVARIANTS
  TypeOK
  OncePerRecord
  WholeCommands
  DefiniteMeansNotApplied
  AnswersAreApplications
PROPERTIES
  ImplementsOnceLedger
  RunsSettle
CHECK_DEADLOCK FALSE
