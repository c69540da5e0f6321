SPECIFICATION MCSpec
CONSTANTS
  s1 = s1
  s2 = s2
  s3 = s3
  k1 = k1
  k2 = k2
  NoLimit = NoLimit
  NoShape = NoShape
  Statements <- MCStatements
  Shapes = {k1, k2}
  Transactions = {x1}
  Drainers = {d1, d2}
  Limits <- MCLimits
  Repeats = {TRUE, FALSE}
  MaxEvents = 2
  MaxTracking = 2
  MaxShapes = 1
  MaxNumber = 3
  Suspect = 2
  MaxRejects = 1
  Results <- MCResults
  MaxScans = 2
  NoEnd = NoEnd
INVARIANTS
  SummaryIsTrue
  EventsAccounted
  EndIsTruthful
PROPERTIES
  Frozen
  DrainEnds
CHECK_DEADLOCK FALSE
