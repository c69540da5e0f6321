SPECIFICATION FairSpec
CONSTANTS
  Writers = {w1, w2, w3}
  Plans = {p1, p2}
  MaxVersion = 1
  None = None
INVARIANTS
  UpdatesAreKept
  AnswersAreTrue
PROPERTIES
  WritesSettle
CHECK_DEADLOCK FALSE
