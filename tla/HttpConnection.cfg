CONSTANTS
  Shapes <- MCShapes
  MaxRequests = 2
SPECIFICATION FairSpec
INVARIANTS BodyExact AnswersInOrder
PROPERTIES RequestsEnd
CHECK_DEADLOCK FALSE
