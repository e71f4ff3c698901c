CONSTANTS
  None = None
  Calls <- MCCalls
  Answers <- MCAnswers
  Piece = 2
  MaxReason = 2
SPECIFICATION FairSpec
INVARIANTS RequestExact ResponseExact CancelHeeded
PROPERTIES CallEnds
CHECK_DEADLOCK FALSE
