SPECIFICATION FairServiceSpec
CONSTANTS
  Caller <- MCCaller
  Weight <- MCWeight
  Transaction <- MCTransaction
  Target = 3
  BlockAsked = 5
  WordBytes = 2
  Size = 3
  MaxWeight = 4
  Capacity = 3
INVARIANTS NobodyStranded AbandonedIffUnwanted FullWakes OldestFirst AnswersReach OwnAnswer
PROPERTY Answered
CHECK_DEADLOCK FALSE
