SPECIFICATION FairGetSpec
CONSTANTS
  q1 = q1
  q2 = q2
  q3 = q3
  QueueEmpty = QueueEmpty
  NoAnswer = NoAnswer
  Queries = {q1, q2, q3}
  Modes <- Unmixed
  NumItems = 3
INVARIANTS OwnAnswer
PROPERTY AnsweredGetReturns
CHECK_DEADLOCK FALSE
