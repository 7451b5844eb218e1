SPECIFICATION FairSpec
CONSTANTS
  Requests <- Client
  Remotes = {TRUE, FALSE}
  MaxLines = 4
INVARIANTS
  TypeOK
  CancelStopsOnlyEarlier
  WaitingSolvesAreStopped
  AnswersInOrder
  ExitsHavingAnswered
PROPERTIES
  LimitsEndSolves
  RequestsAreAnswered
  ClosingEndsWorker
CHECK_DEADLOCK FALSE
