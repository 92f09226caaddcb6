\* Two transactions, two runs each, every answer, one spurious wakeup.
SPECIFICATION Spec
CONSTANTS
  t1 = t1
  t2 = t2
  None = None
  Txns <- MCTxns
  MaxAttempts = 2
  Answers <- AllAnswers
  MaxEarly = 1
INVARIANTS
  TypeOK
  CommittedUnlessEarly
  FrameOutlivesAnswer
  WaitIsAnswerable
  AbortOnlyOnRefusal
  LockedAnswerExcludesDecision
PROPERTIES
  TransactionsRepliedOnce
  TransactionsSettle
CHECK_DEADLOCK FALSE
