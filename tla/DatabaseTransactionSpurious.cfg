\* cv.wait has no predicate.
SPECIFICATION Safety
CONSTANTS
  t1 = t1
  t2 = t2
  None = None
  Txns <- MCTxns
  MaxAttempts = 1
  Answers <- HandlerAnswers
  MaxEarly = 1
INVARIANT CommittedAsAnswered
CHECK_DEADLOCK FALSE
