\* The queue does not outlive the callback's Param.
SPECIFICATION Safety
CONSTANTS
  c1 = c1
  c2 = c2
  c3 = c3
  None = None
  Calls <- TwoCalls
INVARIANT QueueHoldsReference
CHECK_DEADLOCK FALSE
