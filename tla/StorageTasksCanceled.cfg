\* Task#onCanceled races with the completion callback.
SPECIFICATION Safety
CONSTANTS
  t1 = t1
  t2 = t2
  None = None
  Tasks <- MCTasks
  Handles <- MCHandles
  HandleOf <- MCHandleOf
  MaxControls = 1
INVARIANT CanceledComesFirst
CHECK_DEADLOCK FALSE
