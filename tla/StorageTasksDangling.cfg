\* A control call races with the completion of its task.
SPECIFICATION Safety
CONSTANTS
  t1 = t1
  t2 = t2
  None = None
  Tasks <- MCTasks
  Handles <- MCHandles
  HandleOf <- MCHandleOf
  MaxControls = 1
INVARIANT ControlUsesLiveTask
CHECK_DEADLOCK FALSE
