CONSTANTS
  NR_TASKS = 4
  QUANTUM = 1
  MAX_PID = 3
SPECIFICATION Spec
INVARIANT SomebodyRuns
CHECK_DEADLOCK FALSE
