\* Five PCBs, of which three can be children, and four forks.
CONSTANTS
  NR_TASKS = 5
  QUANTUM = 2
  MAX_PID = 5
SPECIFICATION FairSpec
INVARIANTS TypeOK OnePlace QueueOfClass LivePIDs LostOnlyWithoutReady
PROPERTIES PriorityShare ImplementsProcesses NoStarvation
\* The system stops when the CPU is lost.
CHECK_DEADLOCK FALSE
