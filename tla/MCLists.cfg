\* Five PCBs, so that a list has up to four elements, and three forks.
CONSTANTS
  NR_TASKS = 5
  QUANTUM = 1
  MAX_PID = 4
SPECIFICATION Spec
INVARIANTS WellLinked RunningUnlinked
PROPERTIES ImplementsSched
\* The system stops when the CPU is lost.
CHECK_DEADLOCK FALSE
