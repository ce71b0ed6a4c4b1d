CONSTANTS
  NR_TASKS = 4
  QUANTUM = 3
  MAX_PID = 3
  SPF_PERIOD = 18
  FPS = {2}
  MAX_EXTRA = 1
SPECIFICATION FpsSpec
PROPERTIES RegulationKept
CHECK_DEADLOCK FALSE
