\* Two processes that ask for a rate, and periods longer than a slice of five ticks.
CONSTANTS
  NR_TASKS = 4
  QUANTUM = 1
  MAX_PID = 3
  SPF_PERIOD = 7
  FPS = {0, 2}
  MAX_EXTRA = 1
SPECIFICATION FairFpsSpec
INVARIANTS FpsTypeOK FrameBudget
PROPERTIES DelayedOnlyOverBudget DelayedShown
CHECK_DEADLOCK FALSE
