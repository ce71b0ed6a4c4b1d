\* Two PCBs besides idle's for three processes, and three ticks.
CONSTANTS
  NR_TASKS = 3
  QUANTUM = 1
  MAX_PID = 3
  MAX_TIME = 2
  MAX_TICKS = 3
  USER_FIRST_PAGE = 8
  NUM_PAG_CODE = 1
  NUM_PAG_DATA = 1
  BUFFERS <- MCBUFFERS
SPECIFICATION StatsSpec
INVARIANTS NoTickTwice ChargedOnce StatsExact
PROPERTIES RemainingExact
\* The bounds on time end a behaviour.
CHECK_DEADLOCK FALSE
