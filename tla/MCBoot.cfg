\* Two pages of code and two of data, of two words; a system of up to five
\* words and a program of up to nine, which is one more than its pages.
CONSTANTS
  NR_TASKS = 3
  QUANTUM = 1
  MAX_PID = 3
  NUM_PAG_KERNEL = 8
  TOTAL_PAGES = 18
  NUM_PAG_CODE = 2
  NUM_PAG_DATA = 2
  PAGE_SIZE = 2
  L_HEAP_START = 24
  WORD = 256
  INCREMENTS = {}
  KERNEL_START = 2
  CHUNK = 2
  SYSTEMS <- MCSYSTEMS
  USERS <- MCUSERS
SPECIFICATION BootSpec
INVARIANTS LeavesInit UserLoaded SystemKept InterruptsReady
\* build may fail, and the model ends in user mode.
CHECK_DEADLOCK FALSE
