\* Heaps that may end at the end of a page.
CONSTANTS
  NR_TASKS = 4
  QUANTUM = 1
  MAX_PID = 3
  NUM_PAG_KERNEL = 2
  TOTAL_PAGES = 15
  NUM_PAG_CODE = 1
  NUM_PAG_DATA = 1
  PAGE_SIZE = 2
  L_HEAP_START = 8
  WORD = 128
  INCREMENTS <- AnySize
SPECIFICATION MemSpec
PROPERTIES ExitFreesFrames
CHECK_DEADLOCK FALSE
