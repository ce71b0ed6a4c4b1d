\* Five frames besides the kernel's: one for the code, four for the data and
\* heaps of two or three processes, so both fork and sbrk run out of them.
CONSTANTS
  NR_TASKS = 3
  QUANTUM = 1
  MAX_PID = 3
  NUM_PAG_KERNEL = 2
  TOTAL_PAGES = 12
  NUM_PAG_CODE = 1
  NUM_PAG_DATA = 1
  PAGE_SIZE = 2
  L_HEAP_START = 8
  WORD = 128
  TLB_ENTRIES = 2
  INCREMENTS <- AnySize
SPECIFICATION TransSpec
INVARIANTS MemTypeOK FramesPrivate MappedIsUsed AddressSpaceMapped NoLeak Coherent ReachesOwn
PROPERTIES DataKept
CHECK_DEADLOCK FALSE
