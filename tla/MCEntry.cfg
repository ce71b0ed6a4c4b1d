\* Two PCBs, the real table, a call of each form.
CONSTANTS
  NR_TASKS = 2
  MAX_SYSCALL = 36
  CALLS = {"fork", "exit", "get_stats", "sbrk", "write"}
  RAW <- MCRAW
SPECIFICATION Spec
INVARIANTS RegistersKept ErrnoTold ArgsPassed ContextsWhole
\* The system stops when the last process exits.
CHECK_DEADLOCK FALSE
