CONSTANTS
  MAX_VAL = 3
  Mapped = {30}
  Value = {30, 158, 129}
  MAX_KEYS = 5
  NUM_COLUMNS = 3
  NUM_ROWS = 2
  CHUNK = 2
  WRITES <- AnyWrite
  NUMBERS <- AnyNumber
  etos <- AnyMessage
  UNKNOWN <- Unknown
  ERRNOS = {0, 2}
  FRAMES = {32}
SPECIFICATION TerminalSpec
INVARIANTS Contiguous
PROPERTIES ReadOnce ImplementsQueue ImplementsScreen EchoShown
