CONSTANTS
  Builds = {"disabled", "open", "personal", "upstream"}
  EventDepth = 2
  MaxLines = 3
  MaxStrays = 3
SPECIFICATION Spec
INVARIANT LogFlushed
CHECK_DEADLOCK FALSE
