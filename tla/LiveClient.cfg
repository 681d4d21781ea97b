SPECIFICATION Spec
CONSTANTS
  Kinds = {"map", "diagram", "alerts", "service", "ios"}
  None = None
  Streams = {s1, s2}
  Fetches = {f1, f2}
  MaxMoves = 1
  MaxFaults = 1
INVARIANTS OneFeed LeavesQuietly
PROPERTIES PageCatchesUp
CHECK_DEADLOCK FALSE
