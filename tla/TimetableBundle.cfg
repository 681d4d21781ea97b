SPECIFICATION Spec
CONSTANTS
  Files = {1, 2}
  MTime <- MCMTime
  Runs = {r1, r2}
  Kinds = {"sync", "bundle"}
  None = None
  Mixed = Mixed
  MaxOverlap = 2
  MaxFaults = 0
INVARIANTS
  OneRunAtATime
CHECK_DEADLOCK FALSE
