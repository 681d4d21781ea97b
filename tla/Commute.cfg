SPECIFICATION Spec
CONSTANTS
  None = None
  Devices = {d1, d2}
  Runs = {1, 2}
  MaxLegs = 2
  Templates <- MCTemplates
  Overrides <- MCOverrides
  Trips <- MCTrips
  MaxNow = 2
  Grace = 1
INVARIANTS
  StartLeavesOneRun
  DirectionHeld
PROPERTIES
  EndedOnce
  RunsEnd
CHECK_DEADLOCK FALSE
