SPECIFICATION Spec
CONSTANTS
  SummerFrom <- MCSummerFrom
  SummerTo <- MCSummerTo
  Scenarios <- MCScenarios
  Ssd <- MCSsd
  Pause = 12
  StrayAt = {"A", "C", "D"}
  MaxOddities = 1
  MaxLoads = 2
INVARIANTS
  NeverAhead
  MarkersAgree
  OursIsFound
  TimesAreBooked
  MapFollowsNewest
PROPERTIES
  NeverRetreats
CHECK_DEADLOCK FALSE
