SPECIFICATION Spec
CONSTANTS
    Stops = {1, 2, 3}
    Timed = {1, 3}
    MsgTimes = {1, 2}
    Timetables <- MCTimetables
    NoRow = NoRow
    Chunk = 1
    MaxChunks = 2
    MaxNights = 1
INVARIANTS EstimateIsNewest TimedStopsInOrder ScheduleOrderStands
