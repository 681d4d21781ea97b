SPECIFICATION Spec
CONSTANTS
    Stops = {1, 2}
    Timed = {1, 2}
    MsgTimes = {1}
    Timetables <- MCTimetables
    NoRow = NoRow
    Chunk = 1
    MaxChunks = 1
    MaxNights = 1
INVARIANT NoOrphanStops
