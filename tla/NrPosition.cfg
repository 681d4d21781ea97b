SPECIFICATION LockedSpec
CONSTANTS
    NoPromise = NoPromise
    Callers = {r1, r2, r3}
    Keys = {trust, td}
    TdKeys = {td}
    CodedKeys = {trust}
    Rids = {a, b}
    NoRid = NoRid
    NoRow = NoRow
    Unread = Unread
    Times = {1, 2}
    RidStrikesBeforeUnlink = 2
    RidStrikesMaxEntries = 1
    MaxFaults = 1
INVARIANTS ReadIsCurrent SnapshotIsNewest
PROPERTIES NoResurrection TrustUnlinkTakesTwoFailures ImplementsPosition
CONSTRAINT FaultsMeetTrustReports
CHECK_DEADLOCK FALSE
SYMMETRY Symmetry
