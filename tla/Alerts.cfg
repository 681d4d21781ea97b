SPECIFICATION AlertSpec
CONSTANTS
    Rows <- MCRows
    c1 = c1
    c2 = c2
    t1 = t1
    t2 = t2
    Kinds = {delay}
    Subs = {s1, s2}
    None = None
    MaxFaults = 1
    MaxEdits = 1
INVARIANTS AlertedOnce SilentAlertsAreFaults
PROPERTY NoMatchPassedOver
SYMMETRY Symmetry
