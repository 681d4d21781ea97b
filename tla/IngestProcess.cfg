SPECIFICATION FairProcess
CONSTANTS
    Rows = {x1, x2, x3, x4}
    BatchMax = 3
    MaxClients = 2
    None = None
    MaxErrors = 2
    MaxRefusals = 1
INVARIANTS EachRowOnce ShutdownFlushCompletes OneStream
PROPERTY EveryRowIsFlushed
CHECK_DEADLOCK FALSE
