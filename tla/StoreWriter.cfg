SPECIFICATION FairSpec
CONSTANTS
    Callers = {1, 2}
    Keys = {"k"}
    ChannelCap = 1
    MaxCalls = 3
    MaxCrashes = 1
    Faults = TRUE
INVARIANT SingleWriter
INVARIANT NothingWithoutItsWrite
CHECK_DEADLOCK FALSE
PROPERTY EveryCallEnds
