SPECIFICATION Spec
CONSTANTS
    Callers = {1}
    Keys = {"k"}
    ChannelCap = 1
    MaxCalls = 3
    MaxCrashes = 0
    Faults = FALSE
INVARIANT AppliedOncePerKey
CHECK_DEADLOCK FALSE
