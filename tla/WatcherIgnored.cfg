SPECIFICATION FairSpec
CONSTANTS
    Files = {"f"}
    Unsupported = {}
    Symbols = {"a"}
    Callee <- SelfCalls
    MaxPending = 2
    MaxChanges = 2
    MaxJobs = 1
    IgnoredPaths = TRUE
    Faults = FALSE
PROPERTY EverythingDrains
CHECK_DEADLOCK FALSE
