SPECIFICATION WaitingSpec
CONSTANTS
    Files = {"f", "g", "h"}
    Unsupported = {"h"}
    Symbols = {"a"}
    Callee <- FCallsG
    MaxPending = 2
    MaxChanges = 3
    MaxJobs = 2
    IgnoredPaths = TRUE
    Faults = TRUE
    MaxConns = 2
    Builds = {"b1", "b2", "b3"}
    Rebuilds = {"b2"}
    FailFast = {"b3"}
INVARIANT NoSaveForgotten
INVARIANT SpacedChangesAreIndexed
INVARIANT ExclusiveUntilRemoval
PROPERTY DrainsUnlessStuck
PROPERTY RepeatedStopExits
PROPERTY EveryBuildEnds
CHECK_DEADLOCK FALSE
