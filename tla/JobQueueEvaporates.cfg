SPECIFICATION Spec
CONSTANTS
    MaxId = 2
    MaxPending = 2
    Workers = {1, 2}
    Pools = {"parser"}
    PoolOf <- OnePool
    FilePools = {"parser"}
    MaxExits = 1
    MaxCrashes = 0
    DiskFaults = FALSE
    LossyReports = FALSE
    MayRetire = FALSE
INVARIANT NoWorkEvaporates
CHECK_DEADLOCK FALSE
