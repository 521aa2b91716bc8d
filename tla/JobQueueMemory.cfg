SPECIFICATION Spec
CONSTANTS
    MaxId = 3
    MaxPending = 1
    Workers = {1, 2}
    Pools = {"parser"}
    PoolOf <- OnePool
    FilePools = {"parser"}
    MaxExits = 0
    MaxCrashes = 0
    DiskFaults = TRUE
    LossyReports = FALSE
    MayRetire = TRUE
INVARIANT LoadBounded
CHECK_DEADLOCK FALSE
