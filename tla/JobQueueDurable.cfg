SPECIFICATION FairSpec
CONSTANTS
    MaxId = 2
    MaxPending = 2
    Workers = {1}
    Pools = {"parser"}
    PoolOf <- OnePool
    FilePools = {"parser"}
    MaxExits = 2
    MaxCrashes = 1
    DiskFaults = FALSE
    LossyReports = TRUE
    MayRetire = FALSE
INVARIANT JobsAreConserved
INVARIANT OwedIsRecoverable
INVARIANT IdsNeverReused
PROPERTY LedgerSpec
PROPERTY EveryJobFinishes
CHECK_DEADLOCK FALSE
