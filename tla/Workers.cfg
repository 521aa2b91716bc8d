SPECIFICATION WorkersSpec
CONSTANTS
    ParseWorkers = 3
    ParserSlots = 2
    ParseFiles = {"f", "g", "h"}
    NoGrammar = {"g"}
    BadPatterns = {"h"}
    Versions = {1}
    TreeCache = 1
    InboxCap = 1
    ResultCap = 1
    Routed = {TRUE}
    Deaf = {FALSE}
    MaxParseJobs = 3
    TextBytes = {"x", "n"}
    MaxTextLen = 4
    MaxEdits = 1
    ScanTasks = {"t1", "t2"}
    Scanners = {"a"}
    Filters = {{}}
    ScanChanCap = 1
    BatchJobs = 2
    BatchFinds = 2
    MaxScanJobs = 3
    BrainNodes = {"m", "n"}
    BrainTexts = {"t"}
    BrainCap = 2
    MaxBrainJobs = 2
    MaxBrainRuns = 3
    Layers <- OneLayer
    Conns = {c1, c2}
    MaxStamp = 2
    MaxRows = 1
    MaxInodes = 2
SYMMETRY ConnSymmetry
INVARIANT PermitFindsSlot
INVARIANT QuietMeansAnswered
INVARIANT RestMeansForwardedOnce
INVARIANT FlushedIsKept
INVARIANT EditIsExact
INVARIANT RowsSurvive
CHECK_DEADLOCK FALSE
