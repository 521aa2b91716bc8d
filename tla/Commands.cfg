SPECIFICATION CommandSpec
CONSTANTS
    Named = {}
    AutoDetect = TRUE
    PresentPlatforms = {}
    Scopes = {"user"}
    MaxSeconds = 2
    MaxEvents = 2
    MaxCommands = 3
    CodeFiles = {"e", "f"}
    DocFiles = {"d"}
    Unparsable = {}
    BigProject = 0
    BuildLimits = {0, 1}
    DaemonCap = 1
    MaxVersion = 1
    MaxBuilds = 2
    MaxLostRows = 1
    Project <- MCProject
    Floors = {0, 2, 3}
    PipeCap = 2
    MaxAudits = 2
INVARIANT UserTextIsSafe
INVARIANT RollbackUndoesInstall
INVARIANT RebuildIsExact
INVARIANT AuditIsAllOrNothing
CHECK_DEADLOCK FALSE
