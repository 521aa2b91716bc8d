SPECIFICATION DataSpec
CONSTANTS
    SearchNodes = {"a", "b", "c"}
    UnderSrc = {"a"}
    SearchNames = {"foo", "bar"}
    RecallLimits = {0, 1, 2}
    MaxRowId = 4
    MaxMoment = 2
    MaxEntries = 3
    TimelineLimit = 2
    RecentLimit = 1
    QuestionLimit = 2
    MinPool = 1
    QNames = {"a", "b", "c", "d"}
    Unlisted = {"d"}
    Bare <- MCBare
    FileOf <- MCFileOf
    StartLimit = 2
    MaxDepth = 2
    MaxEdges = 4
    Graphs <- MCGraphs
    MaxOuter = 3
    MaxPasses = 4
    OversizeShare = 4
    MinThreshold = 1
    MaxSplitDepth = 2
    LabelLen <- MCLens
    DocText <- MCDocs
    GraphText <- MCGraphTexts
    NodeLabel <- MCNodeLabel
    NodeText <- MCNodeText
    WordRankings <- MCRankings
    VectorRankings <- MCVectors
    LabelEdges <- MCEdges
    AnchorLists <- MCAnchors
    Budgets = {0, 2, 3, 4, 5}
    CharsPerToken = 4
    RrfK = 60
    SourceFiles <- MCFiles
    MinEvidence = 3
    MaxObserved = 6
    ScanPaths = {"p", "q", "r"}
    KindOf <- MCKinds
    FileTexts <- MCTexts
    BitsOf <- MCBits
    SaltedOf <- MCSalted
    HashWidth = 2
    SketchSize = 2
    Window = 2
    MaxPrints = 3
    MaxMillis = 1
    Segments = {"a", "b", "*", "#"}
    MaxSegments = 3
    HookInputs <- MCHookInputs
    Lower <- MCLower
    Spelled <- MCSpelled
    Special = {"c++", "modern-c++"}
    StopWords = {"the"}
    CodeWords = {"hotstart"}
    NudgeSkill <- MCNudge
    StaleAfter = 7
INVARIANT RecallIsExact
INVARIANT BundleHangsTogether
INVARIANT GraphAnswersAreExact
INVARIANT RetrievalIsSound
INVARIANT CheckAgreesWithLearning
INVARIANT ScannedIsFound
INVARIANT PrescribesTheBest
INVARIANT MatchIsDocumented
PROPERTY MovesImprove
CHECK_DEADLOCK FALSE
