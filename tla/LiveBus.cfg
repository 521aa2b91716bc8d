SPECIFICATION FairSpec
CONSTANTS
    Publishers = {p1, p2}
    WsSubs = {w}
    SseSubs = {e}
    SsePatterns = {{"file", "degraded"}}
    Window = 1
    MaxEvents = 3
    MaxArcs = 2
INVARIANT EvictedOnce
INVARIANT PublisherOrder
PROPERTY EvictedIsClosed
CHECK_DEADLOCK FALSE
