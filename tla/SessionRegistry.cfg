SPECIFICATION FairSpec
CONSTANTS
    s1 = s1
    s2 = s2
    h1 = h1
    h2 = h2
    w1 = w1
    w2 = w2
    Sessions = {s1, s2}
    Handlers = {h1, h2}
    Workers = {w1, w2}
    NoSession = NoSession
    NoWorker = NoWorker
CHECK_DEADLOCK FALSE
INVARIANTS
    TypeOK
    WatchedOnce
    NeverLastPointer
PROPERTIES
    EventuallyWatched
    WorkersStop
