SPECIFICATION FairSpec
CONSTANTS
    ConnRing = 3
    FeedFaults = {"connect", "subscribe", "close", "beat", "garbled"}
    Loops = {"g1", "g2", "g3"}
    Owner = Owner
    NoLoop = NoLoop
    CallbackMayStop = TRUE
    Orders = {"o1", "o2", "o3"}
    NoOrder = NoOrder
    FeedAccounts = 4
    Preferred = {0, 1, 3}
INVARIANTS
    TypeOK
    BeatsEndWithConnection
    OneTickAfterStop
    AnswerIsTrue
    FeedFallsBack
PROPERTIES
    StopEndsFeed
    StopEndsTimer
    FeedReconnects
    WaitEnds
CHECK_DEADLOCK FALSE
