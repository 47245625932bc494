SPECIFICATION FairSpec
CONSTANTS
    Procs = {"p1", "p2"}
    Threads = {"t1", "t2", "t3"}
    ProcOf <- Workers
    Forced = {}
    Faults = {"storage", "network", "crash"}
    LastDay = 3
    QuietMidnight = TRUE
    NoThread = NoThread
    JobOf <- EachJob
    TradingDays = {1, 3}
    Listed <- Weeks
INVARIANTS
    TypeOK
    MasterIsOfTheDay
    DownloadsAreNeeded
    PickIsOfTheDay
PROPERTIES
    JobsEnd
CHECK_DEADLOCK FALSE
