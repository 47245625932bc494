SPECIFICATION FairSpec
CONSTANTS
    Holidays <- Closed
    DayLength = 3
    Dawn = 1
    MarketOpen = 1
    MarketClose = 2
    FirstDay = 8
    LastDay = 9
    Trades = {"t1", "t2"}
    Opened <- Overnights
    Quoted = {"t1"}
    Workers = {"w1", "w2"}
    Faults = {"crash", "stale_beat", "redelivery", "store", "market", "raise"}
    NoTrade = NoTrade
    Instruments = {"NIFTY"}
    BeatTime <- Schedule
    Pick <- Nifty
    Triggers <- Asking
    ByHand = {"resume"}
    MaxSent = 2
    Users <- Accountholders
    Credentials <- Readability
    Visits <- Visiting
    RefreshAt = 1
    Trouble = {"broker", "store", "crash", "stale_beat"}
INVARIANTS
    TypeOK
    OneTradeADay
    OrdersAreAsked
    RefreshedTokensWork
    BalanceRecovers
PROPERTIES
    MessagesAreTaken
    NoTradeIsLeftOut
    OnlyValidationVerifies
    RefreshReachesEach
CHECK_DEADLOCK FALSE
