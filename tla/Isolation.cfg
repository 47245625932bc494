SPECIFICATION FairSpec
CONSTANTS
    Runs = {"r1"}
    Users = {"ann", "bob"}
    Slots = {"s1", "t1"}
    TestSlots = {"t1"}
    Rows = {"row1", "row2"}
    RowUser <- OneRowEach
    RowStrategy <- DemoRows
    StrategyOf <- DemoTest
    Plans <- StraddleOrTest
    Contracts <- AllContracts
    Price <- UnitPrice
    Funds <- BothRich
    RunFaults = {"store", "churn"}
    UserFaults <- AnnAnyBobNone
    NoRun = NoRun
PROPERTIES
    RunsEnd
    EntryReachesHealthyUsers
CHECK_DEADLOCK FALSE
