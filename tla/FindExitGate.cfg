SPECIFICATION FairSpec
CONSTANTS
    Runs = {"r1"}
    Users = {"ann", "bob"}
    Slots = {"s1"}
    TestSlots = {}
    Rows = {"row1", "row2"}
    RowUser <- OneRowEach
    RowStrategy <- DemoRows
    StrategyOf <- OneSlot
    Plans <- StraddleLive
    Contracts <- AllContracts
    Price <- UnitPrice
    Funds <- TwoAndOne
    RunFaults = {}
    UserFaults <- NoFault
    NoRun = NoRun
PROPERTIES
    PositionsAreClosed
CHECK_DEADLOCK FALSE
