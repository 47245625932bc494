SPECIFICATION FairSpec
CONSTANTS
    Runs = {"r1", "r2"}
    Users = {"ann", "bob"}
    Slots = {"s1"}
    TestSlots = {}
    Rows = {"row1", "row2"}
    RowUser <- OneRowEach
    RowStrategy <- DemoRows
    StrategyOf <- OneSlot
    Plans <- HedgeAnyPlan
    Contracts <- AllContracts
    Price <- UnitPrice
    Funds <- BothFour
    RunFaults = {}
    UserFaults <- AnnBrokerBobNone
    NoRun = NoRun
INVARIANTS
    LegOrder
    TableMatchesBroker
    GatedLegsAreAccepted
PROPERTIES
    PositionsAreClosed
CHECK_DEADLOCK FALSE
