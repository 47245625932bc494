SPECIFICATION Spec
CONSTANTS
    Runs = {"r1"}
    Users = {"ann"}
    Slots = {"s1"}
    TestSlots = {}
    Rows = {"row1", "row2"}
    RowUser <- TwoRowsOfAnn
    RowStrategy <- DemoRows
    StrategyOf <- OneSlot
    Plans <- HedgeLive
    Contracts <- AllContracts
    Price <- UnitPrice
    Funds <- AnnRich
    RunFaults = {}
    UserFaults <- AnnReject
    NoRun = NoRun
INVARIANTS
    FuturesAreHedged
CHECK_DEADLOCK FALSE
