SPECIFICATION Spec
CONSTANTS
    Runs = {"r1"}
    Users = {"ann"}
    Slots = {"s1"}
    TestSlots = {}
    Rows = {"row1", "row2"}
    RowUser <- TwoRowsOfAnn
    RowStrategy <- DemoRows
    StrategyOf <- OneSlot
    Plans <- StraddleLive
    Contracts <- AllContracts
    Price <- UnitPrice
    Funds <- AnnRich
    RunFaults = {}
    UserFaults <- AnnNotify
    NoRun = NoRun
INVARIANTS
    AcceptedLegsAreSeen
CHECK_DEADLOCK FALSE
