SPECIFICATION Spec
CONSTANTS
    Runs = {"r1", "r2"}
    Users = {"ann"}
    Slots = {"t1"}
    TestSlots = {"t1"}
    Rows = {"row1", "row2"}
    RowUser <- TwoRowsOfAnn
    RowStrategy <- DemoRows
    StrategyOf <- TestOnly
    Plans <- TestDryBuy
    Contracts <- AllContracts
    Price <- UnitPrice
    Funds <- AnnRich
    RunFaults = {}
    UserFaults <- AnnNoFault
    NoRun = NoRun
INVARIANTS
    NoPhantomSell
CHECK_DEADLOCK FALSE
