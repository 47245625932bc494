SPECIFICATION Spec
CONSTANTS
    Runs = {"r1", "r2"}
    Users = {"ann"}
    Slots = {"s1"}
    TestSlots = {}
    Rows = {"row1", "row2"}
    RowUser <- TwoRowsOfAnn
    RowStrategy <- DemoRows
    StrategyOf <- OneSlot
    Plans <- StraddleAnyMode
    Contracts <- AllContracts
    Price <- UnitPrice
    Funds <- AnnRich
    RunFaults = {"store", "crash"}
    UserFaults <- AnnAnyFault
    NoRun = NoRun
INVARIANTS
    TypeOK
    AtMostOneOrder
    OrdersAreAccounted
    ExitMatchesEntry
    SellsBackedByBuys
PROPERTIES
    ImplementsLedger
CHECK_DEADLOCK FALSE
