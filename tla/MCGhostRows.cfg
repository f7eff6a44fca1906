SPECIFICATION TradingSpec
CONSTANTS
    u1 = u1
    u2 = u2
    Users = {u1, u2}
    Requests <- MCRequests
    Closes <- MCCloses
    Handlers = {h1}
    Margins = {2}
    MaxCrashes = 0
    SqlFaults = 0
    MaxOrders = 3
    MaxRecent = 1
    StpCap = 1
    StpWindow = 1
    MaxNow = 0
    NoOrder = NoOrder
    Nobody = Nobody
INVARIANT RowsMatchBook
CHECK_DEADLOCK FALSE
