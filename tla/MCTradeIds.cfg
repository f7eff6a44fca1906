SPECIFICATION TradingSpec
CONSTANTS
    u1 = u1
    u2 = u2
    Users = {u1, u2}
    Requests <- MCRequests
    Closes <- NoCloses
    Handlers = {h1}
    Margins = {2}
    MaxCrashes = 1
    SqlFaults = 0
    MaxOrders = 3
    MaxRecent = 1
    StpCap = 1
    StpWindow = 1
    MaxNow = 0
    NoOrder = NoOrder
    Nobody = Nobody
INVARIANT TradesRecorded
CHECK_DEADLOCK FALSE
