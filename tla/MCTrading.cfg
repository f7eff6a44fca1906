SPECIFICATION TradingSpec
SYMMETRY HandlerSymmetry
CONSTANTS
    u1 = u1
    u2 = u2
    Users = {u1, u2}
    Requests <- MCRequests
    Closes <- MCCloses
    Handlers = {h1, h2}
    Margins = {1, 2}
    MaxCrashes = 1
    SqlFaults = 1
    MaxOrders = 3
    MaxRecent = 1
    StpCap = 1
    StpWindow = 1
    MaxNow = 0
    NoOrder = NoOrder
    Nobody = Nobody
INVARIANTS BookWellFormed   RecordedTradesPublished
CHECK_DEADLOCK FALSE
