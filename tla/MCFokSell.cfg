SPECIFICATION BookSpec
CONSTANTS
    Users = {u1, u2}
    MCPrices = {1, 2}
    MCSizes = {1}
    Requests <- FokRequests
    MaxOrders = 3
    MaxRecent = 1
    StpCap = 1
    StpWindow = 1
    MaxNow = 0
    NoOrder = NoOrder
PROPERTY FokKilledOnlyIfShort
