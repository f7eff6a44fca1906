SPECIFICATION ProgressSpec
CONSTANTS
\* JoinBrain
    Sources = {1, 2}
    Newcomer = 3
    Lagging = {2}
    MaxEpoch = 2
    MaxRequests = 8
    JoinFaults = 1
\* Trading and OrderBook
    u1 = u1
    u2 = u2
    Users = {u1, u2}
    Requests <- MCRequests
    Closes <- MCCloses
    Handlers = {h1, h2}
    Margins = {2}
    MaxCrashes = 1
    SqlFaults = 1
    MaxOrders = 2
    MaxRecent = 1
    StpCap = 1
    StpWindow = 1
    MaxNow = 0
    NoOrder = NoOrder
    Nobody = Nobody
PROPERTIES JoinConcludes LaggardStopsServing RequestsFinish
CHECK_DEADLOCK FALSE
