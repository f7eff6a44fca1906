SPECIFICATION CoreSpec
CONSTANTS
\* OrderBook
    Users = {u1, u2}
    MCPrices = {1, 2}
    MCSizes = {1, 2}
    Requests <- MCRequests
    MaxOrders = 3
    MaxRecent = 1
    StpCap = 1
    StpWindow = 1
    MaxNow = 1
    NoOrder = NoOrder
\* Election
    Nodes = {0, 1, 2}
    Priority <- Ranked
    Timeout = 1
    MaxCrashes = 2
    MaxInFlight = 2
    None = None
INVARIANTS TypeOK BookWellFormed NotCrossed StpBudget RoleMatchesLeader
PROPERTIES PriceTimePriority MatchingConserves ReportedOpenIffResting FokLeavesNoRemainder SubmissionEnds YieldsOnlyUpward ConvergesToOneSequencer
