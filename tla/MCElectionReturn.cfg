SPECIFICATION ReturnSpec
CONSTANTS
    Nodes = {0, 1}
    Priority <- Ranked
    Timeout = 1
    MaxCrashes = 1
    MaxInFlight = 2
    None = None
PROPERTY ReturningNodeDoesNotReclaim
