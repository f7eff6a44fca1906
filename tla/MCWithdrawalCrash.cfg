SPECIFICATION WithdrawalSpec
CONSTANTS
    Withdrawals = {w1}
    FirstSequence = 2
    Window = 1
    BufferLedgers = 9
    FaultKinds = {"crash"}
    MaxFaults = 1
    MaxLedger = 3
    MaxDefers = 1
    Foreign = Foreign
    NotPayment = NotPayment
    NoEntry = NoEntry
PROPERTY CrashLeavesSettleable
CHECK_DEADLOCK FALSE
