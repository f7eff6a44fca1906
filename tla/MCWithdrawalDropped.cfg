SPECIFICATION WithdrawalSpec
CONSTANTS
    Withdrawals = {w1, w2}
    FirstSequence = 2
    Window = 1
    BufferLedgers = 9
    FaultKinds = {}
    MaxFaults = 0
    MaxLedger = 3
    MaxDefers = 0
    Foreign = Foreign
    NotPayment = NotPayment
    NoEntry = NoEntry
PROPERTY EntryOutlivesRow
CHECK_DEADLOCK FALSE
