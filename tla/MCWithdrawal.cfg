SPECIFICATION WithdrawalSpec
CONSTANTS
    Withdrawals = {w1, w2}
    FirstSequence = 2
    Window = 1
    BufferLedgers = 9
    FaultKinds = {"crash", "sequence", "reply", "failed", "slot", "incoming"}
    MaxFaults = 1
    MaxLedger = 3
    MaxDefers = 1
    Foreign = Foreign
    NotPayment = NotPayment
    NoEntry = NoEntry
INVARIANTS TypeOK SettledAsPaid
PROPERTY ReservationsSettle
CHECK_DEADLOCK FALSE
