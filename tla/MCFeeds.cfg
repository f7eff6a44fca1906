SPECIFICATION FeedsSpec
CONSTANTS
\* Deposits
    Validators = {v1, v2}
    ValQuorum = 2
    EscrowTxs <- MCEscrowTxs
    LastLedger = 2
    BufferLedgers = 1
    PageLimit = 1
    MaxPages = 2
    DepositFaults = 2
\* Replication
    Nodes = {a, b}
    FirstLeader = a
    OrderKinds = {"open", "shrunk"}
    VaultNodes = {}
    MaxFills = 2
    MaxTerms = 2
    MaxClock = 2
    Skew = 1
    FwdTol = 1
    MaxLag = 0
    MaxLost = 1
    MaxRefusals = 1
\* SigningRelay
    Asker = "a"
    Peers = {"b", "c"}
    Relays <- MCRelays
    Cosigners = {"a", "b"}
    RateMax = 1
    ReplayTtl = 2
    CopyLife = 1
    MaxMinutes = 2
    Batches <- MCBatches
    MaxSlips = 1
\* SpvBundle
    Nibbles = {0, 1}
    KeyLen = 4
    Ledgers <- MCLedgers
    Escrow <- MCEscrow
    BundleQuorum = 2
    VlLengths <- MCVlLengths
    BundleFaults = 1
\* MainLoop
    LoopNodes = {a}
    AnchoredSets <- MCAnchoredSets
    PriceEvery = 1
    LiquidateEvery = 1
    FundingEvery = 2
    LastTick = 4
    LoopFaults = 2
INVARIANTS MonitorSkipsNothing SignedOnce TreeIsCanonical BundleProvesTarget FundingSpaced
PROPERTIES ClockCatchesUp ReplicaCatchesUp
CHECK_DEADLOCK FALSE
