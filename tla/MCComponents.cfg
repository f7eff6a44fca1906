SPECIFICATION ComponentsSpec
CONSTANTS
    na = na
    nb = nb
    nc = nc
    nd = nd
\* Membership
    Accounts = {na, nb, nc, nd}
    Nodes <- MCNodes
    Drivers = {na}
    Ceremonies = {1, 2}
    SignerSets <- MCSignerSets
    FoundingSet <- Founders
    LedgerSet <- Founders
    Measurements = {"m1"}
    Anchors = {4}
    OwnLedger <- MCOwnLedger
    AcceptWindow = 2
    CosignQuorum = 2
    ReproMin = 2
    Rosters <- MCRosters
\* Dkg
    Dealers = {na, nb}
    Roster <- MCRoster
    Leaders = {na}
    DkgIds = {1, 2}
    Threshold = 2
    Faults = 1
    InFlight = 3
\* FrostRound
    Rounds = {1, 2}
    SignerIds = {1, 2, 3}
    AskedSets <- MCAskedSets
    RoundThreshold = 2
    MaxPerRound = 2
\* Migration
    Ports = {1, 2}
    OwnPort = 1
    Requests = {1, 2}
    Essential = {"account", "meta", "pool"}
    MayBeAbsent = {"nonces"}
    Overlap = 2
\* SafeProjection
    SafeMembers = {1, 2, 3, 4}
    SafeNodes = {1}
    KnownTo <- MCKnownTo
    SealedSet <- MCSealedSet
    Target <- MCTarget
    FirstSafes <- MCFirstSafes
    StepQuorum = 1
    MaxNonce = 3
    Publishers = {1}
    AskedSteps = {1, 2}
    MaxPublished = 1
\* Access
    Users = {"u", "op"}
    Operators = {"op"}
    Bodies <- MCBodies
    RosterVersions <- MCRosterVersions
    Drift = 1
    SessionTtl = 2
    LastTime = 3
    MaxSigned = 1
    AccessFaults = 1
INVARIANTS InSyncMeansOnChain SuccessIsShared UnverifiedOnlyAfterDrop StateHeld PlanExecutes CallsActForSigners RevokedIsDead
PROPERTIES ImplementsAuthority 
CHECK_DEADLOCK FALSE
