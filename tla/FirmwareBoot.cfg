SPECIFICATION Spec
CONSTANTS
    Offers <- MCOffers
    NoOffer <- MCNoOffer
    VramSize = 2
    MaxErr = 1
    WaitTicks = 2
    RpcTicks = 3
    HoldTicks = 1
    MaxAttempts = 2
    MaxEdges = 3
    MaxNoise = 1
    Wrap = 32
    Granule = 2
    ImageAlign = 4
    BootArgs = 8
    MaxAdt = 4
    BootArgsLen = 1
    Machines <- MCMachines
    NoMachine = NoMachine
    Modulus = 64
    Second = 4
    Deadline = 2
    MaxPolls = 2
    MaxSpan = 3
    UtcMin = 2
    UtcMax = 11
    Clocks <- MCClocks
    MaxTime = 6
    None = None
    IdleAttempts = 2
    Nothing = Nothing
    HideBase = 3
    PhysBase = 4
    MemSizes = {2, 6, 8}
    PaLimit = 14
    DartPage = 2
    KeepPages = 4
    MinLowFree = 2
    UsedSets <- MCUsedSets
    MaxChanges = 1
    MaxOptions = 1
CHECK_DEADLOCK FALSE
INVARIANTS
    HandoffIntact
    TimeHonest
    PstateHonest
    SnapshotExact
    ScanoutMatches
PROPERTIES
    BootCompletes
