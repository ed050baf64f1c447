SPECIFICATION FairSpec
CONSTANTS
    Cids = {0}
    GenModulus = 4
    TruncModulus = 2
    AdminCommands <- MCCommands
    AdminDepth = 2
    IoDepth = 3
    ProxyMayYield = TRUE
INVARIANTS
    InterruptTruth
    ArmedExactly
    IoRingExact
    NoLostWakeup
PROPERTIES
    NoStaleCompletion
    ShutdownQuiesces
    BacklogDrains
