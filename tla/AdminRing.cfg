SPECIFICATION FairSpec
CONSTANTS
    Cids = {0, 1, 2}
    GenModulus = 2
    Commands <- RingCommands
    MaxDepth = 3
    DriverCorrect = TRUE
INVARIANTS
    CompletionsTrue
    OwnerAgrees
    SlotReserved
    PendingExact
    PhaseDiscipline
PROPERTIES
    ImplementsQueue
    FatalIsSilent
    CommandsComplete
