SPECIFICATION StageSpec
CONSTANTS
    Blocks = 4
    Pages = 2
    Words = 2
    RamBase = 4
    Base = 10
    Ranges <- MCRanges
    HwOffsets = {2, 4}
    SwOffsets = {1}
    Hooks = {100}
    MaxCalls = 3
    Accesses <- MCAccesses
CHECK_DEADLOCK FALSE
INVARIANTS
    MapExact
    TablesAccounted
    EmulationExact
