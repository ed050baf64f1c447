SPECIFICATION FairSpec
CONSTANTS
    Cpus = {0, 1}
    Boot = 0
    None = 99
    Threshold = 2
    Pins = {0}
    Switches = {0, 1}
CHECK_DEADLOCK FALSE
INVARIANTS
    OneOwner
    StormBounded
PROPERTIES
    TrapReturns
    SwitchServed
