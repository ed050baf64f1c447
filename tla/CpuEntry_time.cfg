SPECIFICATION Spec
CONSTANTS
    Cpus = {0, 1, 2}
    Boot = 0
    None = 99
    Threshold = 2
    Pins = {}
    Switches = {}
INVARIANTS
    SameTime
