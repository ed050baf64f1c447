SPECIFICATION FairSpec
CONSTANTS
    Clients = {c1, c2}
    Size = 5
    Cap = 2
    Tries = 3
    MaxSessions = 2
CHECK_DEADLOCK FALSE
INVARIANTS
    PartIsPrefix
PROPERTIES
    ClientEnds
