SPECIFICATION Spec
CONSTANTS
    Clients = {c1, c2}
    Expected <- Registered
    Sources <- TwoSources
    Tries = 3
    MaxSessions = 2
CHECK_DEADLOCK FALSE
INVARIANTS
    PublishedIsExact
PROPERTIES
    FilesKept
