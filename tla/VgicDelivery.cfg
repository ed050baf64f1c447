SPECIFICATION VgicFairSpec
CONSTANTS
    LRs = 2
    QueueSize = 2
    Levels = {18, 900}
    Devices = {605}
    Sgis = {1}
INVARIANTS
    OneOutstanding
    NoStrandedQueue
    MaskMatchesCopy
PROPERTIES
    SgiDelivered
    TimerDelivered
