SPECIFICATION VgicSpec
CONSTANTS
    LRs = 2
    QueueSize = 2
    Levels = {18, 857, 698}
    Devices = {605}
    Sgis = {1}
INVARIANTS
    OneBridged
