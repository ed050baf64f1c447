SPECIFICATION FairSpec
CONSTANTS
    Operators <- OneOperator
    Workers <- TwoWorkers
    MaxJobs = 2
    MaxChunks = 1
    MaxSessions = 2
    MaxRepeats = 1
CHECK_DEADLOCK FALSE
INVARIANTS
    RunsOnce
    LogIsFaithful
PROPERTIES
    JobReports
