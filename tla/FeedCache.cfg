SPECIFICATION FairSpec
CONSTANTS
    NWorks = 2
    ConnIds = {1, 2}
    MaxFeeds = 2
    MaxOpens = 2
    MaxPulls = 2
    MaxFaults = 1
    QueueCap = 1
INVARIANTS TypeOK OneTaskPerQueue NoDuplicate StopKeeps
PROPERTIES Answered Stops
CHECK_DEADLOCK FALSE
