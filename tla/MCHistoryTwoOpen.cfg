SPECIFICATION HistorySpec
CONSTANTS
    Island = {a, b}
    QueueSize = 2
    BatchSize = 2
    MaxEvents = 4
    MaxTime = 2
    MaxOpens = 2
INVARIANT OneSessionOpen
CHECK_DEADLOCK FALSE
