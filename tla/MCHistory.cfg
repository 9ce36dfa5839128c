SPECIFICATION HistorySpec
CONSTANTS
    Island = {a, b}
    QueueSize = 2
    BatchSize = 2
    MaxEvents = 4
    MaxTime = 2
    MaxOpens = 2
INVARIANTS
    ArrivalOrder
    LossesAreCounted
    AlertHasItsIsland
    AnchorIsCommitted
    OpenRowsAreOwned
    ShutdownLeavesNothing
PROPERTY
    ShutdownFinishes
CHECK_DEADLOCK FALSE
