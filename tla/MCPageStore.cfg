SPECIFICATION PageSpec
CONSTANTS
    Plays <- AllPlays
    QueueSize = 1
INVARIANTS
    StreamIsNewest
    RepeatIsComing
PROPERTIES
    IslandsConverge
    ShutdownEndsStreams
CHECK_DEADLOCK FALSE
