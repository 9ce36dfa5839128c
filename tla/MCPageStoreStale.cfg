SPECIFICATION PageSpec
CONSTANTS
    Plays <- StartWatched
    QueueSize = 1
PROPERTY
    AlertsConverge
CHECK_DEADLOCK FALSE
