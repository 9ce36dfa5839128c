CONSTANTS
    Island = {1}
    Product = {1, 2}
    Reading <- Readings
    MaxTime = 2
    StreakCap = 2
    Given <- GivenConfig
    MaxDropSamples = 3
    Unreadable = Unreadable
    NoAlert = NoAlert
    MaxPast <- MaxReadings
SPECIFICATION PastSpec
INVARIANTS
    BaselineIsTrailing
    RaisedByNewest
    DeficitByHistory
    OpenDropMatters
PROPERTY ImplementsAlertLog
