CONSTANTS
    Island = {1}
    Product = {1, 2}
    Reading <- LevelReadings
    MaxTime = 3
    StreakCap = 2
    Given <- GivenConfig
    MaxDropSamples = 3
    Unreadable = Unreadable
    NoAlert = NoAlert
    MaxPast <- MaxReadings
SPECIFICATION PastSpec
PROPERTY IdleReadingLeftOut
