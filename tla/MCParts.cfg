SPECIFICATION PartsSpec
CONSTANTS
    Island = {a, b, c}
    Stamp = {1, 2}
    Rev = {1, 2}
    NoTick = NoTick
    MaxTicks = 3
    Machine <- Machines
    Wanted <- GivenFlags
    NoFlag = NoFlag
    Nonsense = Nonsense
    Recordings <- Files
    NoTime = NoTime
CONSTRAINT BoundedSession
INVARIANTS
    CompleteNeverMixes
    EarlyHoldsEveryIsland
    CompleteLagsAtMostOneTick
    StaysInHousehold
PROPERTIES
    ImplementsWholeTicks
    SameOnEveryStart
    ImplementsPlayback
CHECK_DEADLOCK FALSE
