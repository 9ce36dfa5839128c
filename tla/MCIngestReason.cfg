CONSTANTS
    Island = {a}
    Stamp = {1}
    Rev = {1, 2}
    NoTick = NoTick
    Versions = {2, 3}
    SupportedVersion = 2
    MaxConn = 2
    MaxFrames = 3
    NoFrame = NoFrame
    NoRow = NoRow
SPECIFICATION IngestSpec
INVARIANT LostConnectionSaysWhy
