SPECIFICATION RetentionSpec
CONSTANTS
    RawRetention = 2
    BucketWidth = 2
    BucketRetention = 5
    Times = {1, 2, 3, 5, 8}
    MaxSamples = 4
    MaxOpens = 2
    Value <- ValueOf
    Peak <- PeakOf
INVARIANTS
    CountedOnce
    WidthIsTrue
    ExpiresOnlyOld
    OldRawIsLate
CHECK_DEADLOCK FALSE
