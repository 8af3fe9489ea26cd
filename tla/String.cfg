\* A failed assertion and a byte outside the buffer end the behaviour.
SPECIFICATION ViewSpec
CONSTANTS
    a = a
    b = b
    Byte <- Letters
    Strs <- ShortAndLong
    Runes <- RunesOfTwoSizes
    Caps = {1, 3}
    Reserves = {2, 9}
    Word = 64
    MaxLen = 11
    AllocMayFail = TRUE
    Junk = Junk
INVARIANTS
    RoomForThreeTimes
    OwnTextIsAdded
PROPERTY IsText
CHECK_DEADLOCK FALSE
