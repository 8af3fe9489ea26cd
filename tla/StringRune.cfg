\* Memory never runs out, and a rune still does not fit.
SPECIFICATION ViewSpec
CONSTANTS
    a = a
    b = b
    Byte <- Letters
    Strs <- ShortAndLong
    Runes <- RunesOfTwoSizes
    Caps = {4}
    Reserves = {2, 9}
    Word = 64
    MaxLen = 8
    AllocMayFail = FALSE
    Junk = Junk
INVARIANT RuneFits
CHECK_DEADLOCK FALSE
