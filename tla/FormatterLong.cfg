\* "%ld" is refused.
SPECIFICATION DbgSpec
CONSTANTS
    Runes = {"%", "l", "d", "x"}
    MaxRunes = 4
    Formats <- Strings
    Texts <- Word
    Slices <- Word
    MaxLevel = 1
    WriteMayFail = FALSE
INVARIANT WellFormedSucceeds
CHECK_DEADLOCK FALSE
