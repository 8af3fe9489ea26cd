\* Any string.  A malformed one may end the program.
SPECIFICATION DbgSpec
CONSTANTS
    Runes <- AnyRunes
    MaxRunes = 4
    Formats <- Strings
    Texts <- Words
    Slices <- UpToThree
    MaxLevel = 1
    WriteMayFail = TRUE
INVARIANTS
    TypeOK
    PlainRenders
    PlainSucceeds
    PadsBeforeText
    OnlyEmptySliceStops
PROPERTY CallReturns
CHECK_DEADLOCK FALSE
