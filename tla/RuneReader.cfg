\* Reading stops at the end of the string.
SPECIFICATION Spec
CONSTANTS
    Runes <- Boundaries
    MaxRunes = 3
    MaxCut = 3
INVARIANTS
    Transcodes
    CutIsFound
PROPERTY Ends
CHECK_DEADLOCK FALSE
