\* A failed assertion and an undefined access end the behaviour.
SPECIFICATION ReserveSpec
CONSTANTS
    p = p
    q = q
    Nil = Nil
    Unused = Unused
    Zero = Zero
    Handle = {x, y}
    Block = {b1, b2, b3}
    Allocators = {malloc, arena}
    Arenas = {arena}
    Item = {p, q}
    Caps = {0, 2}
    Slices <- SomeSlices
    Reserves = {1, 2}
    DARR_DEFAULT_INIT_CAP = 2
    MaxLen = 3
    AllocMayFail = TRUE
INVARIANTS
    TypeOK
    Owned
    FreedByMaker
    SignedIndexAgrees
PROPERTIES
    IsArrays
    ReserveIsKept
SYMMETRY AnyNames
CHECK_DEADLOCK FALSE
