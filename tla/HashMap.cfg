\* Three keys from a map of one slot up: growth at counts 0 and 2.
SPECIFICATION PointerSpec
SYMMETRY Symmetry
CONSTANTS
    k1 = k1
    k2 = k2
    k3 = k3
    v1 = v1
    v2 = v2
    Key = {k1, k2, k3}
    Zero = Zero
    Value = {v1, v2}
    ZeroValue = ZeroValue
    HashValues = {0, 3, 5}
    ByAddress = FALSE
    Caps = {1, 3}
    Fits = {1, 3}
    MaxCap = 6
    AllocMayFail = TRUE
    NoMap = NoMap
    NoArg = NoArg
    Free = Free
    Header <- HashMapSize
    Bucket <- BucketSize
    Types <- TypeList
    NoPointer = NoPointer
INVARIANTS
    TypeOK
    NoPanic
    LookupAgrees
    PointerIsCurrent
    PartsFit
PROPERTIES
    RoomAskedFor
    IsDictionary
CHECK_DEADLOCK FALSE
