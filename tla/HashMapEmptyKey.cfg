\* The empty string is one of the keys: its zero bytes are what an unused slot
\* holds.
SPECIFICATION PointerSpec
CONSTANTS
    k1 = k1
    k2 = k2
    k3 = k3
    v1 = v1
    v2 = v2
    Key = {k1, k2, k3}
    Zero = k1
    Value = {v1, v2}
    ZeroValue = ZeroValue
    HashValues = {0, 1, 2}
    ByAddress = FALSE
    Caps = {1, 3}
    Fits = {}
    MaxCap = 6
    AllocMayFail = FALSE
    NoMap = NoMap
    NoArg = NoArg
    Free = Free
    Header <- HashMapSize
    Bucket <- BucketSize
    Types <- TypeList
    NoPointer = NoPointer
PROPERTY KeysStay
