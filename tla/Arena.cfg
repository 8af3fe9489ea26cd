\* Whole words of 4 bytes, aligned for one or two words; chunks of 18 or 27 bytes.
SPECIFICATION ListSpec
CONSTANTS
    Requests <- Words
    DefaultChunk = 18
    Word = 256
    MaxChunks = 3
    MaxBlocks = 3
    AllocMayFail = TRUE
    Node = {n1, n2, n3}
    Nil = Nil
    Unused = Unused
INVARIANTS
    TypeOK
    BlocksInside
    BlocksAligned
    BlocksDisjoint
    ListHoldsChunks
    IterationComplete
SYMMETRY AnyNode
\* The program stops at unimplemented() and where it is undefined.
CHECK_DEADLOCK FALSE
