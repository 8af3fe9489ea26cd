\* Any size with any alignment: where the next block is put.
SPECIFICATION ListSpec
CONSTANTS
    Requests <- Mixed
    DefaultChunk = 10
    Word = 256
    MaxChunks = 3
    MaxBlocks = 4
    AllocMayFail = FALSE
    Node = {n1, n2, n3}
    Nil = Nil
    Unused = Unused
INVARIANT BlocksAligned
\* The program stops at unimplemented() and where it is undefined.
CHECK_DEADLOCK FALSE
