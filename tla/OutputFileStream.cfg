\* A buffer of three bytes, or none.  fwrite may take less than it is given,
\* and fflush may fail.
SPECIFICATION FairSpec
CONSTANTS
    x = x
    y = y
    NoByte = NoByte
    Byte <- MCByte
    Requests <- MCRequests
    BufferSize = 3
    MaxBytes = 7
    FileFaults = {"short", "fflush"}
    AllocMayFail = TRUE
INVARIANTS
    TypeOK
    NothingLeftBehind
    FlushDelivers
PROPERTIES
    IsByteStream
    WriteReturns
