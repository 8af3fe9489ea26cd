\* Two threads, a buffer of two bytes.  Returning from main, an
\* assertion, a null raise and a race end the program.
SPECIFICATION PrintSpec
CONSTANTS
    x = x
    y = y
    NoByte = NoByte
    Byte <- MCByte
    Requests <- MCRequests
    Prints <- MCPrints
    BufferSize = 2
    MaxBytes = 6
    FileFaults = {"short", "fflush"}
    AllocMayFail = TRUE
    Thread = {s, t}
    Nobody = Nobody
    NoPrint = NoPrint
INVARIANTS
    PrintedStays
    PrintIsWhole
PROPERTIES
    OnlyStartAndExitLose
    PrintReturns
CHECK_DEADLOCK FALSE
