SPECIFICATION TailSpec
CONSTANTS
    Chunk = 2
    Sizes = {1, 3}
    MaxOffset = 5
    MaxOpens = 1
    MaxFails = 1
    MSync = TRUE
    StoresInOrder = TRUE
    Writeback = {"log"}
    MachineCrashes = FALSE
INVARIANTS
    TailTypeOK
    NeverGarbled
    EveryByteOnce
    PublishedInPlace
PROPERTIES
    ImplementsChannel
    PublishedBytesStable
CHECK_DEADLOCK FALSE
