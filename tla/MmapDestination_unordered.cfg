SPECIFICATION Spec
CONSTANTS
    Chunk = 2
    Sizes = {1, 3}
    MaxOffset = 5
    MaxOpens = 2
    MaxFails = 1
    MSync = TRUE
    StoresInOrder = FALSE
    Writeback = {"log", "len"}
    MachineCrashes = TRUE
INVARIANTS
    TypeOK
    QuiescentInPlace
    AckedIsPublished
    FlushedIsDurable
    
CHECK_DEADLOCK FALSE
