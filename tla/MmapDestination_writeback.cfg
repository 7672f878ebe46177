SPECIFICATION Spec
CONSTANTS
    Chunk = 2
    Sizes = {1, 3}
    MaxOffset = 5
    MaxOpens = 1
    MaxFails = 0
    MSync = TRUE
    StoresInOrder = TRUE
    Writeback = {"len"}
    MachineCrashes = TRUE
INVARIANTS
    DurableInPlace
CHECK_DEADLOCK FALSE
