SPECIFICATION Spec
CONSTANTS
    Sizes = {1, 3, 5}
    Capacity = 4
    MaxRecords = 3
    MaxFails = 1
    Tears = FALSE
INVARIANTS
    TypeOK
    BytesInPlace
    PendingCovers
    ExitDrains
PROPERTIES
    EveryRecordOut
    ImplementsChannel
CHECK_DEADLOCK FALSE
