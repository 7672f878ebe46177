SPECIFICATION Spec
CONSTANTS
    NotFound = NotFound
    Words <- MCWords
    Headers <- MCHeaders
    MaxTexts <- MCMaxTexts
    None = None
    Floats = {"r1", "r2"}
    TornCopies = TRUE
    MaxUpgrades = 1
    MaxRuns = 2
    Half = 128
    Two32 = 16
    Blocks = 2
    MaxEvents = 2
    Servers <- MCServers
    Steps <- MCSteps
VIEW MCView
INVARIANTS
    TypeOK
    PatchedAsAsked
    EditsLand
    WorkerImports
    CountedOnce
    LoggedAsAppended
    PublishedAsComputed
PROPERTY ComputedAsPristine
CHECK_DEADLOCK FALSE
