SPECIFICATION PatcherSpec
CONSTANTS
    NotFound = NotFound
    Words <- MCWords
    Headers <- MCHeaders
    MaxTexts <- MCMaxTexts
    TornCopies = FALSE
    MaxUpgrades = 1
    MaxRuns = 2
INVARIANT OriginalKept
CHECK_DEADLOCK FALSE
