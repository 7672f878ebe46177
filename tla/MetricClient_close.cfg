SPECIFICATION FairSpec
CONSTANTS
    s1 = s1
    s2 = s2
    n1 = n1
    n2 = n2
    d1 = d1
    d2 = d2
    none = none
    a1 = a1
    Senders = {s1, s2}
    Names = {n1, n2}
    Dicts = {d1, d2}
    Contents = {none, a1}
    NoAttrs = none
    Batch = 2
    MaxSends = 3
    MaxOpens = 1
    MaxFails = 0
    Closes = TRUE
    Races = FALSE
    Mutations = 0
INVARIANTS
    TypeOK
    LockHeld
    EveryRowDecodes
    NothingLost
    BatchBound
    CloseDrains
PROPERTY ImplementsChannel
CHECK_DEADLOCK FALSE
