SPECIFICATION FairSpec
CONSTANTS
    s1 = s1
    n1 = n1
    d1 = d1
    none = none
    a1 = a1
    Senders = {s1}
    Names = {n1}
    Dicts = {d1}
    Contents = {none, a1}
    NoAttrs = none
    Batch = 2
    MaxSends = 3
    MaxOpens = 1
    MaxFails = 1
    Closes = FALSE
    Races = FALSE
    Mutations = 0
PROPERTY DelayEnforced
CHECK_DEADLOCK FALSE
