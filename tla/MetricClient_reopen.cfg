SPECIFICATION Spec
CONSTANTS
    s1 = s1
    s2 = s2
    n1 = n1
    d1 = d1
    d2 = d2
    none = none
    a1 = a1
    Senders = {s1, s2}
    Names = {n1}
    Dicts = {d1, d2}
    Contents = {none, a1}
    NoAttrs = none
    Batch = 2
    MaxSends = 3
    MaxOpens = 2
    MaxFails = 0
    Closes = TRUE
    Races = TRUE
    Mutations = 0
SYMMETRY Symmetry
INVARIANTS
    EveryRowDecodes
CHECK_DEADLOCK FALSE
