SPECIFICATION Spec
CONSTANTS
    s1 = s1
    s2 = s2
    n1 = n1
    n2 = n2
    d1 = d1
    d2 = d2
    none = none
    a1 = a1
    a2 = a2
    Senders = {s1, s2}
    Names = {n1, n2}
    Dicts = {d1, d2}
    Contents = {none, a1, a2}
    NoAttrs = none
    Batch = 2
    MaxSends = 2
    MaxOpens = 2
    MaxFails = 1
    Closes = TRUE
    Races = TRUE
    Mutations = 1
SYMMETRY Symmetry
INVARIANTS
    NeverMislabelled
    InOrderOnce
CHECK_DEADLOCK FALSE
