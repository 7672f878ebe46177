SPECIFICATION FairSpec
CONSTANTS
    p1 = p1
    p2 = p2
    h1 = h1
    none = none
    Producers = {p1, p2}
    Counters = {}
    Gauges = {}
    Histograms = {h1}
    Unknown = {}
    Labels = {none}
    NoLabels = none
    Values = {1, 2}
    Times = {1, 2}
    Bounds = {0, 1}
    Width = 4
    MaxRows = 2
    Crashes = {p1}
    DiesEarly = {p1}
PROPERTY
    EveryStreamRead
CHECK_DEADLOCK FALSE
