SPECIFICATION FairSpec
CONSTANTS
    c1 = c1
    c2 = c2
    c3 = c3
    s1 = s1
    s2 = s2
    g1 = g1
    None = None
    Calls = {c1, c2, c3}
    Requests = {s1, s2, g1}
    Satellite = {s1, s2}
    Lists <- SomeLists
    MaxRuns = 2
    MaxRounds = 2
    MaxTotal = 2
    MaxSatellite = 1
    MaxFaults = 1
CHECK_DEADLOCK FALSE
INVARIANTS
    BooksBalance
PROPERTIES
    CallsReturn
    KeepsPromise
