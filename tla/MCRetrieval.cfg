SPECIFICATION Spec
CONSTANTS
    Turns = {t1, t2}
    Jobs = {j1}
    Sizes = {1, 3, 5}
    Unpriced = unpriced
    SoftCap = 2
    HardCap = 4
    PollMin = 1
    PollMax = 2
    Timeout = 2
    PollLimit = 1
    MaxFaults = 2
    MaxRestarts = 1
CHECK_DEADLOCK FALSE
INVARIANTS
    RetrievalsKeepFaith
PROPERTIES
    WaitsEnd
