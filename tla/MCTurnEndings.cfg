SPECIFICATION FairSpec
CONSTANTS
    u1 = u1
    u2 = u2
    u3 = u3
    t1 = t1
    k1 = k1
    r1 = r1
    r2 = r2
    None = None
    Turns = {u1, u2}
    Threads = {t1}
    Keys = {k1}
    Replicas = {r1, r2}
    ThreadOf <- TwoOnOneThread
    KeyOf <- NoKeys
    HomeOf <- HomeEach
    TTL = 2
    MaxLate = 0
    MaxFaults = 1
    FaultPoints = {"claim", "mark", "release", "produce", "drain", "recheck"}
    Stoppable = {u1}
    Drainable = {r1}
    Crashable = {r1}
    Fading = {}
INVARIANTS
    EndingsAreTold
PROPERTIES
    EndedTurnsStaySilent
    TurnsLetGo
