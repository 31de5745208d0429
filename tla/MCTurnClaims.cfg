SPECIFICATION Spec
CONSTANTS
    u1 = u1
    u2 = u2
    u3 = u3
    t1 = t1
    k1 = k1
    r1 = r1
    r2 = r2
    None = None
    Turns = {u1, u2, u3}
    Threads = {t1}
    Keys = {k1}
    Replicas = {r1, r2}
    ThreadOf <- ThreeOnOneThread
    KeyOf <- RetryAndOther
    HomeOf <- TwoHomes
    TTL = 3
    MaxLate = 1
    MaxFaults = 1
    FaultPoints = {"claim", "flag", "release", "renew"}
    Stoppable = {}
    Drainable = {}
    Crashable = {r2}
    Fading = {t1}
INVARIANTS
    OneTurnAtATime
    ReaderFindsTurn
