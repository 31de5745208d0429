SPECIFICATION FairSpec
CONSTANTS
    h1 = h1
    h2 = h2
    h3 = h3
    e1 = e1
    e2 = e2
    Heavy = {h1, h2, h3}
    Exports = {e1}
    Limit = 2
    QueueMultiple = 1
    ExportWorkers = 1
INVARIANTS
    LimiterIsSound
    NoLostWakeup
PROPERTIES
    NoOvertaking
    EverybodyMovesOn
