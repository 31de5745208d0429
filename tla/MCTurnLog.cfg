SPECIFICATION FairSpec
CONSTANTS
    MaxFrames = 4
    MaxEntries = 3
    MaxFaults = 1
    FaultKinds = {"lost"}
    MayStop = TRUE
    MayPause = TRUE
CHECK_DEADLOCK FALSE
INVARIANTS
    LogIsTheTurn
    ReadersMissNothing
PROPERTIES
    LogDrains
