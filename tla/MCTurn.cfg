SPECIFICATION Spec
CONSTANTS
  Jobs = {"j1"}
  Charts = {"c1"}
  Interval = 2
  Deadline = 3
  MaxEvents = 3
  MaxStoreFaults = 1
  Runs = {1, 2, 3}
  BatchOf <- MCBatchOf
  Places = {"p1", "p2"}
  MaxCalls = 2
  MaxHandles = 2
  MaxDbFaults = 1
CHECK_DEADLOCK FALSE
INVARIANTS
    EndingsAreWhole
PROPERTIES
    TurnsEnd
    ContextStands
