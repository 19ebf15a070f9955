SPECIFICATION Spec
CONSTANTS
    n1 = n1
    n2 = n2
    Node = {n1, n2}
    Value = {1}
    Original = 0
    None = None
    Faults = {"init", "listener", "crash"}
    MaxStarts = 2
    MaxSent = 2
CHECK_DEADLOCK FALSE
INVARIANTS
    TypeOK
    RestoredAtExit
    PoolsOutliveUsers
PROPERTIES
    StopFinishes
