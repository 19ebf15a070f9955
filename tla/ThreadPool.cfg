SPECIFICATION Spec
CONSTANTS
    Pools = {"pool"}
    Desired <- MCDesired
    MaxCapacity <- MCMaxCapacity
    maxLoadPerThread = 1
    Tasks = {"t1", "p1", "r"}
    PoolOf <- MCPoolOf
    KindOf <- MCKindOf
    Elsewhere = 1
    Shortage = 1
    Faults = 1
    NoBlock = NoBlock
INVARIANTS TypeOK BlocksExclusive NoBadPointer CountIsReal
CHECK_DEADLOCK FALSE
PROPERTIES AcceptedTasksRun ClosedPoolsJoined
