SPECIFICATION Spec
CONSTANTS
    p1 = p1
    p2 = p2
    t1 = t1
    t2 = t2
    t3 = t3
    w1 = w1
    w2 = w2
    None = None
    Process = {p1, p2}
    Thread = {t1, t2, t3}
    ProcessOf <- MCProcessOf
    Worker = {w1, w2}
    ThreadCap = 1
    BatchSize = 2
    MaxHandle = 2
    Durations = {"timed"}
    Mishaps = {"abrupt", "alloc"}
CHECK_DEADLOCK FALSE
SYMMETRY WorkerSymmetry
INVARIANTS
    TypeOK
    LiveClientsKept
    SurvivesOrderlyClients
