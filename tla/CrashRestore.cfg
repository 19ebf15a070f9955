SPECIFICATION Spec
CONSTANTS
    n1 = n1
    n2 = n2
    Node = {n1}
    Value = {1}
    Original = 0
    None = None
    Faults = {"crash"}
    MaxStarts = 2
    MaxSent = 1
CHECK_DEADLOCK FALSE
INVARIANTS
    SaneAfterCrash
