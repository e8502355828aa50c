SPECIFICATION Spec
CONSTANTS
    t1 = t1
    t2 = t2
    Null = Null
    Threads = {t1, t2}
    Quantities = {1, 2}
    MaxSessions = 2
    MaxLines = 2
    MaxUids = 3
    MaxItems = 2
SYMMETRY Interchangeable
CHECK_DEADLOCK FALSE
INVARIANTS
    RemovedLineLeftNoStock
