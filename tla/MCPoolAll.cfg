CONSTANTS
    Tasks = {t1, t2, t3}
    Conns = {c1, c2, c3, c4}
    None = None
    InitialCap = 2
    MaxIdle = 1
    MaxCap = 2
    Calls = {"get", "put", "clean", "release"}
    Faults = {"stale", "expired", "closer", "factory"}
    MaxCancelled = 1
    t1 = t1
    t2 = t2
    t3 = t3
    c1 = c1
    c2 = c2
    c3 = c3
    c4 = c4
SPECIFICATION Spec
CHECK_DEADLOCK FALSE
SYMMETRY Symmetry
INVARIANTS TypeOK Exclusive UsableIsOpen CountCovers CapRespected LockCycles
