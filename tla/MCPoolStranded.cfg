CONSTANTS
    Tasks = {t1, t2}
    Conns = {c1, c2}
    None = None
    InitialCap = 1
    MaxIdle = 1
    MaxCap = 1
    Calls = {"get", "put"}
    Faults = {}
    MaxCancelled = 0
    t1 = t1
    t2 = t2
    c1 = c1
    c2 = c2
SPECIFICATION Spec
CHECK_DEADLOCK FALSE
INVARIANTS NoStranding
