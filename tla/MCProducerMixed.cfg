CONSTANTS
    Tasks = {t1, t2}
    Msgs = {m1, m2}
    Conns = {c1}
    None = None
    MaxTries = 1
    Faults = {"reject"}
    t1 = t1
    t2 = t2
    m1 = m1
    m2 = m2
    c1 = c1
SPECIFICATION Spec
INVARIANTS AckedIsStored
