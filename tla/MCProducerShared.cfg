CONSTANTS
    Tasks = {t1, t2}
    Msgs = {m1, m2}
    Conns = {c1, c2}
    None = None
    MaxTries = 2
    Faults = {"loss", "reject", "timeout", "heartbeat"}
    t1 = t1
    t2 = t2
    m1 = m1
    m2 = m2
    c1 = c1
    c2 = c2
SPECIFICATION Spec
SYMMETRY Symmetry
INVARIANTS TypeOK FrameForEachReader AcksCovered
