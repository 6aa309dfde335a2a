CONSTANTS
    Socks = {s1, s2}
    Tasks = {k1}
    None = None
    MaxInFlight = 1
    MaxDelay = 2
    Faults = {"loss"}
    s1 = s1
    s2 = s2
    k1 = k1
SPECIFICATION Spec
INVARIANTS KeepsServing
CHECK_DEADLOCK FALSE
