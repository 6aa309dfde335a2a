CONSTANTS
    Msgs = {m1, m2}
    Workers = {w1}
    Calls = {"FIN", "REQ", "TOUCH", "disable"}
    MaxInFlight = 2
    Concurrent = 1
    DisableAuto = TRUE
    Heartbeat = Heartbeat
    Ignored = Ignored
    m1 = m1
    m2 = m2
    w1 = w1
SPECIFICATION Spec
SYMMETRY Symmetry
INVARIANTS SingleAnswer
PROPERTIES DeliverySpec
