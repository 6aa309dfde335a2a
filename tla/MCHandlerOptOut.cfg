CONSTANTS
    Msgs = {m1}
    Workers = {w1}
    Calls = {"FIN", "disable"}
    MaxInFlight = 1
    Concurrent = 1
    DisableAuto = FALSE
    Heartbeat = Heartbeat
    Ignored = Ignored
    m1 = m1
    w1 = w1
SPECIFICATION Spec
INVARIANTS OptOutHonoured
