CONSTANTS
    Msgs = {m1, m2, m3}
    Workers = {}
    Calls = {}
    MaxInFlight = 3
    Concurrent = 2
    DisableAuto = FALSE
    Heartbeat = Heartbeat
    Ignored = Ignored
    m1 = m1
    m2 = m2
    m3 = m3
SPECIFICATION FairSpec
INVARIANTS TypeOK ReplenishDuty StatsLedger NoSilentDrop
PROPERTIES DeliveryAnswered HeartbeatAnswered StopObserved
