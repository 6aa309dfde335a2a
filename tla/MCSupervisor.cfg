CONSTANTS
    Socks = {s1, s2}
    Tasks = {k1, k2}
    None = None
    MaxInFlight = 2
    MaxDelay = 4
    Faults = {"loss", "stall", "refuse", "stop"}
    s1 = s1
    s2 = s2
    k1 = k1
    k2 = k2
SPECIFICATION FairSpec
INVARIANTS TypeOK InStep QuickAgain
PROPERTIES SupervisesAsDeclared Resubscribed PermitReturns
CHECK_DEADLOCK FALSE
