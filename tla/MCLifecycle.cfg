CONSTANTS
    Addrs = {a1, a2}
    Callers = {t1, t2}
    Conns = {c1, c2}
    None = None
    Calls = {"connect", "poll", "disconnect", "stop", "start"}
    Failures = {"io", "other", "deadline"}
    a1 = a1
    a2 = a2
    t1 = t1
    t2 = t2
    c1 = c1
    c2 = c2
SPECIFICATION FairSpec
INVARIANTS TypeOK CountMatches ListedOnce
PROPERTIES SessionsRetried SupervisorsEnd StopReturns
