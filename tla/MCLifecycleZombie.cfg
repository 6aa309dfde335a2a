CONSTANTS
    Addrs = {a1}
    Callers = {t1}
    Conns = {c1, c2}
    None = None
    Calls = {"connect", "disconnect", "stop"}
    Failures = {"io"}
    a1 = a1
    t1 = t1
    c1 = c1
    c2 = c2
SPECIFICATION Spec
PROPERTIES StopCloses
