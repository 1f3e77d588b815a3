SPECIFICATION MCSpec
CONSTANTS
    Scenarios = {"auth", "routes", "calls", "lossy_call", "tls", "tls_uptime", "tls_mock"}
    None = None
    c1 = c1
    c2 = c2
    Callers = {c1, c2}
    Lifetime = 6
    Margin = 3
    Timeout = 1
    AuthTimeout = 1
    MaxSkew = 3
    MaxTime = 7
    MaxFaults = 3
    k1 = k1
    k2 = k2
    u1 = u1
    u2 = u2
    n1 = n1
    n2 = n2
INVARIANTS
    FreshWhenUsed
    ResultIsTrue
    AtMostOnce
    ConnsAreTrusted
    OwnNodeIsReachable
SYMMETRY Symmetry
CHECK_DEADLOCK FALSE
