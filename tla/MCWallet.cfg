SPECIFICATION MCSpec
CONSTANTS
    Scenarios = {"sends", "send_faults", "send_reorgs", "wallet_db", "wallet_ops", "fees", "quotes"}
    None = None
    RpTxids = {t1, t2}
    Notes = {}
    Coins = {c1, c2, c3}
    MaxHeight = 6
    Bursts = {1, 5}
    Expiry = TRUE
    MaxReorgs = 1
    MaxFaults = 1
    t1 = t1
    t2 = t2
    c1 = c1
    c2 = c2
    t3 = t3
    c3 = c3
    s1 = s1
    o1 = o1
INVARIANTS
    RecordsAreTrue
    CommitsAreNoticed
    FeesAreOrdered
SYMMETRY Symmetry
CHECK_DEADLOCK FALSE
