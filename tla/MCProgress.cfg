SPECIFICATION Spec
CONSTANTS
    Scenarios = {"monitors", "vfs", "opening", "closing", "supervision", "stuck", "chain_sync", "wallet_db", "calls", "account", "payments", "expiring"}
    None = None
    Torn = Torn
    c1 = c1
    v1 = v1
    lsp = lsp
    t1 = t1
    s1 = s1
    s2 = s2
    o1 = o1
PROPERTIES
    PersisterProgresses
    ChannelsProgress
    NodeEnds
    CallersAreAnswered
    EventuallyRecorded
    LaggardsCatchUp
CHECK_DEADLOCK FALSE
