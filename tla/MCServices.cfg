SPECIFICATION MCSpec
CONSTANTS
    Scenarios = {"channels", "supervision", "start", "chain_sync", "receives", "peers", "peers_map"}
    None = None
    k1 = k1
    k2 = k2
    Clients = {k1, k2}
    ChannelSize = 1
    MaxTip = 1
    MaxErrors = 1
    CanTimeOut = TRUE
    CanShutDown = TRUE
    lsp = lsp
    other = other
    c1 = c1
    c2 = c2
INVARIANTS
    ChannelsAreSafe
    RunsAsPromised
    NoSyncIsMissed
PROPERTIES
    OkMeansConnected
SYMMETRY Symmetry
CHECK_DEADLOCK FALSE
