SPECIFICATION NodeSpec
CONSTANTS
    RpTxids = {}
    Notes = {}
    None = None
    LnHashes = {i, k, o}
    Expiry = Expiry
    Groups = {{i, o}, {i, Expiry}, {k}}
    Cids = {}
    Txids = {}
    ConfCounts = {}
    LostReplies = TRUE
    InvHashes = {i}
    KsHashes = {k}
    OutHashes = {o}
    Expirable = {i}
    Faults = TRUE
CONSTRAINT InOneGroup
INVARIANTS
    RecordIsTrue
    PaidAtMostOnce
    NodeInv
