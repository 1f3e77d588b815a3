SPECIFICATION NodeSpec
CONSTANTS
    RpTxids = {}
    Notes = {}
    None = None
    LnHashes = {o}
    Expiry = Expiry
    Groups = {{o}}
    Cids = {}
    Txids = {}
    ConfCounts = {}
    LostReplies = FALSE
    InvHashes = {}
    KsHashes = {}
    OutHashes = {o}
    Expirable = {}
    Faults = TRUE
INVARIANT HandlingIsIdempotent
