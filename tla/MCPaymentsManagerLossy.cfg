SPECIFICATION Spec
CONSTANTS
    RpTxids = {r1}
    Notes = {n1}
    None = None
    LnHashes = {h1}
    Cids = {c1}
    Txids = {}
    Groups = {{h1, c1}}
    ConfCounts = {5, 6}
    LostReplies = TRUE
CONSTRAINT InOneGroup
INVARIANTS
    MemoryNotAhead
    ClaimedIsRecorded
    IInv
