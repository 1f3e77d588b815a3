SPECIFICATION Spec
CONSTANTS
    RpTxids = {r1}
    Notes = {n1}
    None = None
    LnHashes = {h1, h2}
    Cids = {c1}
    Txids = {t1}
    Groups = {{h1, h2}, {c1, t1}, {h1, c1}, {h1, t1}}
    ConfCounts = {5, 6}
    LostReplies = FALSE
CONSTRAINT InOneGroup
INVARIANTS
    InSync
    ConfsSnapshotStaysValid
PROPERTIES
    LifecycleSpec
