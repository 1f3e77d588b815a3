SPECIFICATION MCSpec
CONSTANTS
    Scenarios = {"db", "db_notes", "db_pair", "db_sync", "db_faults", "account", "account_others", "amounts", "uris"}
    None = None
    Torn = Torn
    Panic = Panic
    MsatPerSat = 10
    Sub = 2
    MaxMsat = 127
    Operands = {0, 1, 19, 20, 254, 260}
    Scalars = {0, 1, 2, 10}
    MaxSteps = 3
    s1 = s1
    s2 = s2
    c1 = c1
    c2 = c2
INVARIANTS
    CopyIsConsistent
    AmountsAreExact
    UrisAreFaithful
PROPERTIES
    CopyMissesNothing
    AccountIsKept
SYMMETRY Symmetry
CHECK_DEADLOCK FALSE
