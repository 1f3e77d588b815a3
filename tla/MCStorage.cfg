SPECIFICATION MCSpec
CONSTANTS
    Scenarios = {"vfs", "vfs_dirs", "vfs_lossy", "credentials", "seeds", "seeds_mock", "files", "backup"}
    None = None
    c1 = c1
    c2 = c2
    c3 = c3
    v1 = v1
    v2 = v2
    a = a
    b = b
    Users = {a, b}
    Values = {v1}
    Singletons = {"scorer"}
    Required = {"gdrive_credentials"}
    Monitors = {"txo1", "txo2"}
    PaymentIds = {p, q}
    Passwords <- SomePasswords
    MaxWrites = 3
    m1 = m1
    m2 = m2
    p = p
    q = q
INVARIANTS
    VfsIsAStore
    TokenOutlivesRequest
    OwnSeedUnseals
    FilesReadBack
SYMMETRY Symmetry
CHECK_DEADLOCK FALSE
