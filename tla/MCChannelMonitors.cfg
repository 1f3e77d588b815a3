SPECIFICATION Spec
CONSTANTS
    Channels = {c1, c2}
    MaxUpdateId = 2
    QueueSize = 2
    GoogleVfs = TRUE
    None = None
INVARIANTS
    AckedIsDurable
    ManagerNotAhead
PROPERTIES
    MonitorsNeverRollBack
SYMMETRY Symmetry
CHECK_DEADLOCK FALSE
