SPECIFICATION MCSpec
CONSTANTS
    Scenarios = {"db_notes"}
    None = None
    Torn = Torn
    Panic = Panic
    MsatPerSat = 10
    Sub = 2
    MaxMsat = 127
    Operands = {0, 1, 19, 20, 254, 260}
    Scalars = {0, 1, 2, 10}
    MaxSteps = 3
    s1 = s1
    s2 = s2
    c1 = c1
    c2 = c2
INVARIANT
    NotesPoisonNothing
SYMMETRY Symmetry
CHECK_DEADLOCK FALSE
