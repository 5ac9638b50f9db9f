\* One call at a time, every file operation may fail, and the process may die.
SPECIFICATION Spec
CONSTANTS
    Cert = {c1, c2, c3}
    Worker = {w1}
    Inode = {i1, i2, i3, i4}
    CanFail = TRUE
    MaxOps = 4
    MaxCrashes = 2
    None = None
    Empty = Empty
    Torn = Torn
SYMMETRY Symmetry
INVARIANTS
    TypeOK
    NeverPartial
    RestartServesSame
CHECK_DEADLOCK FALSE
