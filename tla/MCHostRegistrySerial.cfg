\* No change starts while an abandoned file operation still runs.
SPECIFICATION Spec
CONSTANTS
    Host = {h1}
    Prefix = {p1}
    Config = {c1, c2}
    Worker = {w1}
    Inode = {i1, i2}
    CanFail = TRUE
    CanCancel = TRUE
    MaxOps = 3
    MaxCrashes = 2
    None = None
    Torn = Torn
SYMMETRY Symmetry
INVARIANTS
    DiskKeepsUp
PROPERTIES
    KeepsPromise
CHECK_DEADLOCK FALSE
