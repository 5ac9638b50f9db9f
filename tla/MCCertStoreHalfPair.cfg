
SPECIFICATION Spec
CONSTANTS
    Cert = {c1, c2, c3}
    Worker = {w1}
    Inode = {i1, i2, i3, i4}
    CanFail = FALSE
    MaxOps = 4
    MaxCrashes = 2
    None = None
    Empty = Empty
    Torn = Torn
SYMMETRY Symmetry
INVARIANTS
    KeyMatchesChain
CHECK_DEADLOCK FALSE
