SPECIFICATION FileLockSpec
CONSTANTS
    c1 = c1
    c2 = c2
    c3 = c3
    p1 = p1
    p2 = p2
    Contender = {c1, c2, c3}
    Process = {p1, p2}
    ProcessOf <- MCProcessOf
    Retries = 3
    None = None
INVARIANTS
    LockInv
PROPERTIES
    LockSpec
SYMMETRY Symmetry
CHECK_DEADLOCK FALSE
