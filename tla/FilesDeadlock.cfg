SPECIFICATION Spec
CONSTANTS
    p1 = p1
    p2 = p2
    n1 = n1
    n2 = n2
    NoProc = NoProc
    Procs = {p1, p2}
    Inums = {1, 2, 3, 4}
    Names = {n1, n2}
    NFILE = 3
    NOFILE = 2
    MaxCalls = 3
INVARIANTS
    NoDeadlock
SYMMETRY Symmetry
CHECK_DEADLOCK FALSE
