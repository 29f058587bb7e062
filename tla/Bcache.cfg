SPECIFICATION Spec
CONSTANTS
    p1 = p1
    p2 = p2
    p3 = p3
    k1 = k1
    k2 = k2
    k3 = k3
    Procs = {p1, p2, p3}
    Blocks = {k1, k2, k3}
    Written = {k1}
    NBUF = 2
    MaxPinned = 1
    ReadErrors = FALSE
    NoBlock = NoBlock
    NoProc = NoProc
INVARIANTS
    BcacheInv
PROPERTIES
    PanicsWhenTaken
    ImplementsBlockStore
