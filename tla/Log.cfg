SPECIFICATION FairSpec
CONSTANTS
    p1 = p1
    p2 = p2
    p3 = p3
    b1 = b1
    b2 = b2
    b3 = b3
    Procs = {p1, p2, p3}
    Blocks = {b1, b2, b3}
    MAXOPBLOCKS = 2
    LOGSIZE = 4
    NLog = 4
    OpWrites = 1
    Crashes = TRUE
INVARIANTS
    NoPanic
    QuietIsDurable
    LogInv
PROPERTIES
    ImplementsDurableDisk
    WaitersAdvance
