SPECIFICATION FairLockSpec
CONSTANTS
    p1 = p1
    p2 = p2
    p3 = p3
    p4 = p4
    Procs = {p1, p2, p3, p4}
    NoProc = NoProc
    Addr = Addr
    NotWaiting = NotWaiting
INVARIANTS
    NoneSleepsOnFree
PROPERTIES
    ImplementsMutex
    LockTaken
