SPECIFICATION FairSpec
CONSTANTS
    t1 = t1
    t2 = t2
    t3 = t3
    t4 = t4
    full = full
    empty = empty
    Threads = {t1, t2, t3}
    Chans = {full, empty}
    NoThread = NoThread
    NoChan = NoChan
INVARIANTS
    NoLostWakeup
PROPERTIES
    ImplementsMonitor
    WokenRuns
