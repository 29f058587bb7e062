SPECIFICATION FairSpec
CONSTANTS
    c1 = c1
    c2 = c2
    driver = driver
    ptable = ptable
    CPUs = {c1, c2}
    Locks = {driver, ptable}
    NoCPU = NoCPU
    NoLock = NoLock
    Rank <- MCRank
INVARIANTS
    MutualExclusion
    NoPanic
    FlagRestored
PROPERTIES
    EveryLockReleased
