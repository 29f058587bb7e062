SPECIFICATION FairSpec
CONSTANTS
    c1 = c1
    c2 = c2
    ch1 = ch1
    ch2 = ch2
    None = None
    CPUs = {c1}
    NPROC = 3
    KillPids = {2}
    MaxPid = 3
    Chans = {ch1, ch2}
PROPERTIES
    NoStarvation
    KilledExits
CHECK_DEADLOCK FALSE
