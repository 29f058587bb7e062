SPECIFICATION DrainedSpec
CONSTANTS
    w1 = w1
    w2 = w2
    r1 = r1
    r2 = r2
    Writers = {w1, w2}
    Readers = {r1}
    Killable = {w1, r1}
    Bytes = {0, 1}
    PIPESIZE = 2
    UintMod = 4
    Writes <- MCWrites
INVARIANTS
    PipeInv
    FreedByLast
PROPERTIES
    ImplementsByteStream
    WriteReturns
    KilledLeaves
