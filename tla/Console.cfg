SPECIFICATION FairSpec
CONSTANTS
    p1 = p1
    p2 = p2
    Procs = {p1, p2}
    None = None
    Killable = {p1}
    Uses <- MCUses
    Chars = {"a"}
    Newline = "newline"
    EOF = "^D"
    CR = "return"
    Backspace = "^H"
    KillLine = "^U"
    INPUT_BUF = 3
    UintMod = 6
    TickMod = 4
    Reads = {2}
    Sleeps = {0, 1, 3}
INVARIANTS
    ConsoleInv
PROPERTIES
    ImplementsLineQueue
    NeverEarly
    WritesAndSleepsEnd
