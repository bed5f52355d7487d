\* The four controllers on the host: commands, register writes and resets between polls
CONSTANTS
    Kinds = {"rk", "rl", "rh", "xp"}
    DualCore = FALSE
    Drives = {0, 1, 2}
    Attached = {0, 2}
    ReadOnly = {2}
    WordsPerSector = 2
    Sectors = 2
    MemWords = 3
    Counts = {2, 3, 4}
    SignedWords = 3
    Places = {1}
    MaxCmds = 2
    MaxWrites = 2
    MaxFaults = 1
SPECIFICATION FairSpec
INVARIANTS BusyOrDone InsideTheDrive
PROPERTIES TransferHonest ProtectedKept CompletionInterrupts CommandEnds
