\* Requests of rt11tool on four volumes, with one failed access
SPECIFICATION Spec
CONSTANTS
    A = A
    B = B
    C = C
    Names = {A, B, C}
    NoFile = NoFile
    NoRequest = NoRequest
    Blocks = 7
    MaxEntries = 5
    Volumes <- MCVolumes
    Lengths = {1, 2}
    MaxAsks = 4
    MaxFaults = 1
PROPERTIES
    ImplementsFileStore
    SegmentsStayClean
    CutSqueezeSpoilsTail
CHECK_DEADLOCK FALSE
