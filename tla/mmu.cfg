SPECIFICATION Spec
CONSTANTS
    RamBytes = 4194304
    Devices <- Console
    Pages = {7}
    Loadable <- KernelPage
    Bases <- SomeBases
    Controls <- SomeControls
    PswModes = {0, 2}
    Splits <- SomeSplits
    Offsets <- SomeOffsets
INVARIANTS TlbCurrent FastPathFaithful
