\* Two lines that share a silo no longer than one recv
CONSTANTS
    LineCount = 2
    SiloDepth = 2
    RecvMax = 2
    MaxIn = 2
SPECIFICATION Spec
INVARIANTS ReadyLineEnabled SiloShown TxRequestKept RxInOrder
PROPERTIES TxOncePerReady
