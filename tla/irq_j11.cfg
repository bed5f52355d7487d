\* J-11 on the Pico: core 0 polls the devices while core 1 executes.
CONSTANTS
    Model = "DCJ11"
    Devices = {"dl11", "kw11"}
    DualCore = TRUE
    UsesWait = FALSE
    GuestPris = {0}
    PirqLevels = {5}
    MaxChars = 2
    MaxTicks = 1
SPECIFICATION Spec
INVARIANTS
    NoLostInterrupt
    RxInOrder
    NestingRises
PROPERTIES
    GrantedOncePerEvent
CHECK_DEADLOCK FALSE
