\* VM1 on the host: one mask bit, PSW<10>, devices polled between instructions.
CONSTANTS
    Model = "VM1"
    Devices = {"kw11", "lp11"}
    DualCore = FALSE
    UsesWait = TRUE
    GuestPris = {0, 4}
    PirqLevels = {}
    MaxChars = 1
    MaxTicks = 2
SPECIFICATION FairSpec
PROPERTIES
    AcknowledgedIsTaken
    ClockServed
CHECK_DEADLOCK FALSE
