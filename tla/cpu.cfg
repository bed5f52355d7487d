SPECIFICATION Spec
CONSTANTS
    WordSize = 16
    Levels = {4, 6}
    Operands <- MCOperands
    SecondOperands <- MCSecond
    Values = {8}
    PoppedPsws <- MCPsws
    Ops <- MCOps
    Refusals <- MCRefusals
    MaxSteps = 3
PROPERTIES
    AbortClean
    KernelEntry
    OtherStacks
    NoSecondLost
    YellowNotLost
VIEW MCView
CHECK_DEADLOCK FALSE
