SPECIFICATION Spec
CONSTANTS
    W = 4
    H = 8
INVARIANTS
    ArithmeticExact
    BranchesOrder
    ShiftsAreSteps
    DivisionExact
