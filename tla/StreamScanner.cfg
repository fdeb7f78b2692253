SPECIFICATION Spec
CHECK_DEADLOCK FALSE
CONSTANTS
    Capacity = 2
    MaxLines = 4
INVARIANTS
    ReturnIsClean
    NormalEndDeliversAll
PROPERTIES
    HandlerReturns
