\* Processes may stall: what the database alone guarantees.
CONSTANTS
    A = A
    B = B
    NoRunner = NoRunner
    Runners <- TwoRunners
    MaxTasks = 2
    MaxCrashes = 1
    MaxFaults = 1
    Stalls = TRUE
SPECIFICATION Spec
SYMMETRY RunnerSymmetry
INVARIANT StartedOnce
PROPERTY TerminalIsFinal
