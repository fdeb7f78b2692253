\* Two runners that do not stall longer than the lease.
CONSTANTS
    A = A
    B = B
    NoRunner = NoRunner
    Runners <- TwoRunners
    MaxTasks = 2
    MaxCrashes = 1
    MaxFaults = 1
    Stalls = FALSE
SPECIFICATION Spec
INVARIANT OneHandler
PROPERTIES RunningTaskEnds PendingTaskClaimed
