SPECIFICATION Spec
CONSTANTS
    Calls = {c1, c2}
    Loads = {l1}
    Amounts <- MCAmounts
    BatchUpdateEnabled = TRUE
    MaxFailures = 2
INVARIANTS
    PartialHashNotUsed
    CacheFollowsLedger
PROPERTIES
    KeepsAccount
    StoreIsFlushed
CHECK_DEADLOCK FALSE
