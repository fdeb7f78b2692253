SPECIFICATION Spec
CONSTANTS
    Subs <- MCSubs
    Requests = {r1}
    Amounts = {2}
    Deltas = {1, 2}
    Total = 3
    Period = 1
    Duration = 2
    DowngradeGroup = "basic"
    MaxPurchase = 0
    MaxTime = 4
    MaxJobs = 1
INVARIANTS
    UsedWithinTotal
    ScheduleIsSound
    HoldsOutlastResets
    GroupFitsSubscriptions
PROPERTIES
    EndedStaysEnded
    MaintenanceCatchesUp
