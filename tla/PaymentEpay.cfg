\* Two nodes handle the notifications of an Epay top-up.
CONSTANTS
    N1 = N1
    N2 = N2
    C1 = C1
    C2 = C2
    Orders <- EpayTopUp
    Nodes <- TwoNodes
    Home = N1
    Sticky <- NoProvider
    Calls <- TwoCalls
    QuotaPerUnit = 2
    MaxFaults = 0
    MaxCrashes = 0
SPECIFICATION Spec
CHECK_DEADLOCK FALSE
INVARIANT CreditIsExact
