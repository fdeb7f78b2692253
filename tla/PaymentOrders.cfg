\* Every provider; the orders of Epay and Stripe are handled by one node.
CONSTANTS
    N1 = N1
    N2 = N2
    C1 = C1
    C2 = C2
    Orders <- AllOrders
    Nodes <- TwoNodes
    Home = N1
    Sticky <- UnlockedProviders
    Calls <- TwoCalls
    QuotaPerUnit = 2
    MaxFaults = 1
    MaxCrashes = 1
SPECIFICATION Spec
CHECK_DEADLOCK FALSE
INVARIANTS TypeOK SuccessIsCredited OrderLocked
PROPERTIES KeepsLedger 
