\* Two concurrent requests that share the wallet, the token and a small
\* subscription, with up to two failing database calls.
SPECIFICATION Spec
CONSTANTS
    Requests = {r1, r2}
    Profiles <- MixedProfiles
    Actuals <- SomeActuals
    InitWallet = 3
    InitToken = 3
    SubTotal = 3
    TrustQuota = 2
    AllowWalletOverflow = FALSE
    Fee = 1
    RetryTimes = 1
    MaxAttempts = 2
    MaxFaults = 2
INVARIANTS SettledChargesActual RefundedChargesNothing RejectedChargesNothing NeverOverRefunded SubWithinTotal HoldsAreResolved
SYMMETRY RequestSymmetry
