\* Two requests on a subscription and one database call that fails, which may be
\* the commit of a refund whose inner transaction is already committed.
SPECIFICATION Spec
CONSTANTS
    Requests = {r1, r2}
    Profiles <- MixedProfiles
    Actuals <- SomeActuals
    InitWallet = 3
    InitToken = 3
    SubTotal = 3
    TrustQuota = 2
    AllowWalletOverflow = FALSE
    Fee = 1
    RetryTimes = 1
    MaxAttempts = 3
    MaxFaults = 1
INVARIANT SettledUsageStays
