-------------------------- MODULE MCBillingSession --------------------------
(* Instances of BillingSession for TLC.                                    *)
EXTENDS BillingSession, TLC

Prof(kind, pref, playground, unlimited, quota) ==
    [kind |-> kind, pref |-> pref, playground |-> playground,
     unlimited |-> unlimited, quota |-> quota]

(* Every preference, both kinds, and the corners of quota *)
MixedProfiles ==
    {Prof("sync", "subscription_first", FALSE, FALSE, 2),
     Prof("task", "wallet_first", FALSE, FALSE, 2),
     Prof("sync", "wallet_only", TRUE, TRUE, 2),
     Prof("sync", "wallet_first", FALSE, TRUE, 1),
     Prof("task", "subscription_only", FALSE, TRUE, 0)}

SomeActuals == {0, 1, 3}

RequestSymmetry == Permutations(Requests)
=============================================================================
