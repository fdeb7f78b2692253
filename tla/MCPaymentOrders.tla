--------------------------- MODULE MCPaymentOrders ---------------------------
(* Small instances of PaymentOrders for TLC.                               *)
EXTENDS PaymentOrders

CONSTANTS N1, N2, C1, C2

TwoNodes == {N1, N2}
TwoCalls == {C1, C2}

AllOrders ==
    [provider : {"stripe", "creem", "pancake", "epay"}, kind : {"topup", "subscription"},
     type : {"onetime"}]
        \cup {[provider |-> "waffo", kind |-> "topup", type |-> "onetime"]}
        \cup [provider : {"creem"}, kind : {"topup", "subscription"}, type : {"recurring"}]
EpayTopUp == {[provider |-> "epay", kind |-> "topup", type |-> "onetime"]}

NoProvider == {}
UnlockedProviders == {"epay", "stripe"}
=============================================================================
