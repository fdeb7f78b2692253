------------------------ MODULE MCSubscriptionQuota ------------------------
(* Instance of SubscriptionQuota for TLC.                                  *)
EXTENDS SubscriptionQuota

MCSubs == {1, 2}
=============================================================================
