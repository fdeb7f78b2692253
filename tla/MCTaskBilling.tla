---------------------------- MODULE MCTaskBilling ----------------------------
(* Small instances of TaskBilling for TLC.                                 *)
EXTENDS TaskBilling

CONSTANTS P, Q, U

TwoPasses == {P, Q}
OneUser == {U}
AllPlatforms == {"video", "gemini", "suno"}
BothFundings == {"wallet", "subscription"}
SmallQuotas == {1, 2}
SmallActuals == {0, 1, 3}
=============================================================================
