----------------------------- MODULE OrderLedger -----------------------------
(***************************************************************************)
(* What a paid order promises: it is open until it is either credited,     *)
(* once, or closed without a credit, and then nothing more happens to it.  *)
(***************************************************************************)
EXTENDS Naturals

VARIABLES
    state,   \* "open", "credited" or "closed"
    times    \* how often the buyer has been credited

Init == state = "open" /\ times = 0

Credit == state = "open" /\ state' = "credited" /\ times' = times + 1
Close == state = "open" /\ state' = "closed" /\ UNCHANGED times

Next == Credit \/ Close

Spec == Init /\ [][Next]_<<state, times>>
=============================================================================
