--------------------------- MODULE MCQuotaLedger ---------------------------
(* Instance of QuotaLedger for TLC.                                        *)
EXTENDS QuotaLedger

(* A charge and a refund. *)
MCAmounts == {-3, 1}
=============================================================================
