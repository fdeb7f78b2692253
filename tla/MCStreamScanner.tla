--------------------------- MODULE MCStreamScanner ---------------------------
(* Instance of StreamScanner for TLC.                                      *)
EXTENDS StreamScanner
=============================================================================
