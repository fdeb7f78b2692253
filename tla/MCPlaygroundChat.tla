--------------------------- MODULE MCPlaygroundChat ---------------------------
(* Small instances of PlaygroundChat for TLC.                              *)
EXTENDS PlaygroundChat

Streaming == {"delta", "snapshot"}

(* Equal deltas, and deltas that begin like the text before them *)
Repeating == {<<1>>, <<2>>}
=============================================================================
