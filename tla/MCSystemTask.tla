---------------------------- MODULE MCSystemTask ----------------------------
(* Small instances of SystemTask for TLC.                                  *)
EXTENDS SystemTask, TLC

CONSTANTS A, B

TwoRunners == {A, B}

RunnerSymmetry == Permutations(Runners)
=============================================================================
