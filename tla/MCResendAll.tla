---------------------------- MODULE MCResendAll ----------------------------
(* Instances of ResendAll for TLC. *)
EXTENDS ResendAll, TLC

CONSTANTS b1, b2, w1, w2

Symmetry == Permutations(Walks)
=============================================================================
