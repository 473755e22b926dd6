----------------------------- MODULE MCTokenFamily -----------------------------
(* Instances of TokenFamily for TLC.                                       *)
EXTENDS TokenFamily, TLC

CONSTANTS c1, c2, q1, q2, q3

Alike == Permutations(Requests)
=============================================================================
