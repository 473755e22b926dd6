--------------------------- MODULE MCIdentityCapture ---------------------------
(* Instances of IdentityCapture for TLC.                                   *)
EXTENDS IdentityCapture, TLC

CONSTANTS u1, u2, i1, i2, v1, v2, e1, e2, b1, b2

\* The backends are alike, and so are the ids of memberships.
Symmetry == Permutations(Backends) \cup Permutations(MemberIds)
=============================================================================
