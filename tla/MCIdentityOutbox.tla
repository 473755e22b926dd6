--------------------------- MODULE MCIdentityOutbox ---------------------------
(* Instances of IdentityOutbox for TLC.                                    *)
EXTENDS IdentityOutbox, TLC

CONSTANTS d1, d2
=============================================================================
