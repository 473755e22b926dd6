---------------------------- MODULE MCDeliveryQueue ----------------------------
(* Instances of DeliveryQueue for TLC.                                     *)
EXTENDS DeliveryQueue, TLC

CONSTANTS m1, m2
=============================================================================
