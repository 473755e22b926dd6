--------------------------- MODULE MCDeliveryConfig ---------------------------
(* Instances of DeliveryConfig for TLC.                                    *)
EXTENDS DeliveryConfig, TLC

CONSTANTS email, sms, good, other, k1, k2, k3

Req(op, p, c, e, k) ==
    [op |-> op, provider |-> p, config |-> c, expected |-> e, key |-> k]

\* Two operators on one channel: keys are reused across operations, and k3 lets
\* a mutation overtake a test that is being sent.
Contended ==
    LET e == 0..MaxRevision - 1 IN
    {Req("stage", email, good, v, k1) : v \in e}
    \cup {Req("stage", email, other, v, k2) : v \in e}
    \cup {Req("test", email, good, v, k) : v \in e \ {0}, k \in {k2, k3}}
    \cup {Req("activate", email, good, v, k1) : v \in e \ {0}}

\* One operator of two channels that share the revision and the version numbers;
\* a key per operation, free again once its row is pruned.
KeyOf == [stage |-> k1, test |-> k2, activate |-> k3, rollback |-> k1]

Shared ==
    {Req("stage", email, c, e, k1) : c \in Configs, e \in 0..MaxRevision - 1}
    \cup {Req(op, email, good, e, KeyOf[op]) : op \in Ops \ {"stage"}, e \in 1..MaxRevision - 1}
    \cup {Req(op, sms, good, e, KeyOf[op]) : op \in Ops, e \in 0..MaxRevision - 1}
=============================================================================
