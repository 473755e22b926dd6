--------------------------- MODULE MCErasureConfig ----------------------------
(* Instance of ErasureConfig for TLC.                                      *)
EXTENDS ErasureConfig

CONSTANTS old, new, k1, k2, k3

Req(op, c, e, k) == [op |-> op, config |-> c, expected |-> e, key |-> k]

\* Two workers: mutations that all name the revision they expect, so that most are
\* stale, under three keys that collide unless the older row has been pruned; and
\* erasures that read ACTIVE while it is replaced or rolled back.
Key(e) == <<k1, k2, k3>>[(e % 3) + 1]

Mixed ==
    {Req("stage", old, e, Key(e)) : e \in {0, 2, 3}}
    \cup {Req("stage", new, e, Key(e)) : e \in {1, 3, 4}}
    \cup {Req("test", old, e, Key(e)) : e \in {1, 2, 4, 5}}
    \cup {Req("activate", old, e, Key(e)) : e \in {2, 3, 5}}
    \cup {Req("rollback", old, 6, Key(6)), Req("erase", old, 0, k1)}
=============================================================================
