------------------------------ MODULE ConfigSlots ------------------------------
(***************************************************************************)
(* What a versioned configuration repository promises of one channel: a    *)
(* configuration becomes active only after the very same configuration was *)
(* staged and tested, and the one it replaces can be brought back.         *)
(***************************************************************************)
CONSTANTS Configs, None

VARIABLES active, next, previous, tested

slots == <<active, next, previous, tested>>

Init == active = None /\ next = None /\ previous = None /\ tested = FALSE

Stage(c) == next' = c /\ tested' = FALSE /\ UNCHANGED <<active, previous>>

Test == next # None /\ tested' = TRUE /\ UNCHANGED <<active, next, previous>>

Activate ==
    /\ next # None /\ tested
    /\ previous' = active /\ active' = next /\ next' = None /\ tested' = FALSE

Rollback ==
    /\ previous # None
    /\ active' = previous /\ previous' = active
    /\ UNCHANGED <<next, tested>>

Next == (\E c \in Configs : Stage(c)) \/ Test \/ Activate \/ Rollback

Spec == Init /\ [][Next]_slots
=============================================================================
