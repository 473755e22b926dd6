---------------------------- MODULE ErasurePromise ----------------------------
(***************************************************************************)
(* What the erasure coordinator promises its caller: the attestation a     *)
(* target gives is recorded once and never changes, and the verdict is     *)
(* given once, over the attestations of every target of the operation.     *)
(***************************************************************************)
CONSTANTS TargetIds, Attestations

VARIABLES
    attested,   \* target id -> "pending" or the attestation recorded
    verdict     \* the attestations the operation was declared completed over

NoVerdict == [t \in {} |-> "pending"]

Init ==
    /\ \E T \in SUBSET TargetIds : attested = [t \in T |-> "pending"]
    /\ verdict = NoVerdict

\* The operation is opened over a set of targets.
Open ==
    /\ attested = [t \in {} |-> "pending"]
    /\ \E T \in SUBSET TargetIds : attested' = [t \in T |-> "pending"]
    /\ UNCHANGED verdict

Record(t, a) ==
    /\ attested[t] = "pending"
    /\ attested' = [attested EXCEPT ![t] = a]
    /\ UNCHANGED verdict

Complete ==
    /\ verdict = NoVerdict
    /\ \A t \in DOMAIN attested : attested[t] # "pending"
    /\ verdict' = attested
    /\ UNCHANGED attested

Next ==
    \/ Open
    \/ \E t \in DOMAIN attested, a \in Attestations : Record(t, a)
    \/ Complete

Spec == Init /\ [][Next]_<<attested, verdict>>
=============================================================================
