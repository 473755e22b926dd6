---------------------------- MODULE IdentityOutbox ----------------------------
(***************************************************************************)
(* workers/auth-api/src/organization-identity-events.ts: the drain that    *)
(* moves captured identity events from the PostgreSQL outbox to Cloudflare *)
(* Queues under a lease, and the queue consumer that hands them to         *)
(* CinaToken's inbox, which keeps one copy of an event id.                 *)
(*                                                                         *)
(* A drain d is one cron invocation at a time; its lock token is modelled  *)
(* by d.  Times are what is left of them: lease[e] of locked_until,        *)
(* wait[e] of available_at.                                                *)
(***************************************************************************)
EXTENDS Integers, FiniteSets, FiniteSetsExt

CONSTANTS
    Events,         \* outbox ids, ordered
    Drains,
    NoDrain,        \* lock_token IS NULL
    ClaimLimit,     \* OUTBOX_CLAIM_LIMIT
    BatchRows,      \* rows of a queue batch at most
    LeaseTicks,     \* OUTBOX_LEASE_MS
    MaxDelay,       \* cap of the backoff
    MaxRetries,     \* max_retries of the queue
    MaxReplays,     \* bound on the replays of an event
    MaxFaults       \* bound on crashes and failing calls

ASSUME EventsOrdered == Events \subseteq Nat /\ IsFiniteSet(Events)
ASSUME NoDrainAssumption == NoDrain \notin Drains
ASSUME LimitsAssumption ==
    {ClaimLimit, BatchRows, LeaseTicks, MaxDelay} \subseteq Nat \ {0}
ASSUME BoundsAssumption == {MaxRetries, MaxReplays, MaxFaults} \subseteq Nat

VARIABLES
    rows,       \* ids present in the outbox
    queued,     \* queued_at IS NOT NULL
    token,      \* lock_token
    lease,
    wait,
    attempts,   \* saturated at MaxDelay, where the backoff is
    replays,    \* replay_count
    pc,
    left,       \* rows a drain has claimed and not yet marked -> their attempts
    batch,      \* rows of the batch it is sending
    queue,      \* messages [event, tries]
    dead,       \* events in the dead letter queue
    received,   \* event ids in CinaToken's inbox
    committed,  \* history: every id ever appended
    sent,       \* history: ids the queue accepted since their last replay
    faults

outbox == <<rows, queued, token, lease, wait, attempts, replays, committed>>
drains == <<pc, left, batch>>
delivery == <<queue, dead, received>>
vars == <<outbox, drains, delivery, sent, faults>>

NoRows == [e \in {} |-> 0]

Init ==
    /\ rows = {} /\ queued = {} /\ committed = {} /\ sent = {}
    /\ token = [e \in Events |-> NoDrain]
    /\ lease = [e \in Events |-> 0]
    /\ wait = [e \in Events |-> 0]
    /\ attempts = [e \in Events |-> 0]
    /\ replays = [e \in Events |-> 0]
    /\ pc = [d \in Drains |-> "idle"]
    /\ left = [d \in Drains |-> NoRows]
    /\ batch = [d \in Drains |-> {}]
    /\ queue = {} /\ dead = {} /\ received = {}
    /\ faults = 0

-----------------------------------------------------------------------------
Fault == faults < MaxFaults /\ faults' = faults + 1

\* A capture transaction commits an event.
Append(e) ==
    /\ e \notin committed
    /\ rows' = rows \cup {e}
    /\ committed' = committed \cup {e}
    /\ UNCHANGED <<queued, token, lease, wait, attempts, replays, drains, delivery, sent, faults>>

\* Slip: a lease is never taken over.
DueUnlocked(e) == e \in rows \ queued /\ wait[e] = 0 /\ token[e] = NoDrain

Due(e) == e \in rows \ queued /\ wait[e] = 0 /\ (token[e] = NoDrain \/ lease[e] = 0)

FirstOf(S, n) == {e \in S : Cardinality({f \in S : f < e}) < n}

\* claimOrganizationIdentityOutbox
Claim(d) ==
    LET mine == FirstOf({e \in Events : Due(e)}, ClaimLimit)
        tried(e) == IF attempts[e] < MaxDelay THEN attempts[e] + 1 ELSE MaxDelay
    IN /\ pc[d] = "idle" /\ mine # {}
       /\ token' = [e \in Events |-> IF e \in mine THEN d ELSE token[e]]
       /\ lease' = [e \in Events |-> IF e \in mine THEN LeaseTicks ELSE lease[e]]
       /\ attempts' = [e \in Events |-> IF e \in mine THEN tried(e) ELSE attempts[e]]
       /\ left' = [left EXCEPT ![d] = [e \in mine |-> tried(e)]]
       /\ pc' = [pc EXCEPT ![d] = "sending"]
       /\ UNCHANGED <<rows, queued, wait, replays, committed, batch, delivery, sent, faults>>

\* The batches of toQueueBatches are prefixes of what is left, as long as size allows.
NextBatches(d) == {FirstOf(DOMAIN left[d], n) : n \in 1..BatchRows}

Accept(B) ==
    /\ queue' = queue \cup {[event |-> e, tries |-> 0] : e \in B}
    /\ sent' = sent \cup B
    /\ UNCHANGED <<dead, received>>

SendBatch(d, B) ==
    /\ pc[d] = "sending"
    /\ Accept(B)
    /\ batch' = [batch EXCEPT ![d] = B]
    /\ pc' = [pc EXCEPT ![d] = "marking"]
    /\ UNCHANGED <<outbox, left, faults>>

\* sendBatch throws, having stored the batch or not; so does toQueueBatches, on
\* an event it refuses.
SendBatchFails(d, B) ==
    /\ pc[d] = "sending"
    /\ Fault
    /\ Accept(B) \/ UNCHANGED <<delivery, sent>>
    /\ pc' = [pc EXCEPT ![d] = "releasing"]
    /\ UNCHANGED <<outbox, left, batch>>

\* Slip: the update selects by id alone.
StillMineById(d, S) == {e \in S : e \in rows /\ d \in Drains}

\* WHERE "lock_token" = $1 AND "id" = ANY($2)
StillMine(d, S) == {e \in S : e \in rows /\ token[e] = d}

\* markOrganizationIdentityOutboxQueued, and the loop's bookkeeping.
Mark(d) ==
    LET marked == StillMine(d, batch[d])
        rest == DOMAIN left[d] \ batch[d]
    IN /\ pc[d] = "marking"
       /\ queued' = queued \cup marked
       /\ token' = [e \in Events |-> IF e \in marked THEN NoDrain ELSE token[e]]
       /\ lease' = [e \in Events |-> IF e \in marked THEN 0 ELSE lease[e]]
       /\ left' = [left EXCEPT ![d] = [e \in rest |-> left[d][e]]]
       /\ batch' = [batch EXCEPT ![d] = {}]
       /\ pc' = [pc EXCEPT ![d] = IF rest = {} THEN "idle" ELSE "sending"]
       /\ UNCHANGED <<rows, wait, attempts, replays, committed, delivery, sent, faults>>

MarkFails(d) ==
    /\ pc[d] = "marking"
    /\ Fault
    /\ batch' = [batch EXCEPT ![d] = {}]
    /\ pc' = [pc EXCEPT ![d] = "releasing"]
    /\ UNCHANGED <<outbox, left, delivery, sent>>

Forget(d) ==
    /\ pc' = [pc EXCEPT ![d] = "idle"]
    /\ left' = [left EXCEPT ![d] = NoRows]
    /\ batch' = [batch EXCEPT ![d] = {}]

\* releaseOrganizationIdentityOutbox: every row left waits for the backoff of
\* the one tried most.
Release(d) ==
    LET mine == StillMine(d, DOMAIN left[d])
    IN /\ pc[d] = "releasing"
       /\ token' = [e \in Events |-> IF e \in mine THEN NoDrain ELSE token[e]]
       /\ lease' = [e \in Events |-> IF e \in mine THEN 0 ELSE lease[e]]
       /\ wait' = [e \in Events |-> IF e \in mine THEN Max({left[d][f] : f \in DOMAIN left[d]})
                                    ELSE wait[e]]
       /\ Forget(d)
       /\ UNCHANGED <<rows, queued, attempts, replays, committed, delivery, sent, faults>>

\* The invocation dies, or its release fails and is only logged.
Crash(d) ==
    /\ pc[d] # "idle"
    /\ Fault
    /\ Forget(d)
    /\ UNCHANGED <<outbox, delivery, sent>>

\* replayOrganizationIdentityOutbox, of one event.
Replay(e) ==
    /\ e \in rows /\ replays[e] < MaxReplays
    /\ queued' = queued \ {e}
    /\ token' = [token EXCEPT ![e] = NoDrain]
    /\ lease' = [lease EXCEPT ![e] = 0]
    /\ wait' = [wait EXCEPT ![e] = 0]
    /\ attempts' = [attempts EXCEPT ![e] = 0]
    /\ replays' = [replays EXCEPT ![e] = @ + 1]
    /\ sent' = sent \ {e}
    /\ UNCHANGED <<rows, committed, drains, delivery, faults>>

\* Slip: old rows go, queued or not.
PrunableByAge(e) == e \in rows

Prunable(e) == e \in queued

\* pruneOrganizationIdentityOutbox; when the thirty days are over is left open.
Prune(e) ==
    /\ Prunable(e)
    /\ rows' = rows \ {e}
    /\ queued' = queued \ {e}
    /\ token' = [token EXCEPT ![e] = NoDrain]
    /\ lease' = [lease EXCEPT ![e] = 0]
    /\ UNCHANGED <<wait, attempts, replays, committed, drains, delivery, sent, faults>>

Tick ==
    /\ \E e \in Events : lease[e] > 0 \/ wait[e] > 0
    /\ lease' = [e \in Events |-> IF lease[e] > 0 THEN lease[e] - 1 ELSE 0]
    /\ wait' = [e \in Events |-> IF wait[e] > 0 THEN wait[e] - 1 ELSE 0]
    /\ UNCHANGED <<rows, queued, token, attempts, replays, committed, drains, delivery, sent, faults>>

\* handleIdentityMessage: accepted by CinaToken, then acknowledged.
Deliver(m) ==
    /\ m \in queue
    /\ queue' = queue \ {m}
    /\ received' = received \cup {m.event}
    /\ UNCHANGED <<outbox, drains, dead, sent, faults>>

\* The delivery fails, or succeeds and is not acknowledged in time: the message
\* comes back, and after the last retry it goes to the dead letter queue.
Retry(m) ==
    /\ m \in queue
    /\ Fault
    /\ IF m.tries < MaxRetries
       THEN /\ queue' = (queue \ {m}) \cup {[m EXCEPT !.tries = @ + 1]}
            /\ UNCHANGED dead
       ELSE /\ queue' = queue \ {m}
            /\ dead' = dead \cup {m.event}
    /\ received' \in {received, received \cup {m.event}}
    /\ UNCHANGED <<outbox, drains, sent>>

Next ==
    \/ \E e \in Events : Append(e) \/ Replay(e) \/ Prune(e)
    \/ \E d \in Drains :
        \/ Claim(d) \/ Mark(d) \/ MarkFails(d) \/ Release(d) \/ Crash(d)
        \/ \E B \in NextBatches(d) : SendBatch(d, B) \/ SendBatchFails(d, B)
    \/ \E m \in queue : Deliver(m) \/ Retry(m)
    \/ Tick

Spec == Init /\ [][Next]_vars

\* A drain is done with its rows before their lease of two minutes is over
\* (FairSpec asks it of all but finitely many steps).
Prompt ==
    \A d \in Drains : \A e \in DOMAIN left[d] \cap DOMAIN left'[d] :
        token[e] = d /\ token'[e] = d => lease'[e] > 0

\* The cron trigger keeps coming, the platform runs what it started, and time
\* passes; faults are few (MaxFaults).
FairSpec ==
    /\ Spec /\ <>[][Prompt]_vars
    /\ WF_vars(Tick /\ Prompt)
    /\ \A d \in Drains :
        /\ WF_vars(Claim(d)) /\ WF_vars(Mark(d)) /\ WF_vars(Release(d))
        /\ WF_vars(\E B \in NextBatches(d) : SendBatch(d, B))
    /\ WF_vars(\E m \in queue : Deliver(m))

-----------------------------------------------------------------------------
\* Every variable stays in its domain; a drain holds no more rows than one claim
\* takes, and a queue batch no more than the queue accepts.
TypeOK ==
    /\ rows \subseteq Events /\ queued \subseteq rows
    /\ committed \subseteq Events /\ sent \subseteq Events
    /\ token \in [Events -> Drains \cup {NoDrain}]
    /\ lease \in [Events -> 0..LeaseTicks]
    /\ wait \in [Events -> 0..MaxDelay]
    /\ attempts \in [Events -> 0..MaxDelay]
    /\ replays \in [Events -> 0..MaxReplays]
    /\ pc \in [Drains -> {"idle", "sending", "marking", "releasing"}]
    /\ \A d \in Drains :
         /\ DOMAIN left[d] \subseteq Events
         /\ \A e \in DOMAIN left[d] : left[d][e] \in 1..MaxDelay
         /\ batch[d] \subseteq DOMAIN left[d]
         /\ Cardinality(DOMAIN left[d]) <= ClaimLimit /\ Cardinality(batch[d]) <= BatchRows
    /\ queue \subseteq [event : Events, tries : 0..MaxRetries]
    /\ dead \subseteq Events /\ received \subseteq Events
    /\ faults \in 0..MaxFaults

\* A row is marked queued only when the queue took it after its last replay: a
\* drain that sent it before the replay, or lost its lease, no longer marks it.
QueuedWasSent == queued \subseteq sent

\* An event whose row is gone or marked is still somewhere: in the queue, in
\* the dead letter queue or with the receiver.
NothingLost ==
    \A e \in committed :
        \/ e \in rows \ queued
        \/ \E m \in queue : m.event = e
        \/ e \in dead \cup received

\* A row changes hands only when its holder moves, its lease is over, or an
\* operator replays it: a drain that comes back late takes nothing from the
\* one that followed.
ClaimsRespected ==
    [][\A e \in Events : \A d \in Drains :
         token[e] = d /\ token'[e] # d =>
             pc'[d] # pc[d] \/ lease[e] = 0 \/ replays'[e] # replays[e]]_vars

\* Every committed event reaches the receiver or the dead letter queue.
EventuallyDelivered == \A e \in Events : e \in committed ~> e \in received \cup dead
=============================================================================
