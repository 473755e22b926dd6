-------------------------- MODULE ErasureCoordinator --------------------------
(***************************************************************************)
(* workers/privacy-erasure/src/coordinator.ts: the SQLite-backed Durable   *)
(* Object that coordinates one privacy-erasure operation.  The object is   *)
(* addressed by operation id (index.ts, getByName), so every call that     *)
(* reaches it names the same operation.                                    *)
(*                                                                         *)
(* A Durable Object runs one event at a time but interleaves its calls at  *)
(* every await, so one action is the code between two awaits.  pc[c] names *)
(* the await at which call c of processOperation is parked:                *)
(*   digests   the keyed digests of the request (before any read)          *)
(*   targets   Promise.allSettled over the signed HTTPS calls              *)
(*   persist   hmacDigest of the next attestation in persistOutcome        *)
(*   finalize  hmacDigest of the final evidence                            *)
(* A keyed digest is modelled as an injection: it is the value it covers.  *)
(* Time is counted down: leaseLeft is what is left of lease_expires_at,    *)
(* clock[c] of the bound on the await c is parked at.                      *)
(***************************************************************************)
EXTENDS Integers, FiniteSets

CONSTANTS
    Calls,          \* executions of processOperation, also their lease tokens
    NoCall,         \* no lease token, no completion stamp
    TargetIds,      \* ids of erasure targets, in the order parseTargets sorts
    SqlRank,        \* their places in the order of SQL: ORDER BY target_id
    Urls,           \* target endpoints
    Subjects,       \* subject digests
    Requests,       \* [subject, targets]: targets maps the configured ids to urls
    Attestations,   \* what a target may attest: status, completedAt, evidenceId
    Legacy,         \* may the object hold a row written before schema version 2
    LeaseTicks,     \* LEASE_DURATION_MS
    TargetTicks,    \* TARGET_TIMEOUT_MS
    HashTicks,      \* how long a call may spend in digests after its targets
    MaxCrashes      \* bound on evictions of the object

NotAttested == {"none", "waiting", "pending", "rejected"}
Configs == UNION {[T -> Urls] : T \in SUBSET TargetIds \ {{}}}
RowSets == UNION {[T -> Attestations \cup {"pending"}] : T \in SUBSET TargetIds}

ASSUME CallsAssumption == NoCall \notin Calls
ASSUME TargetIdsAssumption == TargetIds \subseteq Nat /\ IsFiniteSet(TargetIds)
ASSUME SqlRankAssumption ==
    /\ SqlRank \in [TargetIds -> Nat]
    /\ \A t, u \in TargetIds : SqlRank[t] = SqlRank[u] => t = u
ASSUME AttestationsAssumption == Attestations \cap NotAttested = {}
ASSUME RequestsAssumption ==
    Requests \subseteq [subject : Subjects, targets : Configs]
ASSUME TicksAssumption ==
    /\ LeaseTicks \in Nat \ {0} /\ TargetTicks \in Nat /\ HashTicks \in Nat
    /\ MaxCrashes \in Nat /\ Legacy \in BOOLEAN
ASSUME RequestsNonEmpty == Requests # {}

VARIABLES
    operation,      \* the erasure_operations row
    rows,           \* erasure_targets: id -> "pending" or its attestation
    leaseLeft,      \* time until lease_expires_at, 0 once it has passed
    pc,             \* where each call is parked
    request,        \* what each call was asked
    outcome,        \* outcome[c][t]: what c has heard from target t
    todo,           \* attestations c has still to persist
    snapshot,       \* the rows c read before it began to finalize
    clock,          \* what is left of the bound on c's current await
    erased,         \* <<id, url>> of the endpoints that erased the subject
    confirmed,      \* every "completed" answer given so far
    crashes         \* evictions so far

stored == <<operation, rows, leaseLeft>>
calls == <<pc, request, outcome, todo, snapshot, clock>>
vars == <<stored, calls, erased, confirmed, crashes>>

NoRows == [t \in {} |-> "pending"]
NoOutcome == [t \in TargetIds |-> "none"]
NewRows(r) == [t \in DOMAIN r.targets |-> "pending"]

Opened(r, version) ==
    [status |-> "pending", subject |-> r.subject, targets |-> r.targets,
     version |-> version, lease |-> NoCall, completedAt |-> NoCall,
     evidence |-> NoRows]

\* What the unset fields hold: before the row exists, and while a call is idle.
NoRequest == CHOOSE r \in Requests : TRUE
Absent == [Opened(NoRequest, 2) EXCEPT !.status = "absent"]

\* Slip: the digest covers the ids whatever its version.
SameIds(version, a, b) == version \in {1, 2} /\ DOMAIN a = DOMAIN b

\* target_set_digest: version 1 covers the ids, version 2 the ids and the urls.
SameTargets(version, a, b) == IF version = 1 THEN DOMAIN a = DOMAIN b ELSE a = b

AllDone(R) == \A t \in DOMAIN R : R[t] # "pending"

\* Slips: the lease is taken for dead a tick early; it never expires.
LeaseLiveEarly == operation.lease # NoCall /\ leaseLeft > 1
LeaseLiveForEver == operation.lease # NoCall /\ leaseLeft >= 0

LeaseLive == operation.lease # NoCall /\ leaseLeft > 0

-----------------------------------------------------------------------------
Init ==
    /\ \/ operation = Absent /\ rows = NoRows
       \/ Legacy /\ \E r \in Requests : operation = Opened(r, 1) /\ rows = NewRows(r)
    /\ leaseLeft = 0
    /\ pc = [c \in Calls |-> "idle"]
    /\ request = [c \in Calls |-> NoRequest]
    /\ outcome = [c \in Calls |-> NoOutcome]
    /\ todo = [c \in Calls |-> {}]
    /\ snapshot = [c \in Calls |-> NoRows]
    /\ clock = [c \in Calls |-> 0]
    /\ erased = {}
    /\ confirmed = {}
    /\ crashes = 0

\* The call ends, whatever it answers: its locals are gone.
Return(c) ==
    /\ pc' = [pc EXCEPT ![c] = "idle"]
    /\ outcome' = [outcome EXCEPT ![c] = NoOutcome]
    /\ todo' = [todo EXCEPT ![c] = {}]
    /\ snapshot' = [snapshot EXCEPT ![c] = NoRows]
    /\ clock' = [clock EXCEPT ![c] = 0]
    /\ request' = [request EXCEPT ![c] = NoRequest]

\* Slip: releaseLease without its WHERE clause.
ReleaseAnyLease(c) ==
    operation' = [operation EXCEPT !.lease = NoCall] /\ leaseLeft' = 0

\* releaseLease: UPDATE ... WHERE lease_token = c.
ReleaseLease(c) ==
    IF operation.lease = c
    THEN operation' = [operation EXCEPT !.lease = NoCall] /\ leaseLeft' = 0
    ELSE UNCHANGED <<operation, leaseLeft>>

\* The caller is told "completed" with the stamp and evidence given.
Confirm(c, at, evidence) ==
    confirmed' = confirmed \cup {[targets |-> request[c].targets,
                                  completedAt |-> at, evidence |-> evidence]}

\* A verified webhook reaches the object; the request's digests are awaited.
Begin(c, r) ==
    /\ pc[c] = "idle"
    /\ pc' = [pc EXCEPT ![c] = "digests"]
    /\ request' = [request EXCEPT ![c] = r]
    /\ UNCHANGED <<stored, outcome, todo, snapshot, clock, erased, confirmed, crashes>>

\* readOperation, after createOperation when the table is empty.
Current(c) ==
    IF operation.status = "absent" THEN Opened(request[c], 2) ELSE operation
CurrentRows(c) ==
    IF operation.status = "absent" THEN NewRows(request[c]) ELSE rows

\* OPERATION_SUBJECT_CONFLICT or TARGET_SET_CHANGED by the digests.
Conflicting(c) ==
    \/ Current(c).subject # request[c].subject
    \/ ~SameTargets(Current(c).version, Current(c).targets, request[c].targets)

Conflict(c) ==
    /\ pc[c] = "digests"
    /\ Conflicting(c)
    /\ Return(c)
    /\ UNCHANGED <<stored, erased, confirmed, crashes>>

\* A completed operation is answered from the stored row.
Replay(c) ==
    /\ pc[c] = "digests" /\ ~Conflicting(c)
    /\ operation.status = "completed"
    /\ Confirm(c, operation.completedAt, operation.evidence)
    /\ Return(c)
    /\ UNCHANGED <<stored, erased, crashes>>

\* Another call holds a live lease: answer pending.
Busy(c) ==
    /\ pc[c] = "digests" /\ ~Conflicting(c)
    /\ operation.status = "pending" /\ LeaseLive
    /\ Return(c)
    /\ UNCHANGED <<stored, erased, confirmed, crashes>>

\* localeCompare (parseTargets) and ORDER BY target_id put T in the same order.
SortedAlike(T) == \A t, u \in T : t < u => SqlRank[t] < SqlRank[u]

\* rows[i].targetId = targetIds[i] for every i: the same ids, in the same order.
RowsMatch(c) ==
    /\ DOMAIN CurrentRows(c) = DOMAIN request[c].targets
    /\ SortedAlike(DOMAIN request[c].targets)

\* TARGET_SET_CHANGED by the rows: an operation just created stays.
Mismatch(c) ==
    /\ pc[c] = "digests" /\ ~Conflicting(c)
    /\ operation.status # "completed" /\ ~LeaseLive
    /\ ~RowsMatch(c)
    /\ operation' = Current(c)
    /\ rows' = CurrentRows(c)
    /\ Return(c)
    /\ UNCHANGED <<leaseLeft, erased, confirmed, crashes>>

\* Slip: a completed operation is processed again.
AcquireLeaseAgain(c) ==
    /\ pc[c] = "digests" /\ ~Conflicting(c)
    /\ ~LeaseLive /\ RowsMatch(c)
    /\ operation' = [Current(c) EXCEPT !.lease = c]
    /\ leaseLeft' = LeaseTicks
    /\ rows' = CurrentRows(c)

\* acquireLease is unconditional; its callers have seen no live lease.
AcquireLease(c) ==
    /\ pc[c] = "digests" /\ ~Conflicting(c)
    /\ operation.status # "completed" /\ ~LeaseLive /\ RowsMatch(c)
    /\ operation' = [Current(c) EXCEPT !.lease = c]
    /\ leaseLeft' = LeaseTicks
    /\ rows' = CurrentRows(c)

\* Every target already attested: go on to finalize under a fresh lease.
ResumeFinalize(c) ==
    /\ AcquireLease(c)
    /\ AllDone(CurrentRows(c))
    /\ pc' = [pc EXCEPT ![c] = "finalize"]
    /\ snapshot' = [snapshot EXCEPT ![c] = CurrentRows(c)]
    /\ clock' = [clock EXCEPT ![c] = HashTicks]
    /\ UNCHANGED <<request, outcome, todo, erased, confirmed, crashes>>

\* Some target is pending: call all the pending ones at once.
Dispatch(c) ==
    /\ AcquireLease(c)
    /\ ~AllDone(CurrentRows(c))
    /\ pc' = [pc EXCEPT ![c] = "targets"]
    /\ outcome' = [outcome EXCEPT ![c] =
         [t \in TargetIds |-> IF t \in DOMAIN CurrentRows(c)
                                 /\ CurrentRows(c)[t] = "pending"
                              THEN "waiting" ELSE "none"]]
    /\ clock' = [clock EXCEPT ![c] = TargetTicks]
    /\ UNCHANGED <<request, todo, snapshot, erased, confirmed, crashes>>

-----------------------------------------------------------------------------
(* eraseTarget: one signed POST per pending target, answered independently. *)

Hear(c, t, o) ==
    /\ pc[c] = "targets"
    /\ outcome[c][t] = "waiting"
    /\ outcome' = [outcome EXCEPT ![c][t] = o]
    /\ UNCHANGED <<stored, pc, request, todo, snapshot, clock, confirmed, crashes>>

\* The endpoint c knows t by has carried out the erasure.
Erases(c, t) == erased' = erased \cup {<<t, request[c].targets[t]>>}

\* The target erased the subject (or never held it) and attests so.
Attest(c, t) ==
    \E a \in Attestations : Hear(c, t, a) /\ Erases(c, t)

\* HTTP 202, or a body with status "pending".
Postpone(c, t) == Hear(c, t, "pending") /\ UNCHANGED erased

\* A refusal, a malformed body, a lost answer or the abort signal: the target
\* may have erased all the same.
Fail(c, t) == Hear(c, t, "rejected") /\ (UNCHANGED erased \/ Erases(c, t))

\* Slip: fetch without its abort signal.
NeverTimesOut(c, t) == clock[c] < 0 /\ Fail(c, t)

TimeOut(c, t) == clock[c] = 0 /\ Fail(c, t)

-----------------------------------------------------------------------------
Settled(c) == pc[c] = "targets" /\ \A t \in TargetIds : outcome[c][t] # "waiting"

\* The lease was taken over meanwhile: every outcome is dropped.
Superseded(c) ==
    /\ Settled(c)
    /\ operation.lease # c
    /\ Return(c)
    /\ UNCHANGED <<stored, erased, confirmed, crashes>>

\* Slip: every settled outcome is persisted, fulfilled or not.
KeepEverything(c) ==
    /\ Settled(c)
    /\ operation.lease = c
    /\ pc' = [pc EXCEPT ![c] = "persist"]
    /\ todo' = [todo EXCEPT ![c] = {t \in TargetIds : outcome[c][t] # "none"}]
    /\ clock' = [clock EXCEPT ![c] = HashTicks]
    /\ UNCHANGED <<stored, request, outcome, snapshot, erased, confirmed, crashes>>

\* Still the holder: persist what was attested.  The lease is not read again.
KeepGoing(c) ==
    /\ Settled(c)
    /\ operation.lease = c
    /\ pc' = [pc EXCEPT ![c] = "persist"]
    /\ todo' = [todo EXCEPT ![c] = {t \in TargetIds : outcome[c][t] \in Attestations}]
    /\ clock' = [clock EXCEPT ![c] = HashTicks]
    /\ UNCHANGED <<stored, request, outcome, snapshot, erased, confirmed, crashes>>

\* Slip: the UPDATE without "AND status = 'pending'".
PersistOver(c) ==
    /\ pc[c] = "persist"
    /\ \E t \in todo[c] :
        /\ \A u \in todo[c] : t <= u
        /\ rows' = [rows EXCEPT ![t] = outcome[c][t]]
        /\ todo' = [todo EXCEPT ![c] = @ \ {t}]
    /\ UNCHANGED <<operation, leaseLeft, pc, request, outcome, snapshot, clock,
                   erased, confirmed, crashes>>

\* persistOutcome after its digest: UPDATE ... WHERE status = 'pending'.
Persist(c) ==
    /\ pc[c] = "persist"
    /\ \E t \in todo[c] :
        /\ \A u \in todo[c] : t <= u
        /\ rows' = IF rows[t] = "pending"
                   THEN [rows EXCEPT ![t] = outcome[c][t]] ELSE rows
        /\ todo' = [todo EXCEPT ![c] = @ \ {t}]
    /\ UNCHANGED <<operation, leaseLeft, pc, request, outcome, snapshot, clock,
                   erased, confirmed, crashes>>

\* persistOutcome threw: give the lease back, answer unavailable.
PersistFails(c) ==
    /\ pc[c] = "persist" /\ todo[c] # {}
    /\ ReleaseLease(c)
    /\ Return(c)
    /\ UNCHANGED <<rows, erased, confirmed, crashes>>

AnyRejected(c) == \E t \in TargetIds : outcome[c][t] = "rejected"

\* A target failed, or one is still pending: answer unavailable or pending.
Incomplete(c) ==
    /\ pc[c] = "persist" /\ todo[c] = {}
    /\ AnyRejected(c) \/ ~AllDone(rows)
    /\ ReleaseLease(c)
    /\ Return(c)
    /\ UNCHANGED <<rows, erased, confirmed, crashes>>

\* Slip: only the failures are looked at, not the targets still pending.
StartFinalizeEarly(c) ==
    /\ pc[c] = "persist" /\ todo[c] = {}
    /\ ~AnyRejected(c)
    /\ pc' = [pc EXCEPT ![c] = "finalize"]
    /\ snapshot' = [snapshot EXCEPT ![c] = rows]
    /\ UNCHANGED <<stored, request, outcome, todo, clock, erased, confirmed, crashes>>

\* The rows read again are all attested: finalize over them.
StartFinalize(c) ==
    /\ pc[c] = "persist" /\ todo[c] = {}
    /\ ~AnyRejected(c) /\ AllDone(rows)
    /\ pc' = [pc EXCEPT ![c] = "finalize"]
    /\ snapshot' = [snapshot EXCEPT ![c] = rows]
    /\ UNCHANGED <<stored, request, outcome, todo, clock, erased, confirmed, crashes>>

\* finalize after its digest: the UPDATE has no WHERE clause.  The stamp was
\* taken from the clock before the await; c stands for it.
Finalize(c) ==
    /\ pc[c] = "finalize"
    /\ operation' = [operation EXCEPT !.status = "completed", !.completedAt = c,
                                      !.evidence = snapshot[c], !.lease = NoCall]
    /\ leaseLeft' = 0
    /\ Confirm(c, c, snapshot[c])
    /\ Return(c)
    /\ UNCHANGED <<rows, erased, crashes>>

\* A digest outside the try block throws: the lease, if any, is left behind.
Throw(c) ==
    /\ pc[c] \in {"digests", "finalize"}
    /\ Return(c)
    /\ UNCHANGED <<stored, erased, confirmed, crashes>>

-----------------------------------------------------------------------------
\* The runtime evicts the object: storage stays, every call is gone.
Crash ==
    /\ crashes < MaxCrashes
    /\ \E c \in Calls : pc[c] # "idle"
    /\ crashes' = crashes + 1
    /\ pc' = [c \in Calls |-> "idle"]
    /\ outcome' = [c \in Calls |-> NoOutcome]
    /\ todo' = [c \in Calls |-> {}]
    /\ snapshot' = [c \in Calls |-> NoRows]
    /\ clock' = [c \in Calls |-> 0]
    /\ request' = [c \in Calls |-> NoRequest]
    /\ UNCHANGED <<stored, erased, confirmed>>

Timed == {c \in Calls : pc[c] \in {"targets", "persist", "finalize"}}

\* Time passes, but never beyond the bound of an await still open.
Tick ==
    /\ leaseLeft > 0 \/ Timed # {}
    /\ \A c \in Timed : clock[c] > 0
    /\ leaseLeft' = IF leaseLeft > 0 THEN leaseLeft - 1 ELSE 0
    /\ clock' = [c \in Calls |-> IF c \in Timed THEN clock[c] - 1 ELSE clock[c]]
    /\ UNCHANGED <<operation, rows, pc, request, outcome, todo, snapshot,
                   erased, confirmed, crashes>>

Step(c) ==
    \/ Conflict(c) \/ Replay(c) \/ Busy(c) \/ Mismatch(c)
    \/ ResumeFinalize(c) \/ Dispatch(c)
    \/ Superseded(c) \/ KeepGoing(c) \/ Persist(c) \/ Incomplete(c)
    \/ StartFinalize(c) \/ Finalize(c)

Next ==
    \/ \E c \in Calls, r \in Requests : Begin(c, r)
    \/ \E c \in Calls : Step(c) \/ PersistFails(c) \/ Throw(c)
    \/ \E c \in Calls, t \in TargetIds : Attest(c, t) \/ Postpone(c, t) \/ Fail(c, t)
    \/ Crash
    \/ Tick

Spec == Init /\ [][Next]_vars

(* Fairness: a parked call is resumed once its await is over, an abort      *)
(* signal fires, time passes.  For completion also: the caller repeats its  *)
(* request (deletion.ts answers 409 until the processor is done), digests   *)
(* do not fail for ever, and a target asked again and again attests.        *)
CallFairness ==
    /\ WF_vars(Tick)
    /\ \A c \in Calls :
        /\ WF_vars(Step(c))
        /\ WF_vars(\E t \in TargetIds : TimeOut(c, t))

RetryFairness ==
    /\ WF_vars(\E c \in Calls, r \in Requests : Begin(c, r))
    /\ SF_vars(\E c \in Calls : ResumeFinalize(c) \/ Dispatch(c))
    /\ SF_vars(\E c \in Calls : Persist(c))
    /\ SF_vars(\E c \in Calls : Finalize(c))
    /\ \A t \in TargetIds : SF_vars(\E c \in Calls : Attest(c, t))

FairSpec == Spec /\ CallFairness

-----------------------------------------------------------------------------
\* Every variable stays in its domain: what the SQL column types and CHECK
\* clauses of migrate() promise, and what a parked call can hold.
TypeOK ==
    /\ operation \in [status : {"absent", "pending", "completed"},
                       subject : Subjects, targets : Configs, version : {1, 2},
                       lease : Calls \cup {NoCall}, completedAt : Calls \cup {NoCall},
                       evidence : RowSets]
    /\ rows \in RowSets
    /\ leaseLeft \in 0..LeaseTicks
    /\ pc \in [Calls -> {"idle", "digests", "targets", "persist", "finalize"}]
    /\ request \in [Calls -> Requests]
    /\ outcome \in [Calls -> [TargetIds -> Attestations \cup NotAttested]]
    /\ todo \in [Calls -> SUBSET TargetIds]
    /\ snapshot \in [Calls -> RowSets]
    /\ clock \in [Calls -> Nat]
    /\ erased \subseteq TargetIds \X Urls
    /\ confirmed \subseteq [targets : Configs, completedAt : Calls, evidence : RowSets]
    /\ crashes \in 0..MaxCrashes

\* Every "completed" answer ever given carries the one evidence id the row
\* holds, also when a call that lost its lease finalizes a second time.
EvidenceAgrees ==
    \A a \in confirmed :
        operation.status = "completed" /\ a.evidence = operation.evidence

\* An answer "completed" covers the caller's configuration: every endpoint it
\* lists has carried out the erasure.  Rows of version 1 cover ids only.
CompletedCoversTargets ==
    \A a \in confirmed, t \in TargetIds :
        t \in DOMAIN a.targets =>
            IF operation.version = 2 THEN <<t, a.targets[t]>> \in erased
            ELSE \E u \in Urls : <<t, u>> \in erased

\* Two calls are never past the lease together, so no target is asked while
\* another call is asking or recording (given the prompt digests of HashTicks).
LeaseExcludes ==
    \A c \in Timed : operation.lease = c /\ \A d \in Timed : d = c

\* A repeated call is given the very answer the first one was given, stamp
\* included (given the prompt digests of HashTicks).
AnswersAgree == \A a, b \in confirmed : a.completedAt = b.completedAt

\* A live lease ends early only at its holder's hands or because the operation
\* is completed: a call that lost its own lease does not release its successor's.
LeaseEndsWithHolder ==
    [][\A c \in Calls :
         operation.lease = c /\ leaseLeft > 0 /\ operation'.lease # c
         => (pc[c] # "idle" /\ pc'[c] = "idle") \/ operation'.status = "completed"]_vars

\* The coordinator keeps the promise of ErasurePromise.
Promise == INSTANCE ErasurePromise WITH attested <- rows, verdict <- operation.evidence
KeepsPromise == Promise!Spec

\* Every call is answered: no await is left open for ever.
CallsReturn == \A c \in Calls : pc[c] # "idle" ~> pc[c] = "idle"

\* Repeated requests (RetryFairness) complete the operation in the end, also when
\* an eviction leaves a lease behind, if the code's two orders of the ids agree.
EventuallyCompleted ==
    (\A r \in Requests : SortedAlike(DOMAIN r.targets))
    => (RetryFairness => <>(operation.status = "completed"))

\* What DEPLOYMENT.md promises of a repeated request, whatever the ids: that it
\* comes to "completed".  It does not when the two orders disagree.
RetryCompletes == RetryFairness => <>(operation.status = "completed")
=============================================================================
