# CinaAuth in TLA+

Specifications, model-checking runs and machine-checked proofs for the parts of
CinaAuth that keep state across awaits, transactions, queues and crashes.

Every module is translated from the code, and each definition that models code
is listed in `PROJECT.json` ("map") with the lines it stands for.  Definitions
whose comment begins with "Slip:" are not part of any model: each is a plausible
mistake in the definition that follows it, kept because a property must notice it
("mutants" in `PROJECT.json`).

Run a model with `tlc -workers 2 -config <run>.cfg <MC module>` and a proof with
`tlapm <module>Proofs.tla`.

1. [The system](#1-the-system)
2. [The modules](#2-the-modules)
3. [The runs](#3-the-runs)
4. [The proofs](#4-the-proofs)
5. [Disagreements between the code and its comments](#5-disagreements-between-the-code-and-its-comments)
6. [What is not modelled, and the plan](#6-what-is-not-modelled-and-the-plan)

## 1. The system

CinaAuth is an authentication library (`packages/cinaauth`, with plugins in
`packages/*`) and a deployment of it on Cloudflare: the API worker
(`workers/auth-api`), the message-delivery worker (`workers/delivery`) and the
privacy-erasure worker (`workers/privacy-erasure`).  PostgreSQL holds the users,
organizations, tokens and the identity outbox; two SQLite-backed Durable Objects
hold the provider configurations and the erasure operations; Cloudflare Queues
carry messages and events; KV holds replay records.

```
 client ── OAuth ──▶ auth-api ──(delivery queue)──▶ auth-api consumer ──▶ delivery worker ──▶ provider
                        │                                                   │  └─ KV replay records
                        │                                                   └─ DeliveryConfigRepository (DO)
                        ├─ PostgreSQL: rows ──triggers──▶ outbox ──cron drain──▶ identity queue ──▶ CinaToken
                        └─ deletion ──signed webhook──▶ privacy-erasure ──▶ coordinator (DO) ──▶ targets
```

### 1.1 Components

| component | state it keeps | operations | talks to | hard behaviour |
|---|---|---|---|---|
| Erasure coordinator, `privacy-erasure/src/coordinator.ts` | one row `erasure_operations` (status, subject and target digests, lease, completion stamp, evidence), rows `erasure_targets` | `processOperation`, repeated by its caller until it answers "completed" | erasure targets, by signed HTTPS with a deadline | calls interleave at every await; the lease may run out while its holder still works; eviction between steps; configuration and row versions change between calls; the target ids are put in order twice, by different rules |
| Erasure configuration, `privacy-erasure/src/configuration-do.ts` | one table of versions with their state (NEXT, ACTIVE, PREVIOUS), revision, idempotency rows | stage, test, activate, rollback; the targets for an erasure: ACTIVE's, or the environment's | the worker's management API and its erasure webhook | a version number is chosen, and endpoints are tested, before an await that another mutation may pass; an erasure reads the configuration in several calls |
| Account deletion, `plugins/privacy-center/deletion.ts`, `auth-api/src/privacy-deletion.ts`, `api/routes/update-user.ts` | holds, processor attestations, the receipt | hooks around the deletion endpoints, repeated by the user | the erasure worker as one of its processors | processors are asked in turn and fail in the middle; they are asked before the rest is checked |
| Provider configuration, `delivery/src/provider-config.ts` | global revision, versions, two slot rows (ACTIVE, NEXT, PREVIOUS), idempotency rows | stage, prepareTest, completeTest, abortTest, activate, rollback; collection and pruning inside them | the delivery worker, which sends the test message between two calls | encryption and decryption are awaits; a test spans two calls with a provider call between; channels share the version numbers and the collector |
| Message path, `auth-api/src/delivery.ts`, `delivery/src/index.ts` | the queue's messages, KV records of delivered ids | `enqueueDelivery`, `handleDeliveryQueue`, `handleDelivery` | queue, provider | check, send and record are separate; a retry waits out the provider's deadline, but slow KV calls or a dead consumer let attempts overlap; KV is eventually consistent |
| Identity capture, `auth-api/src/organization-identity-outbox-invariant.ts` | outbox rows, one clock per aggregate | triggers on organization, member and user; append function; backfill | PostgreSQL transactions of the whole API | concurrent transactions under READ COMMITTED, advisory locks, clocks that stand still or go back; two rows of one user share an aggregate |
| Identity drain, `auth-api/src/organization-identity-events.ts` | lease, backoff, attempts, replay count of outbox rows | claim, drain, mark, release, replay, prune; queue consumer | identity queue, CinaToken's inbox | concurrent drains, leases, crash between send and mark, sendBatch that throws after storing |
| Token endpoint, `oauth-provider/src/token.ts`, `revoke.ts` | verification values, refresh and access tokens | code grant, refresh grant with reuse interval, family invalidation, revocation | database adapter, call by call | no transaction spans a grant; retries in the reuse interval; revocation racing rotation |
| Verification values, `cinaauth/src/db/internal-adapter.ts` | verification rows | create, find, consume, reserve | adapter | single use under concurrency |
| Device authorization | device codes | request, approve, deny, poll | adapter | polling against approval and expiry |
| Entitlement capacity, `auth-api/src/entitlement-*.ts` | advisory lock on one connection, rows on others | run under capacity lock, from the middleware and from provisioning | PostgreSQL, the organization plugin, SSO and SCIM | the lock's connection is not the guarded one; two paths must take the same lock; the plan changes meanwhile |
| Super-admin governance, `auth-api/src/super-admin-*.ts`, `plugins/admin/super-admin.ts` | user roles | a queue in front of the routes that demote or delete; a trigger that keeps the last super admin | PostgreSQL, the admin plugin | write skew between snapshots; locks on two connections and two keys; row locks and a deadlock detector |
| Organizations: members and invitations, `organization/routes/crud-*.ts` | members, invitations | accept, add, remove | adapter | count, claim and insert are separate calls; nothing keeps a user from having two rows |
| Privacy export, `privacy-center/async-export.ts`, `auth-api/src/privacy-export.ts` | export jobs, artefacts | enqueue, process, expire | queue, bucket | jobs retried, expired while running |
| Rate limits, sessions, accounts, teams and roles, API keys, SCIM, SSO, Stripe, other plugins | tables | request handlers | adapter | mostly one request against stored rows |
| Adapters, clients, applications, CLI, documentation | – | – | – | no protocol state of the server |

`PROJECT.json` lists these components with their files and how far each is
modelled, and under "hazards" the lines at which the code is hard to test.

### 1.2 What makes each part correct

* **Erasure coordinator.** No answer "completed" before every endpoint of the
  caller's configuration has erased the subject; one verdict, one evidence id,
  the same for every caller; no two calls ask the targets at once while the
  lease holds; every call is answered, and repeated requests complete (they do when
  both orders of the target ids agree, section 5).
* **Provider configuration.** A channel is active only with a configuration its
  provider accepted a test message with; slots refer to rows that exist; version
  numbers are never reused; a request takes effect at most once.
* **Erasure configuration.** An erasure is given targets that passed the readiness
  test as they are, or those of the environment, which nothing tests, and these only
  if no version was ACTIVE when it arrived; version numbers are never given out twice.
* **Account deletion and governance.** A super admin always remains; a receipt is only
  given when the account is gone and every processor has erased; a request that
  will be turned down has asked nobody to erase anything of the last super admin;
  requests wait for each other's locks but not for ever.
* **Entitlement capacity.** Both ways into an organization together never fill more
  seats than the plan they have read.
* **Message path.** What is acknowledged was sent; everything enqueued is
  acknowledged or dead-lettered.
* **Identity events.** Commit order of an aggregate is clock order; a change of email
  reaches every membership; where no email changes, the event that wins last revives
  nothing, and describes the row of a user who never had two; no event is lost
  between the outbox and the receiver; drains respect each other's claims.
* **Token endpoint.** A grant never forks into two live tokens; a repeated refresh
  gets the same answer; an answered revocation holds.

## 2. The modules

| module | models | composed with |
|---|---|---|
| `ErasureCoordinator` | the coordinator object and the targets it calls | implements `ErasurePromise` |
| `ErasurePromise` | abstract: attestations recorded once, one verdict over all of them | |
| `DeliveryConfig` | the configuration repository and the workers driving it | each channel implements `ConfigSlots` |
| `ConfigSlots` | abstract: staged, tested, active, previous configuration of one channel | |
| `ErasureConfig` | the configuration repository of the erasure worker, its workers and the erasures that read it | implements `ConfigSlots` |
| `QueueLock` | requests under an advisory lock held on a connection of its own | extended by the next two |
| `AccountGovernance` | demotions and deletions: queue, hooks, endpoints, trigger | |
| `MemberSeats` | member seats: middleware, plugin, provisioning | |
| `GuardedRequests` | requests of both kinds over one database | composes `AccountGovernance` and `MemberSeats` |
| `DeliveryQueue` | queue, consumer, delivery worker, KV, provider | |
| `IdentityCapture` | PostgreSQL transactions and the triggers in them | its committed outbox is what `IdentityOutbox` drains (`Append`) |
| `IdentityOutbox` | drains, queue, consumer, receiver's inbox | |
| `TokenFamily` | the token and revocation endpoints over one client and user | |

`MC<module>` gives each its instance for TLC, `<module>Proofs` holds its theorems.

### 2.1 The common form

An action is the code between two awaits: in a Durable Object or a worker nothing
interleaves inside it, and in the adapter-based code every adapter call is an
atomic statement.  `pc[x]` names the await at which a call, worker, request or
transaction is parked; what it has read stays in its locals (`held`, `job`,
`snapshot`, `left`) and may be stale when it goes on.  A crash or eviction drops
the locals and keeps the stored state.  Digests and ciphertexts are injections, so
they are modelled by what they cover.  Times are what is left of them, counted
down by `Tick`, which may not pass a deadline that a parked call is still owed.

### 2.2 ErasureCoordinator

`operation`, `rows` and `leaseLeft` are the two tables; `pc` runs through
`digests` (keyed digests of the request), `targets` (`Promise.allSettled` over the
signed calls), `persist` (digest of the next attestation) and `finalize` (digest
of the evidence).  Between the digests and the targets the code runs without an
await: `Conflict`, `Replay`, `Busy`, `Mismatch`, `ResumeFinalize` and `Dispatch` are
its outcomes in the order of its early returns.  `Mismatch` is the comparison of the
stored rows with the configured targets, index by index: the targets come in the order
of `TargetIds` (`localeCompare`), the rows in that of `SqlRank` (ORDER BY), and
`SortedAlike` says when these agree on a set.  `Attest`, `Postpone` and `Fail` are
what a target may answer; a failed call may have erased the subject all the same,
and must fail once `TargetTicks` are over.  `Superseded` is the lease check before
the first attestation is written; `Persist` writes the next one, `PersistFails`
and `Throw` are the exceptions that release the lease on their way out, `Finalize`
is the UPDATE that has no condition.  `Crash` is an eviction: every parked call
dies and the lease stays in the row.  `Init` is an empty object or, with `Legacy`,
one that holds an operation written by schema version 1, whose target digest
covers the ids only.

`ErasurePromise` is implemented under `attested <- rows`,
`verdict <- operation.evidence`.

### 2.3 DeliveryConfig

`revision`, `versions`, `slots` and `idem` are the four tables.  A worker receives
a request, answers it at once when the key is known or a check fails (`Answer`),
or does its reads, awaits the encryption (`StageRead`, `StageCommit`) or the
decryption (`TestRead`, `TestPrepare`), sends the message outside the object
(`SendSucceeds`, `SendFails`) and comes back (`TestComplete`, `TestDisowned`,
`TestOvertaken`, `TestAbort`).  Each commit increments the revision, collects
unreferenced versions and prunes idempotency rows as the code does; which rows
are old enough to be pruned is left open, so any subset may go.  `proven` and
`applied` are history: what a provider took, which requests took effect.

`ConfigSlots` is implemented by each channel with `active`, `next`, `previous`
the configurations its slots refer to.

### 2.4 DeliveryQueue

`queue[m]` is where a message is, `request[m][n]` the n-th attempt's request in the
delivery worker: the KV lookup (`Check`), the provider's configuration (`Resolve`), the
call (`Dispatch`), the record (`MarkDelivered`), or `Vanish` when the worker dies.
`Post` hands the message to the consumer, which acknowledges (`Ack`), retries on a
refusal (`Retry`), or gives up waiting after ten seconds while the request goes on
(`TimeOut`); `Abandon` is a consumer that dies.  All three put the message back with a
delay of ten seconds or more, which is no shorter than the deadline of a provider's
call: `calling` remembers the calls that were under way then, and the message is `Due`
when they are over.  Nothing bounds a KV call, so a request that was at one may still
overlap the next.  `recorded` is KV; a lookup may fail, or miss what is in it, at the price
of a fault.

### 2.5 IdentityCapture

A row of `member` is `<<org, user, id>>`: the table has no unique constraint on
organization and user, and accepting an invitation does not look for an existing
membership, so a user may have two.  Events are about aggregates, `KeyOf(row)`, which
the two share.  A backend runs `Save`, `Delete` (with its cascade) or `ChangeEmail`, the
triggers of the rows it wrote (`Project`, `Scan`, then `Append` under the organization's
advisory lock), and `Commit` or `Abort`.  Row locks and foreign-key locks are
guards: a statement that would wait is not enabled.  `now` in `Append` is any time,
so that clocks that stand still or go back are included; `Ticked` is the CASE by which
the append function advances the stored clock, `clocked` the clock rows a transaction
has written and not committed.  `Backfill` is the migration run again: it calls the
append function for every row, but the rows of an aggregate share a dedupe key, so
that one of them is described (`First`) and the clock advances for each.  `Init` is any
database the migration may have been installed over.  `doubled` is history: the
aggregates that ever had two rows.

### 2.6 IdentityOutbox

`rows`, `queued`, `token`, `lease`, `wait`, `attempts` and `replays` are the
columns, one value per event id.  `Claim`, `SendBatch`, `Mark`, `Release` are the
statements of a drain; `SendBatchFails` covers a `sendBatch` that throws with or
without having stored the batch, and `toQueueBatches` throwing over an event;
`MarkFails` and `Crash` the other ways out.  `Replay` and `Prune` are the
operator's and the cron's.  `Deliver` and `Retry` are the consumer; the receiver
keeps one copy of an event id.  `sent` is history: ids accepted by the queue since
their last replay.

### 2.7 TokenFamily

`codes`, `rows` and `access` are verification values, refresh tokens and the access
tokens minted with them; `known` is what the client has been told.  A request is a
redemption (`Redeem`), a refresh (`Present`, then `Refuse`, `Rotate`, `Replay` or
`Reused` by what it read) or a revocation (`Revoke`).  Rotation is a
compare-and-swap (`Rotate`), then `Mint` inserts the new refresh token, `Grant` its
access token, `Store` caches the answer for repeats, `Answer` tells the client.
`RevokeSwap` and `Ungrant` revoke; `FamilyFind`, `FamilyAccess`, `FamilyRows` take a
reused token's family down; `UnissueAccess` and `UnissueRows` clean up after a code
presented twice; `Close` ends the reuse interval.  `minted`, `answers` and `killed`
are history.

### 2.8 ErasureConfig

`revision`, `versions` and `idem` are the tables; a version has a state, and a mutation
moves states (`Moved`, `Swapped`) where the delivery repository moves slots.  As
there, a request is received (`Receive`), answered without an effect (`Answer`), or
reads, awaits and commits (`StageRead`, `StageCommit`; `TestRead`, `TargetsReady`
or `TargetNotReady`, `TestCommit`) under the revision it named, which is compared
again inside the transaction (`Refused`); `Activate` and `Rollback` have no await
after their checks.  The transaction is one step: between its BEGIN IMMEDIATE and COMMIT the
object does not await.  A worker also serves erasures: `AssessReady` asks for the
status, `LoadActive` reads the active targets, `Serve` hands them to the coordinator.
When the status shows no ACTIVE (`AssessLegacy`), the targets are those of
`CINAAUTH_ERASURE_TARGETS`, which were never tested (`ServeLegacy`), even if a version has
become ACTIVE by then; `AssessNotReady` is the end of an erasure for which there are
none.  `Crash` ends a worker at an await; `Remember` keeps only
idempotency rows that have not been pruned.  `proven`, `late` and `served` are history:
what has passed the readiness test, which erasures arrived when a version was ACTIVE,
and what an erasure was given.

Rotating targets under way is left to the coordinator: its digest of the targets
makes retries of an operation conflict until the old targets are back
(`Conflict` in `ErasureCoordinator`).

### 2.9 QueueLock, AccountGovernance, MemberSeats, GuardedRequests

`pc[q]` is the step of request q, `job[q]` what it asks for.  `QueueLock` has what
`withSuperAdminGovernanceLock` and `withEntitlementCapacityLock` share: `TakeLock`,
`GiveUp` (the statement timeout: 503), `Leave` (COMMIT; 503 if the connection is
gone, whatever the handler has done), and what may befall a request:
`LoseQueue` frees the lock under a handler that goes on, `Die` ends it.

`AccountGovernance` follows a request through the governed operation (`Screen`), the
hook of the privacy center (`Enter`, one `Ask` per processor, `Asked`), the hook of
the admin plugin (`Vet`), the route's own transaction (`Check`), the row (`LockRow`)
and the trigger (`EnterTrigger`, `Choose`, `Share`) to its commit (`Write`).  Row
locks, the trigger's lock and FOR KEY SHARE are read off `pc`; `Victim` is the
deadlock detector.  `remove-user` stands for the SCIM DELETE and `set-role` for
`update-user`; neither asks processors, as in the code.

`MemberSeats` follows `accept-invitation` and `add-member` through the middleware
(`ReadPlan`, `Evaluate`) and the plugin (`Admit`, `CountMembers`, `CheckLimit`,
`Claim`, `Insert`), and provisioning by SSO or SCIM through
`withRuntimeOrganizationMemberCapacity` (`ReadPlanLocked`, `CountLocked`).  The plan
changes and members leave without asking for a lock.  `limit` is the lowest limit a
request has read; `unlocked` are requests that met an unlimited plan and took no
lock.

`GuardedRequests` lets both meet in the database: a deleted account takes its
memberships along (`Cascade`), and none is inserted for an account that is gone.

## 3. The runs

| run | module | specification | states | question |
|---|---|---|---|---|
| `erasure_prompt` | `MCErasureCoordinator` | `FairSpec` | 4 416 | while digests stay within the lease: is the lease exclusive, are answers equal, does everything end? |
| `erasure_late` | `MCErasureCoordinator` | `Spec` | 2.05 M | when they do not, and with conflicting requests and a version 1 row: what still holds? |
| `erasure_order` | `MCErasureCoordinator` | `FairSpec` | violation | does a repeated request complete whatever the target ids? |
| `delivery_config` | `MCDeliveryConfig` | `Spec` | 0.81 M | two operators on one channel |
| `delivery_slots` | `MCDeliveryConfig` | `Spec` | 1.5 M | two channels sharing versions, through rollback and collection |
| `queue_delivery` | `MCDeliveryQueue` | `FairSpec` | 0.46 M | delayed and overlapping attempts, stale KV |
| `capture_emails` | `MCIdentityCapture` | `Spec` | 1.6 M | two transactions over one organization and two memberships of one user |
| `capture_latest` | `MCIdentityCapture` | `Spec` | violation | does the latest event always describe the row? |
| `outbox_drain` | `MCIdentityOutbox` | `FairSpec` | 0.30 M | two drains, leases, replays, pruning, faults |
| `token_family` | `MCTokenFamily` | `Spec` | 0.44 M | two overlapping requests of one grant |
| `erasure_config` | `MCErasureConfig` | `Spec` | 1.94 M | two workers, who mutate and serve erasures, with targets in the environment or none |
| `guarded_requests` | `MCGuardedRequests` | `MCSpec` | 0.25 M | three requests at once, in seven mixes |

What each property says is in the comment above it.  What the runs show:

* **`erasure_prompt`** (two calls that retry one request, two targets, a lease of 4,
  target deadline 2, digests 1, one eviction).  `LeaseExcludes`: two calls are never
  past the lease together.  `AnswersAgree`: all "completed" answers carry one stamp.
  `CallsReturn`, and `EventuallyCompleted` for ids on which the two orders agree; a
  set on which they do not is what `erasure_order` asks about.  The proportions are
  those of the code: `LEASE_DURATION_MS` is 20 s, `TARGET_TIMEOUT_MS` 8 s, and what remains after
  the targets is long against a few digests.
* **`erasure_late`** (requests for another subject, with a moved and with a missing
  target; lease 2, digests 2, so a call outlives its lease).  `EvidenceAgrees`:
  every "completed" answer carries the stored evidence, even when two calls
  finalize.  `CompletedCoversTargets`: "completed" covers the endpoints of the
  caller's own configuration.  `LeaseEndsWithHolder`: nobody releases a lease that
  is not his.  `KeepsPromise`: refinement.  Stamps may differ here: `AnswersAgree`
  is only claimed of prompt digests.
* **`delivery_config`**, **`delivery_slots`**.  `ActiveWasProven`: ACTIVE and PREVIOUS
  were accepted by the provider down to the stored bytes.  `StageNeverCollides`: the
  INSERT after the await finds its version number free.  `AppliedOnce`.
  `SlotsResolve` and `ChannelsKeepSlots`: the shared collector takes nothing a
  channel needs.  Two workers suffice to overlap a test with a mutation; a revision
  bound of 8 lets one channel activate twice, roll back and be collected once more
  after it, or share those steps with the other.
* **`queue_delivery`**.  `AckedWasSent`, also when an attempt is acknowledged on the
  word of a record another one wrote; `CopiesCostFaults`: a message is taken again
  only after something went wrong, and never for a missing provider;
  `EventuallySettled`.  Three tries and two faults are enough for a request that
  overlaps the next (a slow KV call, then a lost answer), for a send whose answer or
  record is lost, and for the exhausted retry.
* **`capture_emails`**.  `ClockFollowsCommits`; `EmailReachesMembers`;
  `QuietLatestDescribesRow`: for an aggregate whose email never changed the latest event
  revives nothing, and describes the row if there never were two.  Two backends, because
  what a transaction waits for is one other transaction; two membership ids, so that
  a user is a member twice and loses one of the two; four clock values, so that both rows
  are backfilled, one is removed, and what follows collides with the clock.  An email
  change over several organizations, which takes one advisory lock after the other, is
  not in this instance: the theorems cover it, for any organizations.
* **`outbox_drain`**.  `QueuedWasSent`: a row is marked queued only if the queue took it
  after its last replay.  `NothingLost`.  `ClaimsRespected`: a late drain takes nothing
  from its successor.  `EventuallyDelivered`.  Here the queue does not redeliver
  (`MaxRetries = 0`) and backoffs are equal (`MaxDelay = 1`): redelivery and unequal
  backoffs are covered by the theorems only, for any limits, so not as liveness.
* **`token_family`**.  `OneLiveToken`, `SameAnswer`, `RevokedMintsNothing`,
  `RevokedGrantsNothing`.  Three refresh tokens are a grant rotated twice; requests are
  interchangeable (`Alike`).  Larger instances were explored with the same result:
  three requests with two tokens and a fault, three requests with three tokens
  and none, two codes.

* **`erasure_config`** (two workers, stale revisions, colliding keys, pruned
  idempotency rows, crashes).  `ServedWasReady`: what an erasure is given has
  passed the readiness test as it is, though NEXT may be replaced while it is tested;
  or it is what the environment holds, and then nothing was ACTIVE when the
  erasure arrived, so that what has been activated once is never bypassed.
  `StageNeverCollides` and `KeepsSlots`, as for the other repository.  Seven
  revisions are two activations, one rollback and no more; `MCErasureConfig` gives
  each revision the operations that lead there, among them replacing a staged
  version at any point.  Three keys let a test begin while the stage that will
  overtake it still encrypts.
* **`guarded_requests`** (three users, two processors, at most one lost queue
  connection, any request may die).  `SuperAdminRemains`, whatever is lost.
  `StableErrors`, `LastAdminSpared`: while the connections stand, the queue spares the
  routes the trigger's exception and deadlocks, and the last super admin its erasure.
  `ReceiptTrue`, over retries and failing processors.  `SeatsKept`: both ways in take
  one lock, and counts taken under it last.  `NoStandstill`: never does every open
  request wait for another.  `EventuallyAnswered`.  Three requests
  are the fewest for which deletions wait in a circle while another demotes; the
  mixes in `MCGuardedRequests` say which requests come together and who are super
  admins then.

### 3.1 Bounds

Counters of the code that would be unbounded are bounded by `MaxRevision` (the
global revision), `MaxTime` (logical clocks), `MaxRows` (refresh tokens ever
minted), `MaxReplays` (replays of an event), `MaxLost` (queue connections lost) and
`MaxCrashes` / `MaxFaults` (evictions, crashes, failing calls).  `LeaseTicks`, `TargetTicks`, `HashTicks` and
`MaxDelay` scale the code's durations; `MaxRetries`, `ClaimLimit` and `BatchRows`
scale its limits.  None of the proofs fixes any of them; two assume an inequality between
durations (`Prompt`, section 4).

`CHECK_DEADLOCK FALSE` stands where the system may stop: the outbox is drained and
every replay used, every message is settled, the tokens and faults are used up, the
requests are answered.

### 3.2 Fairness

* `ErasureCoordinator!CallFairness`: weak fairness of every parked call's next step,
  of an abort signal that has fired, and of time: the runtime resumes a call
  whose await is over.  `RetryFairness`, only for completion: the caller repeats its
  request (deletion answers 409 until the processor is done), and what is tried again
  and again (asking, persisting, finalizing, a target's attestation) succeeds in the
  end, hence strong fairness.
* `DeliveryQueue!Fairness`: the queue delivers what it holds and a started request runs
  until it ends or fails; the consumer reacts.  Nothing is assumed of the provider's
  configuration, which may come and go.
* `IdentityOutbox!FairSpec`: the cron trigger keeps coming, drains and the consumer go
  on, time passes; and, from some time on, a drain is done with its rows before their
  lease is over (`Prompt`; the lease is two minutes).  Without that, two drains slower
  than their lease could take each other's rows for ever.

* `GuardedRequests!Fairness`: weak fairness of every request's own steps: isolates run,
  PostgreSQL answers, grants a lock that is free, and finds a victim for a cycle of
  waits; calls to processors end, one way or the other, at their deadline.  Nothing is
  assumed of faults, plans or members.

## 4. The proofs

All theorems are about any values of the constants that satisfy the named
assumptions in the modules (any number of actors, any timing, any number of faults); each is
`Spec => ...`.  Two theorems of the coordinator also assume `Prompt`, that
`TargetTicks + HashTicks < LeaseTicks`: the calls to the targets have 8 s of a lease
of 20 s, and what remains is long against a few digests.  `LatestDescribesWithoutEmails`
is about behaviours in which no email changes: it says how far the comment quoted in
section 5 holds.  `OnceWithoutFaults` is about states before the first fault.

| module | theorem | states |
|---|---|---|
| `ErasureCoordinatorProofs` | `TypeCorrect`, `EvidenceAlwaysAgrees`, `CompletedAlwaysCovers`, `LeaseEndsOnlyWithHolder` | `[]TypeOK` and the safety properties of `erasure_late` |
| | `LeaseAlwaysExcludes`, `AnswersAlwaysAgree` | those of `erasure_prompt`, if `Prompt` |
| | `PromiseKept` | `KeepsPromise`: the coordinator implements `ErasurePromise` |
| `DeliveryConfigProofs` | `TypeCorrect`, `SlotsAlwaysResolve`, `ActiveAlwaysProven`, `StageAlwaysInserts` | the invariants of the runs |
| | `RequestsAppliedOnce`, `ChannelsImplementSlots` | the action property; every channel implements `ConfigSlots` |
| `IdentityCaptureProofs` | `TypeCorrect`, `CommitsInClockOrder`, `EmailAlwaysReaches`, `LatestAlwaysDescribes` | `[]TypeOK` and the properties of `capture_emails` |
| | `LatestDescribesWithoutEmails` | if no email changes: nothing is revived, and `DescribesRow` for aggregates that never had two rows |
| `IdentityOutboxProofs` | `TypeCorrect` | `[]TypeOK`, with the limits of claims, batches and backoff |
| | `QueuedAlwaysSent`, `NothingEverLost`, `ClaimsAlwaysRespected` | the safety properties of `outbox_drain` |
| `DeliveryQueueProofs` | `TypeCorrect`, `AcknowledgedWasSent`, `CopiesAreFaults` | `[]TypeOK` and the safety properties of `queue_delivery` |
| | `OnceWithoutFaults` | `SentOnce` as long as nothing has failed |
| `TokenFamilyProofs` | `TypeCorrect`, `NeverForks`, `AnswersRepeat`, `RevocationHolds`, `RevokedStaysUngranted` | `[]TypeOK`, `[]OneLiveToken`, `[]SameAnswer`, both revocation invariants |
| `ErasureConfigProofs` | `TypeCorrect`, `ServedAlwaysReady`, `StageAlwaysInserts` | `[]TypeOK`, both invariants of `erasure_config` |
| | `RepositoryImplementsSlots` | `KeepsSlots`: the repository implements `ConfigSlots` |
| `GuardedRequestsProofs` | `TypeCorrect`, `SuperAdminAlwaysRemains`, `ReceiptsAlwaysTrue`, `ErrorsStayStable`, `LastAdminAlwaysSpared`, `SeatsAlwaysKept`, `NeverStandsStill` | `[]TypeOK` and the safety properties of `guarded_requests` |

Each rests on an inductive invariant `IInv`, with `Init => IInv` and
`IInv /\ [Next]_vars => IInv'` proved action by action.

* **ErasureCoordinator.** Three arguments, of which two need no lease, and none the order
  of the ids.  Evidence agrees
  because the rows are frozen from the moment some call has read them all attested:
  `IInv` adds that the rows belong to the stored target set, what a parked call may
  hold (a finalizing call's snapshot *is* the rows), and that the verdict covers the
  rows.  "Completed" covers the caller's targets because every call past the conflict
  check has the targets of the stored operation, and what any of them has learned has
  been erased there (`Covered`).  Exclusion and equal stamps do need the lease: a call
  past it has less left to do than the lease has left to run (`Held`), which is what
  `Prompt` gives it at the start.  The bound is exact: with digests that take the
  lease to its end TLC finds two calls past it.
* **DeliveryConfig.** A version number is the revision its stage produced, so it is
  never reused; therefore what a test decrypted before an await is what the version
  still holds, if it is there.  `IInv` adds `VersionsBelow`, `HeldFresh`, `TestedProven`,
  `ActiveTested` and, for `AppliedOnce`, that an applied request expected an earlier
  revision.
* **IdentityCapture.** An uncommitted event is ahead of the clock of its aggregate and
  its transaction holds the advisory lock; locks exclude, so nobody moves that clock
  until the transaction ends (`AppendedAhead`, `LocksExclusive`).  A transaction may have
  several events of one aggregate, by two rows or two memberships; the last of them
  is the one its clock row shows (`ClockedTold`).  For what the events say, `CInv` adds
  that a transaction's reads and events are its own (`Own`) and that it writes one value
  into all its rows (`Writing`), that row locks exclude (`RowsExclusive`), that whoever
  inserts a member holds the key-share lock of its user (`MembersLockUser`), and that
  an aggregate announced under one email only is told what one of its rows holds, or
  that it is gone, the latter wrongly only if it had two rows (`LatestTellsValue`):
  who removes one row and leaves another has removed one of two (`RemovedOfTwo`), which
  `doubled` remembers.  The clock of a backfill counts rows, hence `IdsFinite`.
* **IdentityOutbox.** A row that a marking drain still holds by its token has been sent
  since its last replay (`MarkingSent`), because a replay or a takeover takes the token
  away; what was sent or pruned is in the queue, dead or received.  The limits of a
  claim rest on a lemma on the order of the rows: their ranks map them one to one into
  `0..n-1`, so the first `ClaimLimit` of them are no more than that.
* **DeliveryQueue.** An id is recorded, and a request answers success, only after the
  provider took the message.  Copies are counted as a debt (`Paid`): what the
  provider has taken, and every attempt that may still give it more, has been paid
  for by a fault, except the one send that every message is owed.
* **TokenFamily.** The right to mint for a code is held once: by the code, by a request
  between its atomic step and its insert, or by a live token (`Rights`).  A token is
  the parent of at most one (`Parents`), answers are what was minted (`Answers`), and
  a token whose access token is still to come is known to nobody (`Granting`), which is
  why a revocation that has been answered finds every access token there is.
* **ErasureConfig.** A version number, once given, names one configuration for ever:
  revisions only grow and a stage takes effect only at the revision it read.  So what
  was decrypted or tested before an await is what the row still holds, and a row that
  is marked tested, or has ever been activated, was ready.  Activation and rollback leave
  a version ACTIVE, so there is one for ever after the first: an erasure that found one
  on arrival never falls back to the environment (`NoneLate`).
* **GuardedRequests.** The trigger needs nothing of the queue: rows and its own lock
  exclude, and who is about to commit has share-locked, or shares with nobody who
  demotes, another super admin (`InvariantKept`).  The queue gives one request inside
  at a time while no connection is lost (`OneInside`); under it what a request has
  checked stays true (`LastAdminKept`) and the seat it has counted stays free
  (`SeatsLeft`, with counts as cardinalities of finite sets).  `Receipted` follows the
  processors: accounts do not come back and erasures are not undone.  No standstill
  follows the order of the locks: queue, trigger, rows.  Who waits for the queue waits
  for somebody inside (`HolderInside`), who waits for the trigger for somebody in it,
  and a circle among the rows and the trigger is one PostgreSQL breaks.

So every safety property of the passing runs, invariant or action property, is stated
by a theorem.  Only model-checked is what is true under fairness, which is beyond the
prover: `CallsReturn`, `EventuallyCompleted`, `EventuallySettled`, `EventuallyDelivered`
and `EventuallyAnswered` (of which `NoStandstill` is the part that needs no fairness).
The type invariants of `IdentityCapture`, `IdentityOutbox`, `DeliveryQueue`,
`ErasureConfig` and `GuardedRequests` are proved and checked by no run.

## 5. Disagreements between the code and its comments

* **`capture_latest`** (`LatestDescribesRow`).  The append function's comment has
  last-write-wins deterministic.  A projection, however, is built before the
  advisory lock is waited for.  An email change may read a membership, wait while another
  transaction removes it and commits its event, and then append, with a later clock
  value, an event that says the membership is active; nothing corrects it later.
  Only a change of email revives what is gone.  Without one there is another way to go
  wrong: of two memberships of one user the removal of one is the last word on both,
  and the receiver takes a member for removed.  Where neither happens the comment is
  a theorem (`LatestDescribesWithoutEmails`).
* **`erasure_order`** (`RetryCompletes`).  `DEPLOYMENT.md` has the caller repeat an
  erasure until it is completed.  The coordinator first compares its rows with the
  configured targets index by index, and the two lists come in different orders:
  ORDER BY is binary, `parseTargets` sorts by `localeCompare`.  Ids may hold `.`, `_` and
  `-` beside letters and digits (`TARGET_ID_PATTERN`), and there the orders differ:
  `a1` and `a_b` are one such pair.  With them every call is answered TARGET_SET_CHANGED,
  the one that creates the operation included, and the account cannot be deleted.
  Where the orders agree repeated requests complete (`EventuallyCompleted`).

## 6. What is not modelled, and the plan

Left out of the modelled components, on purpose:

* request parsing, signatures, authentication, routing, logging, health pages: they
  decide one request and keep no state;
* message, event and token contents, except what a property compares;
* the direct webhook of `enqueueDelivery` that is used when no queue is bound (one
  attempt of `DeliveryQueue`, without retries), and the expiry of replay records
  after a day, which is past every retry.  What is in it and no property forbids: a
  send whose answer or KV record is lost is sent again; `CopiesCostFaults` bounds the
  copies by the faults;
* in `IdentityCapture`: installation, verification and removal of the triggers, and
  UPDATEs that move a row to another organization or user, for which the triggers have a
  branch of their own (`organization-identity-outbox-invariant.ts:206-211`, `230-244`):
  no handler changes the ids of a row;
* in `DeliveryConfig`, an isolate that dies between `prepareTest` and `completeTest` is in the
  model, and no property says that the version can be tested again;
* in `TokenFamily`: grants that mint no refresh token, introspection, adapters without
  foreign keys.  The race of a family invalidation with a mint in flight, which
  `token.ts` names in a TODO and a FIXME, is in the model, and no property forbids it.
* in `AccountGovernance`: anonymous accounts, holds other than as a refusal, the digests
  and policy version of a receipt, multi-row statements and repeatable-read
  transactions against the trigger, the administration of identity providers by the
  accounts' owners, and an erasure that a processor does after it has answered
  "pending" or after its call was aborted.  What is in it and no property forbids: a
  wrong password of a user, or an account the admin plugin keeps for another reason, is found after the
  processors have erased; a 503 may follow a handler that has committed, when the
  queue's connection is lost under it;
* in `MemberSeats`: teams, roles, clients and API keys, whose limits pass through the same
  middleware; users created by SCIM on the way.  The reads of one check are taken
  together.  What is in it and no property forbids: requests that met an unlimited
  plan before a downgrade; an invitation that stays "accepted" without a member when
  the isolate dies between the two; a second row for somebody who is a member already
  and accepts an invitation (`IdentityCapture` follows what becomes of its events);
* whole components: the library's sessions, accounts and adapters, the other plugins,
  clients, applications and tools, which are most of the repository's lines.  They are
  request validation over adapter calls; where several calls of theirs make one
  promise, they are in the plan below.

Plan, in order:

1. Proofs of what completion and settlement rest on besides fairness, as `NoStandstill`
   is for the guarded requests: an open operation of the coordinator, a message that
   is held and a row that is claimed always have a step of their own ahead.
2. `IdentityPipeline`: `IdentityCapture` and `IdentityOutbox` with a receiver that lets
   the latest event win; the receiver ends with what the rows say, as far as
   section 5 lets it.
3. `GuardedRequests` with `ErasureCoordinator` behind one of the processors, through
   `ErasurePromise`.
4. Device authorization, verification reservations, export jobs, and the usage
   counters of API keys kept in secondary storage.

Questions that belong together share a run: the next runs replace or extend the
existing ones where they ask the same module.
