---------------------------- MODULE DeliveryConfig ----------------------------
(***************************************************************************)
(* workers/delivery/src/provider-config.ts: the Durable Object that holds  *)
(* the provider configurations of the two delivery channels, and the part  *)
(* of workers/delivery/src/index.ts that drives a configuration test.      *)
(*                                                                         *)
(* Worker w serves one management request at a time.  pc[w] is the await   *)
(* it is parked at: "received" (KEK and digest), "encrypting" (stage),     *)
(* "decrypting" (prepareTest), "sending" (the provider is called outside   *)
(* the object), "complete" and "abort" (the call back into the object).    *)
(* A version is modelled by the configuration its ciphertext decrypts to,  *)
(* an idempotency digest by the request it covers, and the operation token *)
(* of a test by the worker that holds it.                                  *)
(***************************************************************************)
EXTENDS Integers, FiniteSets

CONSTANTS
    Providers,      \* "email", "sms"
    Configs,        \* provider configurations
    NoConfig,       \* the configuration of a channel that has none
    Requests,       \* [op, provider, config, expected, key]
    Workers,
    NoWorker,
    MaxRevision     \* bound on the global revision

Keys == {r.key : r \in Requests}
Ops == {"stage", "test", "activate", "rollback"}

ASSUME RequestsTyped ==
    Requests \subseteq [op : Ops, provider : Providers, config : Configs,
                        expected : Nat, key : Keys]
ASSUME RequestsNonEmpty == Requests # {}
ASSUME NoneAssumption == NoConfig \notin Configs /\ NoWorker \notin Workers
ASSUME BoundAssumption == MaxRevision \in Nat

VARIABLES
    revision,   \* delivery_config_meta.revision
    versions,   \* delivery_provider_versions: version -> [provider, config, tested]
    slots,      \* delivery_provider_slots: 0 is NULL
    idem,       \* delivery_config_idempotency: key -> [request, token, version]
    pc,
    input,      \* the request each worker serves
    held,       \* the version a test read before an await, decrypted
    proven,     \* <<version, config>> a provider accepted a message with
    applied     \* requests that took effect

db == <<revision, versions, slots, idem>>
vars == <<db, pc, input, held, proven, applied>>

NoRequest == CHOOSE r \in Requests : TRUE
Nothing == [version |-> 0, config |-> NoConfig]

Init ==
    /\ revision = 0
    /\ versions = [v \in {} |-> NoConfig]
    /\ slots = [p \in Providers |-> [active |-> 0, next |-> 0, previous |-> 0]]
    /\ idem = [k \in {} |-> NoConfig]
    /\ pc = [w \in Workers |-> "idle"]
    /\ input = [w \in Workers |-> NoRequest]
    /\ held = [w \in Workers |-> Nothing]
    /\ proven = {}
    /\ applied = {}

-----------------------------------------------------------------------------
Park(w, at) == pc' = [pc EXCEPT ![w] = at]

Return(w) ==
    /\ Park(w, "idle")
    /\ input' = [input EXCEPT ![w] = NoRequest]
    /\ held' = [held EXCEPT ![w] = Nothing]

\* Slip: only the idempotency row is looked at.
RefusedByKey(r) == r.key \in DOMAIN idem

\* existingResult and the revision comparison: the key is known (its answer is
\* repeated or refused) or the repository has moved on.
Refused(r) == r.key \in DOMAIN idem \/ revision # r.expected

\* Slip: the collection forgets PREVIOUS.
ReferencedForward(S) == UNION {{S[p].active, S[p].next} : p \in DOMAIN S}

\* deleteUnreferencedVersions, given the new slots.
Referenced(S) ==
    UNION {{S[p].active, S[p].next, S[p].previous} : p \in DOMAIN S}
Collected(V, S) == [v \in DOMAIN V \cap Referenced(S) |-> V[v]]

\* pruneIdempotency: rows past thirty days or beyond the newest thousand go;
\* which ones that are is left open, except that a row written now stays.
Pruned(I, kept) ==
    \E K \in SUBSET DOMAIN I :
        kept \in K /\ idem' = [k \in K |-> I[k]]

WithRow(k, row) ==
    [j \in DOMAIN idem \cup {k} |-> IF j = k THEN row ELSE idem[j]]

\* persistCompletedIdempotency, then pruneIdempotency.
Remember(r, version) ==
    Pruned(WithRow(r.key, [request |-> r, token |-> NoWorker, version |-> version]), r.key)

\* Slip: the revision is not advanced.
CommitInPlace(w) ==
    /\ revision < MaxRevision
    /\ UNCHANGED revision
    /\ applied' = applied \cup {input[w]}

\* What every committed mutation ends with.
Commit(w) ==
    /\ revision < MaxRevision
    /\ revision' = revision + 1
    /\ applied' = applied \cup {input[w]}

\* Slip: any NEXT will do.
NextPresent(p) == slots[p].next \in DOMAIN versions

\* readSlot's nextTestedAt: NULL when there is no NEXT, or it is untested.
NextTested(p) == slots[p].next \in DOMAIN versions /\ versions[slots[p].next].tested

-----------------------------------------------------------------------------
Receive(w, r) ==
    /\ pc[w] = "idle"
    /\ Park(w, "received")
    /\ input' = [input EXCEPT ![w] = r]
    /\ UNCHANGED <<db, held, proven, applied>>

\* The request is answered without an effect: replayed, refused or thrown out.
Answer(w) ==
    /\ pc[w] \in {"received", "encrypting", "decrypting"}
    /\ LET r == input[w]
           slot == slots[r.provider]
       IN \/ Refused(r)
          \/ r.op = "test" /\ slot.next = 0
          \/ pc[w] = "decrypting" /\ slot.next # held[w].version
          \/ r.op = "activate" /\ ~NextTested(r.provider)
          \/ r.op = "rollback" /\ slot.previous = 0
    /\ Return(w)
    /\ UNCHANGED <<db, proven, applied>>

\* stage before its transaction: the checks, then the encryption under
\* version = expectedVersion + 1.
StageRead(w) ==
    /\ pc[w] = "received" /\ input[w].op = "stage"
    /\ ~Refused(input[w])
    /\ Park(w, "encrypting")
    /\ UNCHANGED <<db, input, held, proven, applied>>

\* Slip: the version is the revision before the mutation, not after it.
StageCommitEarly(w) ==
    /\ pc[w] = "encrypting"
    /\ LET r == input[w]
           v == r.expected
           row == [provider |-> r.provider, config |-> r.config, tested |-> FALSE]
           S == [slots EXCEPT ![r.provider].next = v]
       IN /\ ~Refused(r)
          /\ slots' = S
          /\ versions' = Collected(
               [u \in DOMAIN versions \cup {v} |-> IF u = v THEN row ELSE versions[u]], S)
          /\ Remember(r, v)
    /\ Commit(w)
    /\ Return(w)
    /\ UNCHANGED proven

\* stage's transaction, which checks again.  INSERT needs a fresh version.
StageCommit(w) ==
    /\ pc[w] = "encrypting"
    /\ LET r == input[w]
           v == r.expected + 1
           row == [provider |-> r.provider, config |-> r.config, tested |-> FALSE]
           S == [slots EXCEPT ![r.provider].next = v]
       IN /\ ~Refused(r)
          /\ v \notin DOMAIN versions
          /\ slots' = S
          /\ versions' = Collected(
               [u \in DOMAIN versions \cup {v} |-> IF u = v THEN row ELSE versions[u]], S)
          /\ Remember(r, v)
    /\ Commit(w)
    /\ Return(w)
    /\ UNCHANGED proven

\* prepareTest before its transaction: NEXT is read, then decrypted.
TestRead(w) ==
    /\ pc[w] = "received" /\ input[w].op = "test"
    /\ ~Refused(input[w])
    /\ LET next == slots[input[w].provider].next IN
         /\ next \in DOMAIN versions
         /\ versions[next].provider = input[w].provider
         /\ held' = [held EXCEPT ![w] =
                       [version |-> next, config |-> versions[next].config]]
    /\ Park(w, "decrypting")
    /\ UNCHANGED <<db, input, proven, applied>>

\* prepareTest's transaction: the pending row is the test's claim on its key.
TestPrepare(w) ==
    /\ pc[w] = "decrypting"
    /\ ~Refused(input[w])
    /\ slots[input[w].provider].next = held[w].version
    /\ idem' = WithRow(input[w].key,
                 [request |-> input[w], token |-> w, version |-> held[w].version])
    /\ Park(w, "sending")
    /\ UNCHANGED <<revision, versions, slots, input, held, proven, applied>>

\* sendProviderConfigurationTest with the decrypted configuration: the provider
\* accepts the message, or the call fails and the test will be aborted.
SendSucceeds(w) ==
    /\ pc[w] = "sending"
    /\ proven' = proven \cup {held[w]}
    /\ Park(w, "complete")
    /\ UNCHANGED <<db, input, held, applied>>

SendFails(w) ==
    /\ pc[w] = "sending"
    /\ Park(w, "abort")
    /\ UNCHANGED <<db, input, held, proven, applied>>

\* The pending row of w's own test is still there.
Owns(w) ==
    /\ input[w].key \in DOMAIN idem
    /\ idem[input[w].key].request = input[w]
    /\ idem[input[w].key].token = w

WithoutRow(k) == [j \in DOMAIN idem \ {k} |-> idem[j]]

\* completeTest: the row must be the worker's own and the repository untouched.
TestComplete(w) ==
    /\ pc[w] = "complete" /\ Owns(w)
    /\ LET r == input[w]
           v == held[w].version
       IN /\ revision = r.expected
          /\ slots[r.provider].next = v
          /\ versions' = [versions EXCEPT ![v].tested = TRUE]
          /\ Pruned(WithRow(r.key, [request |-> r, token |-> NoWorker, version |-> v]), r.key)
    /\ Commit(w)
    /\ Return(w)
    /\ UNCHANGED <<slots, proven>>

\* completeTest when the row is gone or taken over.
TestDisowned(w) ==
    /\ pc[w] = "complete" /\ ~Owns(w)
    /\ Return(w)
    /\ UNCHANGED <<db, proven, applied>>

\* completeTest when the repository moved on: the pending row is deleted.
TestOvertaken(w) ==
    /\ pc[w] = "complete" /\ Owns(w)
    /\ revision # input[w].expected
       \/ slots[input[w].provider].next # held[w].version
    /\ idem' = WithoutRow(input[w].key)
    /\ Return(w)
    /\ UNCHANGED <<revision, versions, slots, proven, applied>>

\* abortTest: DELETE ... WHERE status = 'pending' AND operation_token = w.
TestAbort(w) ==
    /\ pc[w] = "abort"
    /\ idem' = IF Owns(w) THEN WithoutRow(input[w].key) ELSE idem
    /\ Return(w)
    /\ UNCHANGED <<revision, versions, slots, proven, applied>>

Activate(w) ==
    /\ pc[w] = "received" /\ input[w].op = "activate"
    /\ LET r == input[w]
           slot == slots[r.provider]
           S == [slots EXCEPT ![r.provider] =
                   [active |-> slot.next, next |-> 0, previous |-> slot.active]]
       IN /\ ~Refused(r)
          /\ NextTested(r.provider)
          /\ slots' = S
          /\ versions' = Collected(versions, S)
          /\ Remember(r, slot.next)
    /\ Commit(w)
    /\ Return(w)
    /\ UNCHANGED proven

\* Slip: NEXT, not PREVIOUS, is brought back.
RollbackForward(w) ==
    /\ pc[w] = "received" /\ input[w].op = "rollback"
    /\ LET r == input[w]
           slot == slots[r.provider]
       IN /\ ~Refused(r)
          /\ slot.previous # 0
          /\ slots' = [slots EXCEPT ![r.provider] =
                [slot EXCEPT !.active = slot.next, !.previous = slot.active]]
          /\ Remember(r, slot.previous)
    /\ Commit(w)
    /\ Return(w)
    /\ UNCHANGED <<versions, proven>>

Rollback(w) ==
    /\ pc[w] = "received" /\ input[w].op = "rollback"
    /\ LET r == input[w]
           slot == slots[r.provider]
       IN /\ ~Refused(r)
          /\ slot.previous # 0
          /\ slots' = [slots EXCEPT ![r.provider] =
                [slot EXCEPT !.active = slot.previous, !.previous = slot.active]]
          /\ Remember(r, slot.previous)
    /\ Commit(w)
    /\ Return(w)
    /\ UNCHANGED <<versions, proven>>

\* The worker's isolate dies or its caller hangs up: what it committed stays.
Crash(w) ==
    /\ pc[w] # "idle"
    /\ Return(w)
    /\ UNCHANGED <<db, proven, applied>>

Next ==
    \E w \in Workers :
        \/ \E r \in Requests : Receive(w, r)
        \/ Answer(w) \/ StageRead(w) \/ StageCommit(w)
        \/ TestRead(w) \/ TestPrepare(w) \/ SendSucceeds(w) \/ SendFails(w)
        \/ TestComplete(w) \/ TestDisowned(w) \/ TestOvertaken(w) \/ TestAbort(w)
        \/ Activate(w) \/ Rollback(w)
        \/ Crash(w)

Spec == Init /\ [][Next]_vars

-----------------------------------------------------------------------------
Versions == 1..MaxRevision
Rows == [request : Requests, token : Workers \cup {NoWorker}, version : Versions]

\* Every variable stays in its domain, as the CHECK clauses of migrate() ask.
TypeOK ==
    /\ revision \in 0..MaxRevision
    /\ DOMAIN versions \subseteq Versions
    /\ \A v \in DOMAIN versions :
         versions[v] \in [provider : Providers, config : Configs, tested : BOOLEAN]
    /\ slots \in [Providers -> [active : {0} \cup Versions, next : {0} \cup Versions,
                                previous : {0} \cup Versions]]
    /\ DOMAIN idem \subseteq Keys
    /\ \A k \in DOMAIN idem : idem[k] \in Rows
    /\ pc \in [Workers -> {"idle", "received", "encrypting", "decrypting", "sending",
                           "complete", "abort"}]
    /\ input \in [Workers -> Requests]
    /\ held \in [Workers -> [version : {0} \cup Versions, config : Configs \cup {NoConfig}]]
    /\ proven \subseteq [version : {0} \cup Versions, config : Configs \cup {NoConfig}]
    /\ applied \subseteq Requests

\* Garbage collection never takes a version a slot still refers to, and a slot
\* only refers to a version of its own channel: getActive and prepareTest always
\* find the row they look for.
SlotsResolve ==
    \A p \in Providers : \A v \in {slots[p].active, slots[p].next, slots[p].previous} :
        v # 0 => v \in DOMAIN versions /\ versions[v].provider = p

\* What a channel sends with, or can be rolled back to, is a configuration its
\* provider accepted a test message with, down to the stored bytes.
ActiveWasProven ==
    \A p \in Providers : \A v \in {slots[p].active, slots[p].previous} \ {0} :
        [version |-> v, config |-> versions[v].config] \in proven

\* The INSERT of stage never meets an existing version: a number is not reused.
StageNeverCollides ==
    \A w \in Workers :
        pc[w] = "encrypting" /\ ~Refused(input[w]) =>
            \A v \in DOMAIN versions : v < input[w].expected + 1

\* A request takes effect at most once, also when its idempotency row has been
\* pruned before the retry arrives.
AppliedOnce ==
    [][\A w \in Workers :
         revision' # revision /\ pc[w] # "idle" /\ pc'[w] = "idle" => input[w] \notin applied]_vars

\* Each channel behaves as a ConfigSlots of configurations.
ConfigOf(v) == IF v \in DOMAIN versions THEN versions[v].config ELSE NoConfig

Channel(p) == INSTANCE ConfigSlots WITH
    None <- NoConfig,
    active <- ConfigOf(slots[p].active), next <- ConfigOf(slots[p].next),
    previous <- ConfigOf(slots[p].previous), tested <- NextTested(p)

ChannelsKeepSlots ==
    /\ \A p \in Providers : Channel(p)!Init
    /\ [][\A p \in Providers : [Channel(p)!Next]_(Channel(p)!slots)]_vars
=============================================================================
