----------------------------- MODULE ErasureConfig -----------------------------
(***************************************************************************)
(* workers/privacy-erasure/src/configuration-do.ts: the Durable Object     *)
(* that holds the versioned erasure targets, and the reader in index.ts    *)
(* that hands an erasure operation its targets: those of ACTIVE or, while  *)
(* there is no ACTIVE version, those of the environment (the legacy ones). *)
(*                                                                         *)
(* Worker w serves one request.  pc[w] is the await it is parked at:       *)
(* "received" (KEK and digest), "encrypting" (stage), "testing" (the       *)
(* readiness calls of test) and "tested" (their answers are in),           *)
(* "assessed" (an erasure has seen that ACTIVE exists), "decrypting" (it   *)
(* has read the ACTIVE row) and "fallback" (it has seen no ACTIVE).  A     *)
(* version is modelled by the targets its ciphertext decrypts to, an       *)
(* idempotency digest by the request it covers.                            *)
(***************************************************************************)
EXTENDS Integers, FiniteSets

CONSTANTS
    Configs,        \* target configurations
    NoConfig,
    LegacyTargets,  \* what CINAAUTH_ERASURE_TARGETS may hold, NoConfig when unset
    Requests,       \* [op, config, expected, key]
    Workers,
    MaxRevision     \* bound on the revision

Keys == {r.key : r \in Requests}
Ops == {"stage", "test", "activate", "rollback", "erase"}
States == {"ACTIVE", "NEXT", "PREVIOUS"}

ASSUME RequestsTyped ==
    Requests \subseteq [op : Ops, config : Configs, expected : Nat, key : Keys]
ASSUME RequestsNonEmpty == Requests # {}
ASSUME NoneAssumption == NoConfig \notin Configs
ASSUME LegacyAssumption == LegacyTargets \subseteq Configs \cup {NoConfig}
ASSUME BoundAssumption == MaxRevision \in Nat

VARIABLES
    revision,   \* config_meta.revision
    versions,   \* config_versions: version -> [state, config, validated]
    idem,       \* config_idempotency: key -> the request it answered
    pc,
    input,      \* the request each worker serves
    held,       \* [version, config] a worker read, or chose, before an await
    proven,     \* [version, config] whose targets all answered ready
    late,       \* workers on an erasure that arrived when there was an ACTIVE
    served      \* [version, config, late] handed to an erasure operation

db == <<revision, versions, idem>>
asked == <<input, late>>
vars == <<db, pc, asked, held, proven, served>>

NoRequest == CHOOSE r \in Requests : TRUE
Nothing == [version |-> 0, config |-> NoConfig]

\* The targets of the environment have no version.
FromEnvironment(c) == [version |-> 0, config |-> c]

Init ==
    /\ revision = 0
    /\ versions = [v \in {} |-> NoConfig]
    /\ idem = [k \in {} |-> NoConfig]
    /\ pc = [w \in Workers |-> "idle"]
    /\ input = [w \in Workers |-> NoRequest]
    /\ held = [w \in Workers |-> Nothing]
    /\ proven = {}
    /\ late = {}
    /\ served = {}

-----------------------------------------------------------------------------
Park(w, at) == pc' = [pc EXCEPT ![w] = at]

Return(w) ==
    /\ Park(w, "idle")
    /\ input' = [input EXCEPT ![w] = NoRequest]
    /\ held' = [held EXCEPT ![w] = Nothing]
    /\ late' = late \ {w}

\* Slip: the revision is not looked at.
RefusedByKey(r) == r.key \in DOMAIN idem

\* idempotentResponse and requireRevision: the key is known (its answer is
\* repeated or refused) or the configuration has changed since.
Refused(r) == r.key \in DOMAIN idem \/ revision # r.expected

\* rows: the versions in a state.
InState(s) == {v \in DOMAIN versions : versions[v].state = s}

NextValidated == \E v \in InState("NEXT") : versions[v].validated

\* SELECT MAX(version) of all rows, plus one.
IsNextVersion(n) ==
    /\ \A v \in DOMAIN versions : v < n
    /\ n = 1 \/ n - 1 \in DOMAIN versions

\* saveIdempotentResponse: the row is written, and rows beyond the newest 500
\* go; which those are is left open, except that the row just written stays.
Remember(r) ==
    \E K \in SUBSET (DOMAIN idem \cup {r.key}) :
        /\ r.key \in K
        /\ idem' = [k \in K |-> IF k = r.key THEN r ELSE idem[k]]

\* What every committed mutation ends with.
Commit(w) ==
    /\ revision < MaxRevision
    /\ revision' = revision + 1
    /\ Remember(input[w])
    /\ Return(w)

Without(V, s) == [v \in {u \in DOMAIN V : V[u].state # s} |-> V[v]]

Moved(V, from, to) ==
    [v \in DOMAIN V |-> IF V[v].state = from THEN [V[v] EXCEPT !.state = to] ELSE V[v]]

-----------------------------------------------------------------------------
Receive(w, r) ==
    /\ pc[w] = "idle"
    /\ Park(w, "received")
    /\ input' = [input EXCEPT ![w] = r]
    /\ late' = IF r.op = "erase" /\ InState("ACTIVE") # {} THEN late \cup {w} ELSE late
    /\ UNCHANGED <<db, held, proven, served>>

\* The request is answered without an effect: replayed, refused or thrown out.
Answer(w) ==
    /\ pc[w] \in {"received", "encrypting", "tested"} /\ input[w].op # "erase"
    /\ LET r == input[w]
       IN \/ Refused(r)
          \/ r.op = "test" /\ InState("NEXT") = {}
          \/ pc[w] = "tested" /\ held[w].version \notin InState("NEXT")
          \/ r.op = "activate" /\ ~NextValidated
          \/ r.op = "rollback"
             /\ \/ InState("NEXT") # {} \/ InState("ACTIVE") = {}
                \/ \A v \in InState("PREVIOUS") : ~versions[v].validated
    /\ Return(w)
    /\ UNCHANGED <<db, proven, served>>

\* stage before its transaction: the checks, then the encryption under the
\* version number that comes after all those in use now.
StageRead(w) ==
    /\ pc[w] = "received" /\ input[w].op = "stage"
    /\ ~Refused(input[w])
    /\ \E n \in 1..MaxRevision + 1 :
         /\ IsNextVersion(n)
         /\ held' = [held EXCEPT ![w] = [version |-> n, config |-> input[w].config]]
    /\ Park(w, "encrypting")
    /\ UNCHANGED <<db, asked, proven, served>>

\* stage's transaction, which checks again; INSERT needs the number to be free.
StageCommit(w) ==
    /\ pc[w] = "encrypting"
    /\ ~Refused(input[w])
    /\ LET v == held[w].version
           kept == Without(versions, "NEXT")
       IN /\ v \notin DOMAIN kept
          /\ versions' = [u \in DOMAIN kept \cup {v} |->
               IF u = v
               THEN [state |-> "NEXT", config |-> held[w].config, validated |-> FALSE]
               ELSE kept[u]]
    /\ Commit(w)
    /\ UNCHANGED <<proven, served>>

\* test before its transaction: NEXT is read, decrypted and its targets called.
TestRead(w) ==
    /\ pc[w] = "received" /\ input[w].op = "test"
    /\ ~Refused(input[w])
    /\ \E v \in InState("NEXT") :
         held' = [held EXCEPT ![w] = [version |-> v, config |-> versions[v].config]]
    /\ Park(w, "testing")
    /\ UNCHANGED <<db, asked, proven, served>>

\* Promise.all over testTargetReadiness: every target answers, or test throws.
TargetsReady(w) ==
    /\ pc[w] = "testing"
    /\ proven' = proven \cup {held[w]}
    /\ Park(w, "tested")
    /\ UNCHANGED <<db, asked, held, served>>

TargetNotReady(w) ==
    /\ pc[w] = "testing"
    /\ Return(w)
    /\ UNCHANGED <<db, proven, served>>

\* test's transaction: NEXT must still be the version that was tested.
TestCommit(w) ==
    /\ pc[w] = "tested"
    /\ ~Refused(input[w])
    /\ held[w].version \in InState("NEXT")
    /\ versions' = [versions EXCEPT ![held[w].version].validated = TRUE]
    /\ Commit(w)
    /\ UNCHANGED <<proven, served>>

Activate(w) ==
    /\ pc[w] = "received" /\ input[w].op = "activate"
    /\ ~Refused(input[w])
    /\ NextValidated
    /\ versions' = Moved(Moved(Without(versions, "PREVIOUS"), "ACTIVE", "PREVIOUS"),
                         "NEXT", "ACTIVE")
    /\ Commit(w)
    /\ UNCHANGED <<proven, served>>

\* Slip: the version that was active stays in the state it is parked in.
SwappedHalf == Moved(Moved(versions, "ACTIVE", "NEXT"), "PREVIOUS", "ACTIVE")

\* rollback's three updates: ACTIVE steps aside as NEXT while PREVIOUS takes over.
Swapped ==
    Moved(Moved(Moved(versions, "ACTIVE", "NEXT"), "PREVIOUS", "ACTIVE"),
          "NEXT", "PREVIOUS")

Rollback(w) ==
    /\ pc[w] = "received" /\ input[w].op = "rollback"
    /\ ~Refused(input[w])
    /\ InState("NEXT") = {} /\ InState("ACTIVE") # {}
    /\ \E v \in InState("PREVIOUS") : versions[v].validated
    /\ versions' = Swapped
    /\ Commit(w)
    /\ UNCHANGED <<proven, served>>

-----------------------------------------------------------------------------
\* assessRuntime asks for the status, then for the targets of ACTIVE, each by a
\* call of its own.
AssessReady(w) ==
    /\ pc[w] = "received" /\ input[w].op = "erase"
    /\ InState("ACTIVE") # {}
    /\ Park(w, "assessed")
    /\ UNCHANGED <<db, asked, held, proven, served>>

\* Slip: a status that could not be read counts as one without ACTIVE.
AssessBlind(w) ==
    /\ pc[w] = "received" /\ input[w].op = "erase"
    /\ Park(w, "fallback")
    /\ UNCHANGED <<db, asked, held, proven, served>>

\* No ACTIVE in the status: checkEncryptionKey is awaited, and ACTIVE not read again.
AssessLegacy(w) ==
    /\ pc[w] = "received" /\ input[w].op = "erase"
    /\ InState("ACTIVE") = {}
    /\ Park(w, "fallback")
    /\ UNCHANGED <<db, asked, held, proven, served>>

\* No targets to be had: ERASURE_RUNTIME_NOT_READY.
AssessNotReady(w) ==
    /\ pc[w] \in {"assessed", "fallback"}
    /\ pc[w] = "assessed" => \A v \in InState("ACTIVE") : ~versions[v].validated
    /\ pc[w] = "fallback" => NoConfig \in LegacyTargets
    /\ Return(w)
    /\ UNCHANGED <<db, proven, served>>

\* activeTargets: the row is read, its ciphertext decrypted after an await.
LoadActive(w) ==
    /\ pc[w] = "assessed"
    /\ \E v \in InState("ACTIVE") :
         /\ versions[v].validated
         /\ held' = [held EXCEPT ![w] = [version |-> v, config |-> versions[v].config]]
    /\ Park(w, "decrypting")
    /\ UNCHANGED <<db, asked, proven, served>>

\* The erasure operation is given its targets.
Hand(w, targets) ==
    served' = served \cup {[version |-> targets.version, config |-> targets.config,
                            late |-> w \in late]}

\* The targets go to the coordinator, whatever has become of the version.
Serve(w) ==
    /\ pc[w] = "decrypting"
    /\ Hand(w, held[w])
    /\ Return(w)
    /\ UNCHANGED <<db, proven>>

\* The legacy targets go there, also when a version has become ACTIVE meanwhile.
ServeLegacy(w) ==
    /\ pc[w] = "fallback"
    /\ \E c \in LegacyTargets \ {NoConfig} : Hand(w, FromEnvironment(c))
    /\ Return(w)
    /\ UNCHANGED <<db, proven>>

\* The isolate dies, the caller hangs up or the key store does not answer: what
\* was committed stays.
Crash(w) ==
    /\ pc[w] # "idle"
    /\ Return(w)
    /\ UNCHANGED <<db, proven, served>>

Next ==
    \E w \in Workers :
        \/ \E r \in Requests : Receive(w, r)
        \/ Answer(w) \/ StageRead(w) \/ StageCommit(w)
        \/ TestRead(w) \/ TargetsReady(w) \/ TargetNotReady(w) \/ TestCommit(w)
        \/ Activate(w) \/ Rollback(w)
        \/ AssessReady(w) \/ AssessLegacy(w) \/ AssessNotReady(w)
        \/ LoadActive(w) \/ Serve(w) \/ ServeLegacy(w)
        \/ Crash(w)

Spec == Init /\ [][Next]_vars

-----------------------------------------------------------------------------
Held == [version : {0} \cup 1..MaxRevision + 1, config : Configs \cup {NoConfig}]
Handed == [version : {0} \cup 1..MaxRevision + 1, config : Configs \cup {NoConfig},
           late : BOOLEAN]

\* Every variable stays in its domain, as the CHECK clauses of migrate() ask.
TypeOK ==
    /\ revision \in 0..MaxRevision
    /\ DOMAIN versions \subseteq 1..MaxRevision
    /\ \A v \in DOMAIN versions :
         versions[v] \in [state : States, config : Configs, validated : BOOLEAN]
    /\ DOMAIN idem \subseteq Keys
    /\ pc \in [Workers -> {"idle", "received", "encrypting", "testing", "tested",
                           "assessed", "decrypting", "fallback"}]
    /\ input \in [Workers -> Requests]
    /\ held \in [Workers -> Held]
    /\ proven \subseteq Held
    /\ late \subseteq Workers
    /\ served \subseteq Handed

\* The targets an erasure operation is given passed the readiness test as they
\* are, down to the stored bytes, however the versions moved between the test, the
\* activation, the rollback and the read; or they are the legacy ones, which
\* nothing tests, and then there was no ACTIVE when the operation arrived: once a
\* version has been activated there never is a moment without one.
ServedWasReady ==
    \A s \in served :
        \/ [version |-> s.version, config |-> s.config] \in proven
        \/ s.version = 0 /\ ~s.late

\* The number chosen before the encryption is above all others when stage comes
\* to its INSERT, so that it names no version there is or that a test remembers;
\* and row(state) never finds two rows.
StageNeverCollides ==
    /\ \A w \in Workers :
         pc[w] = "encrypting" /\ ~Refused(input[w]) =>
             \A v \in DOMAIN versions : v < held[w].version
    /\ \A u, v \in DOMAIN versions : versions[u].state = versions[v].state => u = v

\* The repository behaves as a ConfigSlots: what is activated is what was staged
\* and tested, and rollback brings back the one it replaced.
ConfigOf(s) == IF InState(s) = {} THEN NoConfig
               ELSE versions[CHOOSE v \in InState(s) : TRUE].config

Repository == INSTANCE ConfigSlots WITH
    None <- NoConfig,
    active <- ConfigOf("ACTIVE"), next <- ConfigOf("NEXT"),
    previous <- ConfigOf("PREVIOUS"), tested <- NextValidated

KeepsSlots ==
    /\ Repository!Init
    /\ [][[Repository!Next]_(Repository!slots)]_vars
=============================================================================
