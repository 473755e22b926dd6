-------------------------- MODULE ErasureConfigProofs --------------------------
(***************************************************************************)
(* Proofs about ErasureConfig, for any number of workers, keys, revisions  *)
(* and configurations.  The heart of the argument: NEXT has the highest    *)
(* number, so the highest number never goes down and no number is given    *)
(* out twice; what a test has read is what the version still holds.  And   *)
(* once there is an ACTIVE version there is one for ever.                  *)
(***************************************************************************)
EXTENDS ErasureConfig, TLAPS

\* At most one row is in each state, and NEXT has the highest number.
OneRow == \A u, v \in DOMAIN versions : versions[u].state = versions[v].state => u = v

NextHighest ==
    \A u, v \in DOMAIN versions : versions[v].state = "NEXT" => u <= v

VersionsBelow == \A v \in DOMAIN versions : v <= revision

\* While nothing has been committed, the number a stage has chosen is new.
ChosenFresh ==
    \A w \in Workers : pc[w] = "encrypting" =>
        /\ held[w].version \in 1..input[w].expected + 1 /\ held[w].config \in Configs
        /\ input[w].expected <= revision
        /\ revision = input[w].expected =>
             \A v \in DOMAIN versions : v < held[w].version

\* The number a test holds has been given out, and names what the test has read.
HeldKnown ==
    \A w \in Workers : pc[w] \in {"testing", "tested"} =>
        /\ \E v \in DOMAIN versions : held[w].version <= v
        /\ held[w].version \in DOMAIN versions =>
             versions[held[w].version].config = held[w].config

ValidatedProven ==
    \A v \in DOMAIN versions : versions[v].validated =>
        [version |-> v, config |-> versions[v].config] \in proven

HeldProven ==
    \A w \in Workers : pc[w] \in {"tested", "decrypting"} => held[w] \in proven

\* An erasure that arrived after the first activation never falls back.
NoneLate ==
    /\ InState("ACTIVE") = {} => late = {}
    /\ \A w \in Workers : pc[w] = "fallback" => w \notin late

IInv ==
    /\ TypeOK /\ OneRow /\ NextHighest /\ VersionsBelow /\ ChosenFresh
    /\ HeldKnown /\ ValidatedProven /\ HeldProven /\ NoneLate /\ ServedWasReady

-----------------------------------------------------------------------------
LEMMA NoRequestTyped == NoRequest \in Requests
BY RequestsNonEmpty DEF NoRequest

\* The end of a request clears the worker's locals and nobody else's.
LEMMA ReturnLocals ==
    ASSUME TypeOK, NEW w \in Workers, Return(w)
    PROVE  /\ pc' \in [Workers -> {"idle", "received", "encrypting", "testing", "tested",
                                   "assessed", "decrypting", "fallback"}]
           /\ late' \subseteq Workers /\ late' = late \ {w}
           /\ input' \in [Workers -> Requests]
           /\ held' \in [Workers -> Held]
           /\ pc'[w] = "idle"
           /\ \A u \in Workers \ {w} :
                pc'[u] = pc[u] /\ held'[u] = held[u] /\ input'[u] = input[u]
<1>1. Nothing \in Held
  BY BoundAssumption DEF Nothing, Held
<1> QED BY <1>1, NoRequestTyped DEF TypeOK, Return, Park

LEMMA RememberTyped ==
    ASSUME TypeOK, NEW r \in Requests, Remember(r)
    PROVE  DOMAIN idem' \subseteq Keys
BY DEF TypeOK, Remember, Keys

\* While ACTIVE is not given up, a request that ends leaves none late behind.
LEMMA ReturnNoneLate ==
    ASSUME IInv, NEW w \in Workers, Return(w),
           InState("ACTIVE") # {} => InState("ACTIVE")' # {}
    PROVE  NoneLate'
BY ReturnLocals DEF IInv, NoneLate

\* A request that ends without touching the database keeps the invariant.
LEMMA Quiet ==
    ASSUME IInv, NEW w \in Workers, Return(w), UNCHANGED <<db, proven>>,
           served' \subseteq Handed, ServedWasReady'
    PROVE  IInv'
<1>1. TypeOK'
  BY ReturnLocals DEF IInv, TypeOK, db
<1>2. ChosenFresh' /\ HeldKnown' /\ HeldProven'
  BY ReturnLocals DEF IInv, ChosenFresh, HeldKnown, HeldProven, db
<1>3. NoneLate'
  BY ReturnNoneLate DEF InState, db
<1> QED BY <1>1, <1>2, <1>3
        DEF IInv, OneRow, NextHighest, VersionsBelow, ValidatedProven, db

LEMMA InitIInv == Init => IInv
<1> SUFFICES ASSUME Init PROVE IInv
  OBVIOUS
<1>1. TypeOK
  BY NoRequestTyped, BoundAssumption DEF Init, TypeOK, Nothing, Held
<1> QED BY <1>1
        DEF Init, IInv, OneRow, NextHighest, VersionsBelow, ChosenFresh, HeldKnown,
            ValidatedProven, HeldProven, NoneLate, ServedWasReady

\* What every committed mutation does, given what it makes of the versions: no
\* number is higher than the new revision, none of those remembered is reused, and
\* ACTIVE is not given up.
LEMMA Committed ==
    ASSUME IInv, NEW w \in Workers, Commit(w), ~Refused(input[w]),
           UNCHANGED <<proven, served>>,
           DOMAIN versions' \subseteq 1..MaxRevision,
           \A v \in DOMAIN versions' :
             versions'[v] \in [state : States, config : Configs, validated : BOOLEAN],
           OneRow', NextHighest', VersionsBelow', ValidatedProven',
           \A u \in DOMAIN versions : \E v \in DOMAIN versions' : u <= v,
           InState("ACTIVE") # {} => InState("ACTIVE")' # {},
           \A v \in DOMAIN versions' :
             \/ v \in DOMAIN versions /\ versions'[v].config = versions[v].config
             \/ \A u \in DOMAIN versions : u < v
    PROVE  IInv'
<1>1. /\ revision' = revision + 1 /\ revision \in 0..MaxRevision /\ revision < MaxRevision
      /\ MaxRevision \in Nat /\ Remember(input[w]) /\ Return(w) /\ input[w] \in Requests
  BY BoundAssumption DEF Commit, IInv, TypeOK
<1>2. revision' \in 0..MaxRevision
  BY <1>1
<1>3. TypeOK'
  BY <1>1, <1>2, RememberTyped, ReturnLocals DEF IInv, TypeOK
<1>4. \A r \in Requests : r.expected \in Nat
  BY RequestsTyped
<1>5. ChosenFresh'
  <2> SUFFICES ASSUME NEW x \in Workers, pc'[x] = "encrypting"
      PROVE  /\ held'[x].version \in 1..input'[x].expected + 1 /\ held'[x].config \in Configs
             /\ input'[x].expected <= revision'
             /\ revision' # input'[x].expected
    BY DEF ChosenFresh
  <2>1. x # w /\ pc[x] = "encrypting" /\ held'[x] = held[x] /\ input'[x] = input[x]
    BY <1>1, ReturnLocals DEF IInv
  <2>2. input[x].expected <= revision /\ input[x].expected \in Nat
    BY <1>4, <2>1 DEF IInv, ChosenFresh, TypeOK
  <2> QED BY <1>1, <2>1, <2>2 DEF IInv, ChosenFresh
<1>6. HeldKnown'
  <2> SUFFICES ASSUME NEW x \in Workers, pc'[x] \in {"testing", "tested"}
      PROVE  /\ \E v \in DOMAIN versions' : held'[x].version <= v
             /\ held'[x].version \in DOMAIN versions' =>
                  versions'[held'[x].version].config = held'[x].config
    BY DEF HeldKnown
  <2>1. x # w /\ pc[x] \in {"testing", "tested"} /\ held'[x] = held[x]
    BY <1>1, ReturnLocals DEF IInv
  <2>2. PICK u \in DOMAIN versions : held[x].version <= u
    BY <2>1 DEF IInv, HeldKnown
  <2>3. PICK v \in DOMAIN versions' : u <= v
    OBVIOUS
  <2>4. u \in Nat /\ v \in Nat /\ held[x].version \in Nat
    BY <1>1, <1>3 DEF IInv, TypeOK, Held
  <2>5. held[x].version <= v
    BY <2>2, <2>3, <2>4
  <2>6. ~(\A y \in DOMAIN versions : y < held[x].version)
    BY <2>2, <2>4
  <2> QED BY <2>1, <2>3, <2>5, <2>6 DEF IInv, HeldKnown
<1>7. HeldProven'
  BY <1>1, ReturnLocals DEF IInv, HeldProven
<1> QED BY <1>1, <1>3, <1>5, <1>6, <1>7, ReturnNoneLate DEF IInv, ServedWasReady

-----------------------------------------------------------------------------
LEMMA StageStep ==
    ASSUME IInv, NEW w \in Workers, StageCommit(w)
    PROVE  IInv'
<1> DEFINE n == held[w].version
           kept == Without(versions, "NEXT")
           row == [state |-> "NEXT", config |-> held[w].config, validated |-> FALSE]
<1>1. /\ versions' = [u \in DOMAIN kept \cup {n} |-> IF u = n THEN row ELSE kept[u]]
      /\ Commit(w) /\ ~Refused(input[w]) /\ UNCHANGED <<proven, served>>
      /\ pc[w] = "encrypting"
  BY DEF StageCommit
<1>2. /\ DOMAIN kept \subseteq DOMAIN versions
      /\ \A v \in DOMAIN kept : kept[v] = versions[v] /\ kept[v].state # "NEXT"
  BY DEF Without
<1>3. /\ \A v \in DOMAIN versions : v < n
      /\ n \in 1..input[w].expected + 1 /\ held[w].config \in Configs
      /\ revision = input[w].expected
  BY <1>1 DEF IInv, ChosenFresh, Refused
<1>4. /\ revision \in 0..MaxRevision /\ revision < MaxRevision /\ MaxRevision \in Nat
      /\ revision' = revision + 1 /\ DOMAIN versions \subseteq 1..MaxRevision
  BY <1>1, BoundAssumption DEF Commit, IInv, TypeOK
<1>5. n \in 1..MaxRevision /\ n <= revision' /\ n \notin DOMAIN versions
  BY <1>3, <1>4
<1>6. /\ DOMAIN versions' = DOMAIN kept \cup {n}
      /\ versions'[n] = row
      /\ \A v \in DOMAIN kept : versions'[v] = versions[v] /\ v # n
  BY <1>1, <1>2, <1>5
<1>7. row \in [state : States, config : Configs, validated : BOOLEAN]
  BY <1>3 DEF States
<1>8. /\ DOMAIN versions' \subseteq 1..MaxRevision
      /\ \A v \in DOMAIN versions' :
           versions'[v] \in [state : States, config : Configs, validated : BOOLEAN]
  BY <1>2, <1>5, <1>6, <1>7 DEF IInv, TypeOK
<1>9. OneRow'
  BY <1>2, <1>6 DEF IInv, OneRow
<1>10. \A v \in DOMAIN versions' : v <= n
  BY <1>2, <1>3, <1>4, <1>5, <1>6
<1>11. NextHighest'
  BY <1>2, <1>6, <1>10 DEF NextHighest
<1>12. VersionsBelow'
  <2> SUFFICES ASSUME NEW v \in DOMAIN versions' PROVE v <= revision'
    BY DEF VersionsBelow
  <2> QED BY <1>4, <1>5, <1>8, <1>10
<1>13. ValidatedProven'
  BY <1>1, <1>2, <1>6 DEF IInv, ValidatedProven
<1>14. \A u \in DOMAIN versions : \E v \in DOMAIN versions' : u <= v
  BY <1>3, <1>4, <1>5, <1>6
<1>15. \A v \in DOMAIN versions' :
         \/ v \in DOMAIN versions /\ versions'[v].config = versions[v].config
         \/ \A u \in DOMAIN versions : u < v
  BY <1>2, <1>3, <1>6
<1>16. InState("ACTIVE") # {} => InState("ACTIVE")' # {}
  BY <1>6 DEF InState, Without
<1> QED BY <1>1, <1>8, <1>9, <1>11, <1>12, <1>13, <1>14, <1>15, <1>16, Committed

\* Mutations that only change states and flags of rows, or drop rows below NEXT.
LEMMA TestStep ==
    ASSUME IInv, NEW w \in Workers, TestCommit(w)
    PROVE  IInv'
<1> DEFINE n == held[w].version
<1>1. /\ versions' = [versions EXCEPT ![n].validated = TRUE]
      /\ Commit(w) /\ ~Refused(input[w]) /\ UNCHANGED <<proven, served>>
      /\ n \in InState("NEXT") /\ pc[w] = "tested"
  BY DEF TestCommit
<1>2. /\ DOMAIN versions' = DOMAIN versions /\ n \in DOMAIN versions
      /\ \A v \in DOMAIN versions :
           /\ versions'[v].state = versions[v].state
           /\ versions'[v].config = versions[v].config
           /\ v # n => versions'[v] = versions[v]
           /\ versions'[v] \in [state : States, config : Configs, validated : BOOLEAN]
  BY <1>1 DEF InState, IInv, TypeOK
<1>3. [version |-> n, config |-> versions[n].config] \in proven
  <2>1. held[w] \in Held /\ held[w] \in proven /\ versions[n].config = held[w].config
    BY <1>1, <1>2 DEF IInv, TypeOK, HeldKnown, HeldProven
  <2> QED BY <2>1 DEF Held
<1>4. ValidatedProven'
  BY <1>1, <1>2, <1>3 DEF IInv, ValidatedProven
<1>5. /\ revision \in Nat /\ revision' = revision + 1 /\ DOMAIN versions \subseteq Nat
  BY <1>1, BoundAssumption DEF Commit, IInv, TypeOK
<1>6. OneRow' /\ NextHighest'
  BY <1>2 DEF IInv, OneRow, NextHighest
<1>7. VersionsBelow'
  <2> SUFFICES ASSUME NEW v \in DOMAIN versions' PROVE v <= revision'
    BY DEF VersionsBelow
  <2>1. v <= revision /\ v \in Nat
    BY <1>2, <1>5 DEF IInv, VersionsBelow
  <2> QED BY <1>5, <2>1
<1>8. \A u \in DOMAIN versions : \E v \in DOMAIN versions' : u <= v
  BY <1>2, <1>5
<1>9. DOMAIN versions' \subseteq 1..MaxRevision
  BY <1>2 DEF IInv, TypeOK
<1>10. InState("ACTIVE")' = InState("ACTIVE")
  BY <1>2 DEF InState
<1> QED BY <1>1, <1>2, <1>4, <1>6, <1>7, <1>8, <1>9, <1>10, Committed

\* activate: the row of PREVIOUS goes, ACTIVE becomes PREVIOUS and NEXT ACTIVE.
LEMMA ActivatedRows ==
    ASSUME TypeOK, NEW w \in Workers, Activate(w)
    PROVE  /\ DOMAIN versions' = {v \in DOMAIN versions : versions[v].state # "PREVIOUS"}
           /\ \A v \in DOMAIN versions' :
                /\ versions'[v].config = versions[v].config
                /\ versions'[v].validated = versions[v].validated
                /\ versions'[v].state =
                     IF versions[v].state = "ACTIVE" THEN "PREVIOUS" ELSE "ACTIVE"
                /\ versions'[v] \in [state : States, config : Configs, validated : BOOLEAN]
<1> DEFINE A == Without(versions, "PREVIOUS")
           B == Moved(A, "ACTIVE", "PREVIOUS")
           C == Moved(B, "NEXT", "ACTIVE")
           D == {v \in DOMAIN versions : versions[v].state # "PREVIOUS"}
<1>1. versions' = C
  BY DEF Activate
<1>2. DOMAIN A = D /\ \A v \in D : A[v] = versions[v]
  BY DEF Without
<1>3. /\ DOMAIN B = D
      /\ \A v \in D : B[v] = IF versions[v].state = "ACTIVE"
                             THEN [versions[v] EXCEPT !.state = "PREVIOUS"]
                             ELSE versions[v]
  BY <1>2 DEF Moved
<1> HIDE DEF A
<1>4. /\ DOMAIN C = D
      /\ \A v \in D : C[v] = IF B[v].state = "NEXT" THEN [B[v] EXCEPT !.state = "ACTIVE"]
                             ELSE B[v]
  BY <1>3 DEF Moved
<1> HIDE DEF B, C
<1> SUFFICES ASSUME NEW v \in D
    PROVE  /\ C[v].config = versions[v].config
           /\ C[v].validated = versions[v].validated
           /\ C[v].state = IF versions[v].state = "ACTIVE" THEN "PREVIOUS" ELSE "ACTIVE"
           /\ C[v] \in [state : States, config : Configs, validated : BOOLEAN]
  BY <1>1, <1>4
<1>5. versions[v] \in [state : States, config : Configs, validated : BOOLEAN]
  BY DEF TypeOK
<1>6. CASE versions[v].state = "ACTIVE"
  <2>1. B[v] = [versions[v] EXCEPT !.state = "PREVIOUS"]
    BY <1>3, <1>6
  <2>2. B[v].state = "PREVIOUS" /\ C[v] = B[v]
    BY <1>4, <1>5, <2>1
  <2>3. /\ C[v].config = versions[v].config /\ C[v].validated = versions[v].validated
        /\ C[v] \in [state : States, config : Configs, validated : BOOLEAN]
    BY <1>5, <2>1, <2>2 DEF States
  <2> QED BY <1>6, <2>2, <2>3
<1>7. CASE versions[v].state = "NEXT"
  <2>1. B[v] = versions[v]
    BY <1>3, <1>7
  <2>2. C[v] = [versions[v] EXCEPT !.state = "ACTIVE"]
    BY <1>4, <1>7, <2>1
  <2>3. /\ C[v].state = "ACTIVE" /\ C[v].config = versions[v].config
        /\ C[v].validated = versions[v].validated
    BY <1>5, <2>2
  <2>4. C[v] \in [state : States, config : Configs, validated : BOOLEAN]
    BY <1>5, <2>2 DEF States
  <2> QED BY <1>7, <2>3, <2>4
<1>8. versions[v].state \in {"ACTIVE", "NEXT"}
  BY <1>5 DEF States
<1> QED BY <1>6, <1>7, <1>8

LEMMA ActivateStep ==
    ASSUME IInv, NEW w \in Workers, Activate(w)
    PROVE  IInv'
<1>1. /\ Commit(w) /\ ~Refused(input[w]) /\ UNCHANGED <<proven, served>> /\ NextValidated
  BY DEF Activate
<1>2. /\ DOMAIN versions' \subseteq DOMAIN versions
      /\ DOMAIN versions' = {v \in DOMAIN versions : versions[v].state # "PREVIOUS"}
      /\ \A v \in DOMAIN versions' :
           /\ versions'[v].config = versions[v].config
           /\ versions'[v].validated = versions[v].validated
           /\ versions'[v].state =
                IF versions[v].state = "ACTIVE" THEN "PREVIOUS" ELSE "ACTIVE"
           /\ versions'[v] \in [state : States, config : Configs, validated : BOOLEAN]
  BY ActivatedRows DEF IInv
<1>3. PICK n \in DOMAIN versions : versions[n].state = "NEXT"
  BY <1>1 DEF NextValidated, InState
<1>4. /\ revision \in Nat /\ revision' = revision + 1 /\ DOMAIN versions \subseteq Nat
      /\ DOMAIN versions' \subseteq 1..MaxRevision
  BY <1>1, <1>2, BoundAssumption DEF Commit, IInv, TypeOK
<1>5. \A v \in DOMAIN versions : versions[v].state \in States
  BY DEF IInv, TypeOK
<1>6. OneRow'
  BY <1>2, <1>5 DEF IInv, OneRow, States
<1>7. NextHighest'
  BY <1>2 DEF NextHighest
<1>8. VersionsBelow'
  <2> SUFFICES ASSUME NEW v \in DOMAIN versions' PROVE v <= revision'
    BY DEF VersionsBelow
  <2>1. v <= revision /\ v \in Nat
    BY <1>2, <1>4 DEF IInv, VersionsBelow
  <2> QED BY <1>4, <2>1
<1>9. ValidatedProven'
  BY <1>1, <1>2 DEF IInv, ValidatedProven
<1>10. \A u \in DOMAIN versions : \E v \in DOMAIN versions' : u <= v
  <2>1. n \in DOMAIN versions'
    BY <1>2, <1>3
  <2> QED BY <1>3, <2>1 DEF IInv, NextHighest
<1>11. n \in InState("ACTIVE")'
  BY <1>2, <1>3 DEF InState
<1> QED BY <1>1, <1>2, <1>4, <1>6, <1>7, <1>8, <1>9, <1>10, <1>11, Committed

\* rollback: with no NEXT, ACTIVE and PREVIOUS change places.
LEMMA SwappedRows ==
    ASSUME TypeOK, InState("NEXT") = {}
    PROVE  /\ DOMAIN Swapped = DOMAIN versions
           /\ \A v \in DOMAIN versions :
                Swapped[v] = [versions[v] EXCEPT !.state =
                                IF versions[v].state = "ACTIVE" THEN "PREVIOUS" ELSE "ACTIVE"]
<1> DEFINE A == Moved(versions, "ACTIVE", "NEXT")
           B == Moved(A, "PREVIOUS", "ACTIVE")
           C == Moved(B, "NEXT", "PREVIOUS")
<1>1. /\ DOMAIN A = DOMAIN versions
      /\ \A v \in DOMAIN versions :
           A[v] = IF versions[v].state = "ACTIVE" THEN [versions[v] EXCEPT !.state = "NEXT"]
                  ELSE versions[v]
  BY DEF Moved
<1> HIDE DEF A
<1>2. /\ DOMAIN B = DOMAIN versions
      /\ \A v \in DOMAIN versions :
           B[v] = IF A[v].state = "PREVIOUS" THEN [A[v] EXCEPT !.state = "ACTIVE"] ELSE A[v]
  BY <1>1 DEF Moved
<1> HIDE DEF B
<1>3. /\ DOMAIN C = DOMAIN versions
      /\ \A v \in DOMAIN versions :
           C[v] = IF B[v].state = "NEXT" THEN [B[v] EXCEPT !.state = "PREVIOUS"] ELSE B[v]
  BY <1>2 DEF Moved
<1>4. Swapped = C
  BY DEF Swapped, A, B
<1> HIDE DEF C
<1> SUFFICES ASSUME NEW v \in DOMAIN versions
    PROVE  C[v] = [versions[v] EXCEPT !.state =
                     IF versions[v].state = "ACTIVE" THEN "PREVIOUS" ELSE "ACTIVE"]
  BY <1>3, <1>4
<1>5. /\ versions[v] \in [state : States, config : Configs, validated : BOOLEAN]
      /\ versions[v].state \in {"ACTIVE", "PREVIOUS"}
  BY DEF TypeOK, InState, States
<1>6. CASE versions[v].state = "ACTIVE"
  BY <1>1, <1>2, <1>3, <1>5, <1>6
<1>7. CASE versions[v].state = "PREVIOUS"
  BY <1>1, <1>2, <1>3, <1>5, <1>7
<1> QED BY <1>5, <1>6, <1>7

LEMMA RollbackStep ==
    ASSUME IInv, NEW w \in Workers, Rollback(w)
    PROVE  IInv'
<1>1. /\ Commit(w) /\ ~Refused(input[w]) /\ UNCHANGED <<proven, served>>
      /\ InState("NEXT") = {} /\ versions' = Swapped
  BY DEF Rollback
<1>2. \A v \in DOMAIN versions :
        /\ versions[v] \in [state : States, config : Configs, validated : BOOLEAN]
        /\ versions[v].state \in {"ACTIVE", "PREVIOUS"}
  BY <1>1 DEF IInv, TypeOK, InState, States
<1>3. /\ DOMAIN versions' = DOMAIN versions
      /\ \A v \in DOMAIN versions :
           /\ versions'[v].config = versions[v].config
           /\ versions'[v].validated = versions[v].validated
           /\ versions'[v].state =
                IF versions[v].state = "ACTIVE" THEN "PREVIOUS" ELSE "ACTIVE"
           /\ versions'[v] \in [state : States, config : Configs, validated : BOOLEAN]
  <2>1. /\ DOMAIN Swapped = DOMAIN versions
        /\ \A v \in DOMAIN versions :
             Swapped[v] = [versions[v] EXCEPT !.state =
                             IF versions[v].state = "ACTIVE" THEN "PREVIOUS" ELSE "ACTIVE"]
    BY <1>1, SwappedRows DEF IInv
  <2>2. SUFFICES ASSUME NEW v \in DOMAIN versions,
                        NEW s \in {"ACTIVE", "PREVIOUS"},
                        s = IF versions[v].state = "ACTIVE" THEN "PREVIOUS" ELSE "ACTIVE"
        PROVE  LET row == [versions[v] EXCEPT !.state = s]
               IN  /\ row.config = versions[v].config
                   /\ row.validated = versions[v].validated
                   /\ row.state = s
                   /\ row \in [state : States, config : Configs, validated : BOOLEAN]
    <3>1. versions' = Swapped
      BY <1>1
    <3> HIDE DEF Swapped
    <3> QED BY <2>1, <3>1
  <2> QED BY <1>2 DEF States
<1>4. /\ revision \in Nat /\ revision' = revision + 1 /\ DOMAIN versions \subseteq Nat
      /\ DOMAIN versions' \subseteq 1..MaxRevision
  BY <1>1, <1>3, BoundAssumption DEF Commit, IInv, TypeOK
<1>5. OneRow' /\ NextHighest'
  BY <1>2, <1>3 DEF IInv, OneRow, NextHighest
<1>6. VersionsBelow'
  <2> SUFFICES ASSUME NEW v \in DOMAIN versions' PROVE v <= revision'
    BY DEF VersionsBelow
  <2>1. v <= revision /\ v \in Nat
    BY <1>3, <1>4 DEF IInv, VersionsBelow
  <2> QED BY <1>4, <2>1
<1>7. ValidatedProven'
  BY <1>1, <1>3 DEF IInv, ValidatedProven
<1>8. \A u \in DOMAIN versions : \E v \in DOMAIN versions' : u <= v
  BY <1>3, <1>4
<1>9. InState("ACTIVE")' # {}
  <2>1. PICK v \in InState("PREVIOUS") : TRUE
    BY DEF Rollback
  <2> QED BY <1>3, <2>1 DEF InState
<1> QED BY <1>1, <1>3, <1>4, <1>5, <1>6, <1>7, <1>8, <1>9, Committed

-----------------------------------------------------------------------------
\* A step that moves one worker's locals and leaves the tables alone keeps what
\* is said of the tables; what is said of the locals is left to the caller.
LEMMA Locally ==
    ASSUME IInv, NEW w \in Workers, UNCHANGED <<db, served>>,
           proven \subseteq proven', proven' \subseteq Held,
           NEW at \in {"received", "encrypting", "testing", "tested", "assessed",
                       "decrypting", "fallback"},
           pc' = [pc EXCEPT ![w] = at],
           NEW r \in Requests, input' = [input EXCEPT ![w] = r],
           NEW h \in Held, held' = [held EXCEPT ![w] = h],
           at = "encrypting" =>
               /\ h.version \in 1..r.expected + 1 /\ h.config \in Configs
               /\ r.expected <= revision
               /\ revision = r.expected => \A v \in DOMAIN versions : v < h.version,
           at \in {"testing", "tested"} =>
               /\ \E v \in DOMAIN versions : h.version <= v
               /\ h.version \in DOMAIN versions => versions[h.version].config = h.config,
           at \in {"tested", "decrypting"} => h \in proven',
           at = "fallback" => InState("ACTIVE") = {},
           late' = late \/ (late' = late \cup {w} /\ InState("ACTIVE") # {})
    PROVE  IInv'
<1>1. \A x \in Workers :
        /\ x = w => pc'[x] = at /\ input'[x] = r /\ held'[x] = h
        /\ x # w => pc'[x] = pc[x] /\ input'[x] = input[x] /\ held'[x] = held[x]
  BY DEF IInv, TypeOK
<1>2. TypeOK'
  BY DEF IInv, TypeOK, db
<1>3. ChosenFresh'
  <2> SUFFICES ASSUME NEW x \in Workers, pc'[x] = "encrypting"
      PROVE  /\ held'[x].version \in 1..input'[x].expected + 1 /\ held'[x].config \in Configs
             /\ input'[x].expected <= revision'
             /\ revision' = input'[x].expected =>
                  \A v \in DOMAIN versions' : v < held'[x].version
    BY DEF ChosenFresh
  <2>1. CASE x = w
    BY <1>1, <2>1 DEF db
  <2>2. CASE x # w
    BY <1>1, <2>2 DEF IInv, ChosenFresh, db
  <2> QED BY <2>1, <2>2
<1>4. HeldKnown'
  BY <1>1 DEF IInv, HeldKnown, db
<1>5. HeldProven'
  BY <1>1 DEF IInv, HeldProven
<1>6. NoneLate'
  <2>1. InState("ACTIVE")' = InState("ACTIVE")
    BY DEF InState, db
  <2> QED BY <1>1, <2>1 DEF IInv, NoneLate
<1>7. ServedWasReady'
  BY DEF IInv, ServedWasReady
<1> QED BY <1>2, <1>3, <1>4, <1>5, <1>6, <1>7
        DEF IInv, OneRow, NextHighest, VersionsBelow, ValidatedProven, db

LEMMA StageReadStep ==
    ASSUME IInv, NEW w \in Workers, StageRead(w)
    PROVE  IInv'
<1>1. PICK n \in 1..MaxRevision + 1 :
        /\ IsNextVersion(n)
        /\ held' = [held EXCEPT ![w] = [version |-> n, config |-> input[w].config]]
  BY DEF StageRead
<1>2. input[w] \in Requests /\ input[w].config \in Configs /\ input[w].expected = revision
  BY RequestsTyped DEF StageRead, Refused, IInv, TypeOK
<1>3. [version |-> n, config |-> input[w].config] \in Held
  BY <1>2 DEF Held
<1>4. revision \in Nat /\ DOMAIN versions \subseteq Nat /\ n \in Nat
  BY BoundAssumption DEF IInv, TypeOK
<1>5. n \in 1..revision + 1 /\ \A v \in DOMAIN versions : v < n
  <2>1. CASE n = 1
    BY <1>1, <1>4, <2>1 DEF IsNextVersion
  <2>2. CASE n - 1 \in DOMAIN versions
    BY <1>1, <1>4, <2>2 DEF IsNextVersion, IInv, VersionsBelow
  <2> QED BY <1>1, <2>1, <2>2 DEF IsNextVersion
<1>6. /\ pc' = [pc EXCEPT ![w] = "encrypting"]
      /\ input' = [input EXCEPT ![w] = input[w]]
      /\ UNCHANGED <<db, late, proven, served>>
  BY DEF StageRead, Park, asked, IInv, TypeOK
<1> DEFINE h == [version |-> n, config |-> input[w].config]
<1>7. /\ held' = [held EXCEPT ![w] = h] /\ h \in Held /\ proven \subseteq Held
      /\ h.version = n /\ h.config = input[w].config
  BY <1>1, <1>3 DEF IInv, TypeOK
<1> HIDE DEF h
<1>8. /\ h.version \in 1..input[w].expected + 1 /\ h.config \in Configs
      /\ input[w].expected <= revision
      /\ \A v \in DOMAIN versions : v < h.version
  BY <1>2, <1>4, <1>5, <1>7
<1>9. proven \subseteq proven' /\ proven' \subseteq Held
  BY <1>6, <1>7
<1> QED BY <1>2, <1>6, <1>7, <1>8, <1>9, Locally

LEMMA TestReadStep ==
    ASSUME IInv, NEW w \in Workers, TestRead(w)
    PROVE  IInv'
<1>1. PICK v \in InState("NEXT") :
        held' = [held EXCEPT ![w] = [version |-> v, config |-> versions[v].config]]
  BY DEF TestRead
<1>2. v \in DOMAIN versions /\ v \in Nat /\ v \in 1..MaxRevision
      /\ versions[v].config \in Configs
  BY <1>1, BoundAssumption DEF InState, IInv, TypeOK
<1>3. [version |-> v, config |-> versions[v].config] \in Held
  BY <1>2, BoundAssumption DEF Held
<1>4. /\ pc' = [pc EXCEPT ![w] = "testing"]
      /\ input' = [input EXCEPT ![w] = input[w]] /\ input[w] \in Requests
      /\ UNCHANGED <<db, late, proven, served>>
  BY DEF TestRead, Park, asked, IInv, TypeOK
<1>5. \E u \in DOMAIN versions : v <= u
  BY <1>2
<1> QED BY <1>1, <1>2, <1>3, <1>4, <1>5, Locally DEF IInv, TypeOK

LEMMA LoadActiveStep ==
    ASSUME IInv, NEW w \in Workers, LoadActive(w)
    PROVE  IInv'
<1>1. PICK v \in InState("ACTIVE") :
        /\ versions[v].validated
        /\ held' = [held EXCEPT ![w] = [version |-> v, config |-> versions[v].config]]
  BY DEF LoadActive
<1>2. [version |-> v, config |-> versions[v].config] \in proven
  BY <1>1 DEF InState, IInv, ValidatedProven
<1>3. /\ pc' = [pc EXCEPT ![w] = "decrypting"]
      /\ input' = [input EXCEPT ![w] = input[w]] /\ input[w] \in Requests
      /\ UNCHANGED <<db, late, proven, served>> /\ proven \subseteq Held
  BY DEF LoadActive, Park, asked, IInv, TypeOK
<1> QED BY <1>1, <1>2, <1>3, Locally

\* Every step keeps the invariant.
LEMMA NextIInv ==
    ASSUME IInv, [Next]_vars
    PROVE  IInv'
<1>1. CASE UNCHANGED vars
  BY <1>1 DEF vars, db, asked, InState, NoneLate, IInv, TypeOK, OneRow, NextHighest,
              VersionsBelow, ChosenFresh, HeldKnown, ValidatedProven, HeldProven,
              ServedWasReady
<1>2. ASSUME NEW w \in Workers, NEW r \in Requests, Receive(w, r) PROVE IInv'
  <2>1. /\ pc' = [pc EXCEPT ![w] = "received"] /\ input' = [input EXCEPT ![w] = r]
        /\ held' = [held EXCEPT ![w] = held[w]] /\ held[w] \in Held
        /\ UNCHANGED <<db, proven, served>> /\ proven \subseteq Held
        /\ late' = late \/ (late' = late \cup {w} /\ InState("ACTIVE") # {})
    BY <1>2 DEF Receive, Park, IInv, TypeOK
  <2> QED BY <2>1, Locally
<1>3. ASSUME NEW w \in Workers,
             Answer(w) \/ TargetNotReady(w) \/ AssessNotReady(w) \/ Crash(w)
      PROVE  IInv'
  <2>1. Return(w) /\ UNCHANGED <<db, proven, served>>
    BY <1>3 DEF Answer, TargetNotReady, AssessNotReady, Crash
  <2>2. served' \subseteq Handed /\ ServedWasReady'
    BY <2>1 DEF IInv, TypeOK, ServedWasReady
  <2> QED BY <2>1, <2>2, Quiet
<1>4. ASSUME NEW w \in Workers, TargetsReady(w) PROVE IInv'
  <2>1. /\ pc' = [pc EXCEPT ![w] = "tested"] /\ pc[w] = "testing"
        /\ input' = [input EXCEPT ![w] = input[w]] /\ input[w] \in Requests
        /\ held' = [held EXCEPT ![w] = held[w]] /\ held[w] \in Held
        /\ UNCHANGED <<db, late, served>>
        /\ proven' = proven \cup {held[w]} /\ proven \subseteq Held
    BY <1>4 DEF TargetsReady, Park, asked, IInv, TypeOK
  <2>2. /\ \E v \in DOMAIN versions : held[w].version <= v
        /\ held[w].version \in DOMAIN versions =>
             versions[held[w].version].config = held[w].config
    BY <2>1 DEF IInv, HeldKnown
  <2> QED BY <2>1, <2>2, Locally
<1>5. ASSUME NEW w \in Workers, AssessReady(w) \/ AssessLegacy(w) PROVE IInv'
  <2>1. /\ \/ pc' = [pc EXCEPT ![w] = "assessed"]
           \/ pc' = [pc EXCEPT ![w] = "fallback"] /\ InState("ACTIVE") = {}
        /\ input' = [input EXCEPT ![w] = input[w]] /\ input[w] \in Requests
        /\ held' = [held EXCEPT ![w] = held[w]] /\ held[w] \in Held
        /\ UNCHANGED <<db, late, proven, served>> /\ proven \subseteq Held
    BY <1>5 DEF AssessReady, AssessLegacy, Park, asked, IInv, TypeOK
  <2> QED BY <2>1, Locally
<1>6. ASSUME NEW w \in Workers, Serve(w) \/ ServeLegacy(w) PROVE IInv'
  <2>1. Return(w) /\ UNCHANGED <<db, proven>>
    BY <1>6 DEF Serve, ServeLegacy
  <2>2. PICK h \in Held :
          /\ served' = served \cup {[version |-> h.version, config |-> h.config,
                                     late |-> w \in late]}
          /\ h \in proven \/ (h.version = 0 /\ w \notin late)
    <3>1. CASE Serve(w)
      BY <3>1 DEF Serve, Hand, IInv, TypeOK, HeldProven
    <3>2. ASSUME NEW c \in LegacyTargets, Hand(w, FromEnvironment(c)), pc[w] = "fallback"
          PROVE  \E h \in Held :
                   /\ served' = served \cup {[version |-> h.version, config |-> h.config,
                                              late |-> w \in late]}
                   /\ h \in proven \/ (h.version = 0 /\ w \notin late)
      <4>1. FromEnvironment(c) \in Held /\ FromEnvironment(c).version = 0
        BY LegacyAssumption DEF FromEnvironment, Held
      <4>2. w \notin late
        BY <3>2 DEF IInv, NoneLate
      <4> QED BY <3>2, <4>1, <4>2 DEF Hand
    <3> QED BY <1>6, <3>1, <3>2 DEF ServeLegacy
  <2> DEFINE new == [version |-> h.version, config |-> h.config, late |-> w \in late]
  <2>3. served' \subseteq Handed
    <3>1. (w \in late) \in BOOLEAN
      OBVIOUS
    <3>2. new \in Handed
      BY <3>1 DEF Held, Handed
    <3> QED BY <2>2, <3>2 DEF IInv, TypeOK
  <2>4. [version |-> new.version, config |-> new.config] = h
    BY DEF Held
  <2>5. ServedWasReady'
    <3>1. h \in proven \/ (new.version = 0 /\ ~new.late)
      BY <2>2
    <3>2. proven' = proven /\ served' = served \cup {new}
      BY <2>1, <2>2
    <3> HIDE DEF new
    <3> QED BY <2>4, <3>1, <3>2 DEF IInv, ServedWasReady
  <2> QED BY <2>1, <2>3, <2>5, Quiet
<1> QED BY <1>1, <1>2, <1>3, <1>4, <1>5, <1>6, StageReadStep, StageStep, TestReadStep,
           TestStep, ActivateStep, RollbackStep, LoadActiveStep DEF Next

THEOREM InvariantHolds == Spec => []IInv
<1>1. IInv /\ [Next]_vars => IInv'
  BY NextIInv
<1> QED BY <1>1, InitIInv, PTL DEF Spec

\* The types, for any number of workers and any bound on the revision.
THEOREM TypeCorrect == Spec => []TypeOK
<1>1. IInv => TypeOK
  BY DEF IInv
<1> QED BY <1>1, InvariantHolds, PTL

\* No erasure operation is given targets that were not tested as they are, except
\* that one that arrived before the first activation may be given the legacy ones.
THEOREM ServedAlwaysReady == Spec => []ServedWasReady
<1>1. IInv => ServedWasReady
  BY DEF IInv
<1> QED BY <1>1, InvariantHolds, PTL

\* The version number chosen before the encryption is free at the INSERT.
THEOREM StageAlwaysInserts == Spec => []StageNeverCollides
<1>1. IInv => StageNeverCollides
  BY DEF IInv, ChosenFresh, OneRow, StageNeverCollides, Refused
<1> QED BY <1>1, InvariantHolds, PTL

-----------------------------------------------------------------------------
\* The configuration in a state is that of any row found in it.
LEMMA ConfigFound ==
    ASSUME OneRow, NEW s, NEW v \in InState(s)
    PROVE  ConfigOf(s) = versions[v].config
<1>1. \A u \in InState(s) : u = v
  BY DEF OneRow, InState
<1> QED BY <1>1 DEF ConfigOf

LEMMA ConfigNone ==
    ASSUME NEW s, InState(s) = {}
    PROVE  ConfigOf(s) = NoConfig
BY DEF ConfigOf

\* A row that survives a step in its state leaves the state's configuration as it was.
LEMMA ConfigKept ==
    ASSUME IInv, IInv', NEW s,
           InState(s)' = InState(s),
           \A v \in InState(s) : versions'[v].config = versions[v].config
    PROVE  ConfigOf(s)' = ConfigOf(s)
<1>1. CASE InState(s) = {}
  BY <1>1 DEF ConfigOf
<1>2. ASSUME NEW v \in InState(s) PROVE ConfigOf(s)' = ConfigOf(s)
  <2>1. ConfigOf(s) = versions[v].config
    BY ConfigFound DEF IInv
  <2>2. (\A x, y \in DOMAIN versions' : versions'[x].state = versions'[y].state => x = y)
        /\ InState(s)' = {x \in DOMAIN versions' : versions'[x].state = s}
        /\ v \in InState(s)'
    BY DEF IInv, OneRow, InState
  <2>3. \A x \in InState(s)' : x = v
    BY <2>2
  <2>4. ConfigOf(s)' = versions'[v].config
    BY <2>2, <2>3 DEF ConfigOf
  <2> QED BY <2>1, <2>4
<1> QED BY <1>1, <1>2

LEMMA RepositoryStep ==
    ASSUME IInv, IInv', [Next]_vars
    PROVE  [Repository!Next]_(Repository!slots)
<1> DEFINE Same == UNCHANGED Repository!slots
<1>1. CASE UNCHANGED versions
  BY <1>1 DEF Repository!slots, ConfigOf, InState, NextValidated
<1>2. ASSUME NEW w \in Workers, StageCommit(w) PROVE Repository!Next
  <2> DEFINE n == held[w].version
             kept == Without(versions, "NEXT")
             row == [state |-> "NEXT", config |-> held[w].config, validated |-> FALSE]
  <2>1. /\ n \notin DOMAIN kept /\ held[w].config \in Configs
        /\ versions' = [u \in DOMAIN kept \cup {n} |-> IF u = n THEN row ELSE kept[u]]
    BY <1>2 DEF StageCommit, IInv, ChosenFresh
  <2>2. /\ DOMAIN kept = {u \in DOMAIN versions : versions[u].state # "NEXT"}
        /\ \A v \in DOMAIN kept : kept[v] = versions[v]
    BY DEF Without
  <2>3. /\ DOMAIN versions' = DOMAIN kept \cup {n}
        /\ versions'[n] = row
        /\ \A v \in DOMAIN kept : versions'[v] = versions[v]
    BY <2>1, <2>2
  <2>4. \A s \in {"ACTIVE", "PREVIOUS"} :
          /\ InState(s)' = InState(s)
          /\ \A v \in InState(s) : versions'[v].config = versions[v].config
    BY <2>2, <2>3 DEF InState
  <2>5. \A s \in {"ACTIVE", "PREVIOUS"} : ConfigOf(s)' = ConfigOf(s)
    BY <2>4, ConfigKept
  <2>6. InState("NEXT")' = {n}
    BY <2>2, <2>3 DEF InState
  <2>7. ConfigOf("NEXT")' = held[w].config /\ NextValidated' = FALSE
    BY <2>3, <2>6 DEF ConfigOf, NextValidated
  <2> QED BY <2>1, <2>5, <2>7 DEF Repository!Next, Repository!Stage
<1>3. ASSUME NEW w \in Workers, TestCommit(w) PROVE Repository!Next
  <2> DEFINE n == held[w].version
  <2>1. /\ n \in InState("NEXT") /\ n \in DOMAIN versions
        /\ versions' = [versions EXCEPT ![n].validated = TRUE]
    BY <1>3 DEF TestCommit, InState
  <2>2. /\ DOMAIN versions' = DOMAIN versions
        /\ versions'[n].validated
        /\ \A v \in DOMAIN versions : /\ versions'[v].state = versions[v].state
                                     /\ versions'[v].config = versions[v].config
    BY <2>1 DEF IInv, TypeOK
  <2>3. \A s \in {"ACTIVE", "NEXT", "PREVIOUS"} :
          /\ InState(s)' = InState(s)
          /\ \A v \in InState(s) : versions'[v].config = versions[v].config
    BY <2>2 DEF InState
  <2>4. \A s \in {"ACTIVE", "NEXT", "PREVIOUS"} : ConfigOf(s)' = ConfigOf(s)
    BY <2>3, ConfigKept
  <2>5. ConfigOf("NEXT") # NoConfig
    BY <2>1, ConfigFound, NoneAssumption DEF IInv, TypeOK
  <2>6. NextValidated' = TRUE
    BY <2>1, <2>2, <2>3 DEF NextValidated
  <2> QED BY <2>4, <2>5, <2>6 DEF Repository!Next, Repository!Test
<1>4. ASSUME NEW w \in Workers, Activate(w) PROVE Repository!Next
  <2>1. /\ DOMAIN versions' = {v \in DOMAIN versions : versions[v].state # "PREVIOUS"}
        /\ \A v \in DOMAIN versions' :
             /\ versions'[v].config = versions[v].config
             /\ versions'[v].state =
                  IF versions[v].state = "ACTIVE" THEN "PREVIOUS" ELSE "ACTIVE"
    BY <1>4, ActivatedRows DEF IInv
  <2>2. NextValidated
    BY <1>4 DEF Activate
  <2>3. PICK n \in InState("NEXT") : TRUE
    BY <2>2 DEF NextValidated
  <2>4. n \in InState("ACTIVE")' /\ InState("NEXT")' = {}
    BY <2>1, <2>3 DEF InState
  <2>5. ConfigOf("ACTIVE")' = ConfigOf("NEXT")
    <3>1. ConfigOf("NEXT") = versions[n].config
      BY ConfigFound DEF IInv
    <3>2. \A x \in InState("ACTIVE")' : x = n
      BY <2>4 DEF IInv, OneRow, InState
    <3> QED BY <2>1, <2>4, <3>1, <3>2 DEF ConfigOf, InState
  <2>6. ConfigOf("NEXT")' = NoConfig /\ NextValidated' = FALSE
    BY <2>4 DEF ConfigOf, NextValidated
  <2>7. ConfigOf("PREVIOUS")' = ConfigOf("ACTIVE")
    <3>1. InState("PREVIOUS")' = InState("ACTIVE")
      BY <2>1 DEF InState
    <3>2. CASE InState("ACTIVE") = {}
      BY <3>1, <3>2 DEF ConfigOf
    <3>3. ASSUME NEW v \in InState("ACTIVE")
          PROVE  ConfigOf("PREVIOUS")' = ConfigOf("ACTIVE")
      <4>1. ConfigOf("ACTIVE") = versions[v].config
        BY ConfigFound DEF IInv
      <4>2. \A x \in InState("PREVIOUS")' : x = v
        BY <3>1 DEF IInv, OneRow, InState
      <4>3. v \in InState("PREVIOUS")' /\ versions'[v].config = versions[v].config
        BY <2>1, <3>1 DEF InState
      <4> QED BY <4>1, <4>2, <4>3 DEF ConfigOf
    <3> QED BY <3>2, <3>3
  <2>8. ConfigOf("NEXT") # NoConfig
    <3>1. ConfigOf("NEXT") = versions[n].config
      BY ConfigFound DEF IInv
    <3> QED BY <3>1, NoneAssumption DEF IInv, TypeOK, InState
  <2> QED BY <2>2, <2>5, <2>6, <2>7, <2>8 DEF Repository!Next, Repository!Activate
<1>5. ASSUME NEW w \in Workers, Rollback(w) PROVE Repository!Next
  <2>1. /\ InState("NEXT") = {} /\ InState("ACTIVE") # {} /\ InState("PREVIOUS") # {}
        /\ versions' = Swapped
    BY <1>5 DEF Rollback
  <2>2. /\ DOMAIN Swapped = DOMAIN versions
        /\ \A v \in DOMAIN versions :
             Swapped[v] = [versions[v] EXCEPT !.state =
                             IF versions[v].state = "ACTIVE" THEN "PREVIOUS" ELSE "ACTIVE"]
    BY <2>1, SwappedRows DEF IInv
  <2>3. \A v \in DOMAIN versions :
          /\ versions'[v].config = versions[v].config
          /\ versions[v].state = "ACTIVE" => versions'[v].state = "PREVIOUS"
          /\ versions[v].state = "PREVIOUS" => versions'[v].state = "ACTIVE"
          /\ versions[v].state \in {"ACTIVE", "PREVIOUS"}
    BY <2>1, <2>2 DEF IInv, TypeOK, States, InState
  <2>4. /\ DOMAIN versions' = DOMAIN versions
        /\ InState("ACTIVE")' = InState("PREVIOUS") /\ InState("PREVIOUS")' = InState("ACTIVE")
        /\ InState("NEXT")' = {}
    BY <2>1, <2>2, <2>3 DEF InState
  <2>5. PICK a \in InState("ACTIVE"), b \in InState("PREVIOUS") : TRUE
    BY <2>1
  <2>6. ConfigOf("ACTIVE") = versions[a].config /\ ConfigOf("PREVIOUS") = versions[b].config
    BY ConfigFound DEF IInv
  <2>7. /\ \A x \in InState("ACTIVE")' : x = b
        /\ \A x \in InState("PREVIOUS")' : x = a
    BY <2>4, <2>5 DEF IInv, OneRow, InState
  <2>8. /\ ConfigOf("ACTIVE")' = versions[b].config
        /\ ConfigOf("PREVIOUS")' = versions[a].config
    BY <2>3, <2>4, <2>5, <2>7 DEF ConfigOf, InState
  <2>9. /\ ConfigOf("NEXT")' = ConfigOf("NEXT") /\ NextValidated' = NextValidated
    BY <2>1, <2>4 DEF ConfigOf, NextValidated
  <2>10. versions[b].config # NoConfig
    BY <2>5, NoneAssumption DEF IInv, TypeOK, InState
  <2> QED BY <2>6, <2>8, <2>9, <2>10 DEF Repository!Next, Repository!Rollback
<1> QED
  BY <1>1, <1>2, <1>3, <1>4, <1>5
  DEF Next, vars, db, Receive, Answer, StageRead, TestRead, TargetsReady, TargetNotReady,
      AssessReady, AssessLegacy, AssessNotReady, LoadActive, Serve, ServeLegacy, Crash

\* The repository is a slot register: active is only what was staged and tested.
THEOREM RepositoryImplementsSlots == Spec => KeepsSlots
<1>1. Init => Repository!Init
  BY DEF Init, Repository!Init, ConfigOf, InState, NextValidated
<1>2. IInv /\ IInv' /\ [Next]_vars => [[Repository!Next]_(Repository!slots)]_vars
  BY RepositoryStep
<1>3. IInv /\ [Next]_vars => IInv'
  BY NextIInv
<1> QED BY <1>1, <1>2, <1>3, InitIInv, PTL DEF Spec, KeepsSlots
=============================================================================
