------------------------- MODULE DeliveryConfigProofs -------------------------
(***************************************************************************)
(* Proofs about DeliveryConfig, for any number of workers, channels, keys  *)
(* and revisions.  The heart of the argument: a version number is never    *)
(* reused, so what a test decrypted before an await still is what the      *)
(* version holds, if it is still there, when the test completes.           *)
(***************************************************************************)
EXTENDS DeliveryConfig, TLAPS

\* Every version was numbered by the revision its stage produced.
VersionsBelow == \A v \in DOMAIN versions : v <= revision

\* A version counts as tested only when its provider took a message with it.
TestedProven ==
    \A v \in DOMAIN versions :
        versions[v].tested => [version |-> v, config |-> versions[v].config] \in proven

ActiveTested ==
    \A p \in Providers : \A v \in {slots[p].active, slots[p].previous} :
        v # 0 => versions[v].tested

\* What a test holds across its awaits.
HeldFresh ==
    \A w \in Workers :
        /\ pc[w] \in {"decrypting", "sending", "complete"} =>
             /\ held[w].version \in 1..revision
             /\ held[w].version \in DOMAIN versions =>
                  versions[held[w].version].config = held[w].config
        /\ pc[w] = "complete" => held[w] \in proven

\* A request that took effect expected an earlier revision.
AppliedBefore == \A r \in applied : r.expected < revision

IInv ==
    /\ TypeOK /\ VersionsBelow /\ SlotsResolve /\ TestedProven
    /\ ActiveTested /\ HeldFresh /\ AppliedBefore

-----------------------------------------------------------------------------
LEMMA NoRequestTyped == NoRequest \in Requests
BY RequestsNonEmpty DEF NoRequest

\* The end of a request clears the worker's locals and nobody else's.
LEMMA ReturnLocals ==
    ASSUME TypeOK, NEW w \in Workers, Return(w)
    PROVE  /\ pc' \in [Workers -> {"idle", "received", "encrypting", "decrypting",
                                   "sending", "complete", "abort"}]
           /\ input' \in [Workers -> Requests]
           /\ held' \in [Workers -> [version : {0} \cup Versions,
                                     config : Configs \cup {NoConfig}]]
           /\ pc'[w] = "idle"
           /\ \A u \in Workers \ {w} : pc'[u] = pc[u] /\ held'[u] = held[u]
BY NoRequestTyped DEF TypeOK, Return, Park, Nothing

\* Only rows that were there, or the one written, are left by a pruning.
LEMMA PrunedRows ==
    ASSUME NEW I, NEW k, Pruned(I, k),
           DOMAIN I \subseteq Keys, \A j \in DOMAIN I : I[j] \in Rows
    PROVE  DOMAIN idem' \subseteq Keys /\ \A j \in DOMAIN idem' : idem'[j] \in Rows
BY DEF Pruned

LEMMA WithRowTyped ==
    ASSUME TypeOK, NEW r \in Requests, NEW row \in Rows
    PROVE  /\ DOMAIN WithRow(r.key, row) \subseteq Keys
           /\ \A j \in DOMAIN WithRow(r.key, row) : WithRow(r.key, row)[j] \in Rows
BY DEF TypeOK, WithRow, Keys

LEMMA RememberTyped ==
    ASSUME TypeOK, NEW r \in Requests, NEW v \in Versions, Remember(r, v)
    PROVE  DOMAIN idem' \subseteq Keys /\ \A j \in DOMAIN idem' : idem'[j] \in Rows
<1> DEFINE row == [request |-> r, token |-> NoWorker, version |-> v]
<1>1. row \in Rows
  BY DEF Rows
<1>2. Pruned(WithRow(r.key, row), r.key)
  BY DEF Remember
<1> HIDE DEF row
<1> QED BY <1>1, <1>2, WithRowTyped, PrunedRows

\* A request that ends without touching the database keeps the invariant.
LEMMA Quiet ==
    ASSUME IInv, NEW w \in Workers, Return(w),
           UNCHANGED <<revision, versions, slots, proven, applied>>,
           DOMAIN idem' \subseteq DOMAIN idem,
           \A k \in DOMAIN idem' : idem'[k] = idem[k]
    PROVE  IInv'
<1>1. TypeOK'
  BY ReturnLocals DEF IInv, TypeOK
<1>2. HeldFresh'
  BY ReturnLocals DEF IInv, HeldFresh
<1> QED BY <1>1, <1>2
        DEF IInv, VersionsBelow, SlotsResolve, TestedProven, ActiveTested, AppliedBefore

LEMMA InitIInv == Init => IInv
<1> SUFFICES ASSUME Init PROVE IInv
  OBVIOUS
<1>1. TypeOK
  BY NoRequestTyped, BoundAssumption DEF Init, TypeOK, Nothing
<1>2. VersionsBelow /\ TestedProven /\ AppliedBefore
  BY DEF Init, VersionsBelow, TestedProven, AppliedBefore
<1>3. SlotsResolve /\ ActiveTested
  BY DEF Init, SlotsResolve, ActiveTested
<1>4. HeldFresh
  BY DEF Init, HeldFresh
<1> QED BY <1>1, <1>2, <1>3, <1>4 DEF IInv

\* What a committed mutation does to the revision.
LEMMA Committed ==
    ASSUME IInv, NEW w \in Workers, Commit(w), revision = input[w].expected
    PROVE  /\ revision' \in 1..MaxRevision /\ revision' = revision + 1
           /\ revision \in Nat /\ revision < MaxRevision
           /\ applied' \subseteq Requests /\ AppliedBefore'
<1>1. input[w] \in Requests /\ revision \in Nat /\ MaxRevision \in Nat
  BY BoundAssumption DEF IInv, TypeOK
<1>2. \A r \in Requests : r.expected \in Nat
  BY RequestsTyped
<1>3. revision' = revision + 1 /\ revision < MaxRevision
  BY DEF Commit
<1>4. applied \subseteq Requests /\ applied' = applied \cup {input[w]}
  BY DEF Commit, IInv, TypeOK
<1>5. ASSUME NEW r \in applied' PROVE r.expected < revision'
  BY <1>1, <1>2, <1>3, <1>4, <1>5 DEF IInv, AppliedBefore
<1> QED BY <1>1, <1>3, <1>4, <1>5 DEF AppliedBefore

-----------------------------------------------------------------------------
LEMMA StageStep ==
    ASSUME IInv, NEW w \in Workers, StageCommit(w)
    PROVE  IInv'
<1> DEFINE r == input[w]
           v == r.expected + 1
           row == [provider |-> r.provider, config |-> r.config, tested |-> FALSE]
           S == [slots EXCEPT ![r.provider].next = v]
           V == [u \in DOMAIN versions \cup {v} |-> IF u = v THEN row ELSE versions[u]]
<1>1. /\ r \in Requests /\ r.provider \in Providers /\ r.config \in Configs
      /\ revision = r.expected
      /\ slots' = S /\ versions' = Collected(V, S)
      /\ Remember(r, v) /\ Commit(w) /\ Return(w) /\ UNCHANGED proven
  BY RequestsTyped DEF StageCommit, Refused, IInv, TypeOK
<1>2. /\ revision' = revision + 1 /\ revision' \in 1..MaxRevision /\ revision \in Nat
      /\ applied' \subseteq Requests /\ AppliedBefore'
  BY <1>1, Committed
<1>3. v = revision' /\ v \in Versions /\ v # 0 /\ v \notin DOMAIN versions
  BY <1>1, <1>2 DEF StageCommit, Versions
<1>4. /\ S \in [Providers -> [active : {0} \cup Versions, next : {0} \cup Versions,
                              previous : {0} \cup Versions]]
      /\ S[r.provider] = [slots[r.provider] EXCEPT !.next = v]
      /\ \A p \in Providers \ {r.provider} : S[p] = slots[p]
  <2>1. slots \in [Providers -> [active : {0} \cup Versions, next : {0} \cup Versions,
                                 previous : {0} \cup Versions]]
    BY DEF IInv, TypeOK
  <2>2. /\ S[r.provider] = [slots[r.provider] EXCEPT !.next = v]
        /\ \A p \in Providers \ {r.provider} : S[p] = slots[p]
        /\ DOMAIN S = Providers /\ S = [p \in Providers |-> S[p]]
    BY <1>1, <2>1
  <2>3. [slots[r.provider] EXCEPT !.next = v]
          \in [active : {0} \cup Versions, next : {0} \cup Versions,
              previous : {0} \cup Versions]
    BY <1>1, <1>3, <2>1
  <2> HIDE DEF S
  <2> QED BY <2>1, <2>2, <2>3
<1>5. /\ DOMAIN versions' = DOMAIN V \cap Referenced(S)
      /\ \A u \in DOMAIN versions' : versions'[u] = V[u]
      /\ \A u \in DOMAIN versions' : u # v => u \in DOMAIN versions /\ versions'[u] = versions[u]
      /\ v \in DOMAIN versions' => versions'[v] = row
      /\ v \in Referenced(S) => v \in DOMAIN versions'
      /\ \A u \in DOMAIN versions \cap Referenced(S) : u \in DOMAIN versions'
  BY <1>1 DEF Collected
<1>r. /\ row \in [provider : Providers, config : Configs, tested : BOOLEAN]
      /\ row.provider = r.provider /\ row.tested = FALSE
  BY <1>1
<1> HIDE DEF V, S, row
<1>6. TypeOK'
  <2>1. DOMAIN idem' \subseteq Keys /\ \A j \in DOMAIN idem' : idem'[j] \in Rows
    BY <1>1, <1>3, RememberTyped DEF IInv
  <2>2. DOMAIN versions' \subseteq Versions
    BY <1>3, <1>5 DEF IInv, TypeOK
  <2>3. \A u \in DOMAIN versions' :
          versions'[u] \in [provider : Providers, config : Configs, tested : BOOLEAN]
    BY <1>r, <1>5 DEF IInv, TypeOK
  <2>4. slots' \in [Providers -> [active : {0} \cup Versions, next : {0} \cup Versions,
                              previous : {0} \cup Versions]]
    BY <1>1, <1>4
  <2>5. proven' = proven /\ revision' \in 0..MaxRevision
    BY <1>1, <1>2
  <2> QED BY <1>1, <1>2, <2>1, <2>2, <2>3, <2>4, <2>5, ReturnLocals DEF IInv, TypeOK
<1>7. VersionsBelow'
  BY <1>2, <1>3, <1>5 DEF IInv, VersionsBelow, TypeOK, Versions
<1>8. SlotsResolve'
  <2> SUFFICES ASSUME NEW p \in Providers,
                      NEW u \in {S[p].active, S[p].next, S[p].previous}, u # 0
               PROVE  u \in DOMAIN versions' /\ versions'[u].provider = p
    BY <1>1 DEF SlotsResolve
  <2>1. u \in Referenced(S)
    BY <1>4 DEF Referenced
  <2>2. CASE u = v
    <3>1. p = r.provider
      BY <1>3, <1>4, <2>2 DEF IInv, SlotsResolve
    <3> QED BY <1>5, <1>r, <2>1, <2>2, <3>1
  <2>3. CASE u # v
    <3>1. u \in DOMAIN versions /\ versions[u].provider = p
      BY <1>1, <1>4, <2>3 DEF IInv, TypeOK, SlotsResolve
    <3> QED BY <1>5, <2>1, <2>3, <3>1
  <2> QED BY <2>2, <2>3
<1>9. TestedProven'
  BY <1>1, <1>5, <1>r DEF IInv, TestedProven
<1>10. ActiveTested'
  <2> SUFFICES ASSUME NEW p \in Providers, NEW u \in {S[p].active, S[p].previous}, u # 0
               PROVE  versions'[u].tested
    BY <1>1 DEF ActiveTested
  <2>1. u \in {slots[p].active, slots[p].previous}
    BY <1>1, <1>4 DEF IInv, TypeOK
  <2>2. u \in DOMAIN versions /\ versions[u].tested
    BY <2>1 DEF IInv, SlotsResolve, ActiveTested
  <2>3. u \in DOMAIN versions'
    BY <1>1, <1>8 DEF SlotsResolve
  <2> QED BY <1>3, <1>5, <2>2, <2>3
<1>11. HeldFresh'
  <2> SUFFICES ASSUME NEW u \in Workers, pc'[u] \in {"decrypting", "sending", "complete"}
               PROVE  /\ held'[u].version \in 1..revision'
                      /\ held'[u].version \in DOMAIN versions' =>
                           versions'[held'[u].version].config = held'[u].config
                      /\ pc'[u] = "complete" => held'[u] \in proven'
    BY DEF HeldFresh
  <2>1. pc[u] = pc'[u] /\ held'[u] = held[u]
    BY <1>1, ReturnLocals DEF IInv
  <2>2. /\ held[u].version \in 1..revision
        /\ held[u].version \in DOMAIN versions =>
             versions[held[u].version].config = held[u].config
        /\ pc[u] = "complete" => held[u] \in proven
    BY <2>1 DEF IInv, HeldFresh
  <2>3. held[u].version # v /\ held[u].version \in 1..revision'
    BY <1>2, <1>3, <2>2
  <2> QED BY <1>1, <1>5, <2>1, <2>2, <2>3
<1> QED BY <1>2, <1>6, <1>7, <1>8, <1>9, <1>10, <1>11 DEF IInv

LEMMA CompleteStep ==
    ASSUME IInv, NEW w \in Workers, TestComplete(w)
    PROVE  IInv'
<1> DEFINE r == input[w]
           v == held[w].version
           row == [request |-> r, token |-> NoWorker, version |-> v]
<1>1. /\ r \in Requests /\ r.provider \in Providers /\ revision = r.expected
      /\ slots[r.provider].next = v /\ slots' = slots
      /\ versions' = [versions EXCEPT ![v].tested = TRUE]
      /\ Pruned(WithRow(r.key, row), r.key) /\ Commit(w) /\ Return(w) /\ UNCHANGED proven
  BY RequestsTyped DEF TestComplete, IInv, TypeOK
<1>2. /\ revision' = revision + 1 /\ revision' \in 1..MaxRevision /\ revision \in Nat
      /\ applied' \subseteq Requests /\ AppliedBefore'
  BY <1>1, Committed
<1>3. /\ v \in 1..revision /\ held[w] \in proven
      /\ v \in DOMAIN versions => versions[v].config = held[w].config
      /\ held[w] = [version |-> v, config |-> held[w].config]
  BY DEF IInv, HeldFresh, TestComplete, TypeOK
<1>4. v \in DOMAIN versions /\ v \in Versions
  <2>1. v # 0
    BY <1>2, <1>3
  <2> QED BY <1>1, <2>1 DEF IInv, SlotsResolve, TypeOK
<1>5. /\ DOMAIN versions' = DOMAIN versions
      /\ versions'[v] = [versions[v] EXCEPT !.tested = TRUE]
      /\ \A u \in DOMAIN versions : u # v => versions'[u] = versions[u]
  BY <1>1, <1>4
<1>6. /\ versions[v] \in [provider : Providers, config : Configs, tested : BOOLEAN]
      /\ versions'[v] \in [provider : Providers, config : Configs, tested : BOOLEAN]
      /\ versions'[v].provider = versions[v].provider
      /\ versions'[v].config = versions[v].config /\ versions'[v].tested
  BY <1>4, <1>5 DEF IInv, TypeOK
<1>7. TypeOK'
  <2>1. row \in Rows
    BY <1>1, <1>4 DEF Rows
  <2> HIDE DEF row
  <2>2. DOMAIN idem' \subseteq Keys /\ \A j \in DOMAIN idem' : idem'[j] \in Rows
    BY <1>1, <2>1, WithRowTyped, PrunedRows DEF IInv
  <2> QED BY <1>1, <1>2, <1>5, <1>6, <2>2, ReturnLocals DEF IInv, TypeOK
<1>8. VersionsBelow'
  BY <1>2, <1>5 DEF IInv, VersionsBelow, TypeOK, Versions
<1>9. SlotsResolve'
  BY <1>1, <1>5, <1>6 DEF IInv, SlotsResolve
<1>10. TestedProven'
  BY <1>1, <1>3, <1>4, <1>5, <1>6 DEF IInv, TestedProven
<1>11. ActiveTested'
  <2> SUFFICES ASSUME NEW p \in Providers, NEW u \in {slots[p].active, slots[p].previous}, u # 0
               PROVE  versions'[u].tested
    BY <1>1 DEF ActiveTested
  <2>1. u \in DOMAIN versions /\ versions[u].tested
    BY DEF IInv, SlotsResolve, ActiveTested
  <2> QED BY <1>5, <1>6, <2>1
<1>12. HeldFresh'
  <2> SUFFICES ASSUME NEW u \in Workers, pc'[u] \in {"decrypting", "sending", "complete"}
               PROVE  /\ held'[u].version \in 1..revision'
                      /\ held'[u].version \in DOMAIN versions' =>
                           versions'[held'[u].version].config = held'[u].config
                      /\ pc'[u] = "complete" => held'[u] \in proven'
    BY DEF HeldFresh
  <2>1. pc[u] = pc'[u] /\ held'[u] = held[u]
    BY <1>1, ReturnLocals DEF IInv
  <2> QED BY <1>1, <1>2, <1>5, <1>6, <2>1 DEF IInv, HeldFresh
<1> QED BY <1>2, <1>7, <1>8, <1>9, <1>10, <1>11, <1>12 DEF IInv

\* activate and rollback permute a channel's references; what they leave is tested.
LEMMA MoveStep ==
    ASSUME IInv, NEW w \in Workers, Activate(w) \/ Rollback(w)
    PROVE  IInv'
<1> DEFINE r == input[w]
           q == r.provider
           old == slots[q]
<1>1. /\ r \in Requests /\ q \in Providers /\ revision = r.expected
      /\ Commit(w) /\ Return(w) /\ UNCHANGED proven
  BY RequestsTyped DEF Activate, Rollback, Refused, IInv, TypeOK
<1>2. /\ revision' = revision + 1 /\ revision' \in 1..MaxRevision /\ revision \in Nat
      /\ applied' \subseteq Requests /\ AppliedBefore'
  BY <1>1, Committed
<1>3. /\ old \in [active : {0} \cup Versions, next : {0} \cup Versions,
                  previous : {0} \cup Versions]
      /\ \A v \in {old.active, old.next, old.previous} :
           v # 0 => v \in DOMAIN versions /\ versions[v].provider = q
      /\ \A v \in {old.active, old.previous} : v # 0 => versions[v].tested
  BY <1>1 DEF IInv, TypeOK, SlotsResolve, ActiveTested
<1>4. /\ slots' \in [Providers -> [active : {0} \cup Versions, next : {0} \cup Versions,
                                   previous : {0} \cup Versions]]
      /\ \A p \in Providers \ {q} : slots'[p] = slots[p]
      /\ {slots'[q].active, slots'[q].next, slots'[q].previous}
           \subseteq {0, old.active, old.next, old.previous}
      /\ \A v \in {slots'[q].active, slots'[q].previous} : v # 0 => versions[v].tested
      /\ \A v \in {slots'[q].active, slots'[q].next, slots'[q].previous} :
           v # 0 => v \in DOMAIN versions /\ versions[v].provider = q
  <2>1. CASE Activate(w)
    <3>1. slots' = [slots EXCEPT ![q] = [active |-> old.next, next |-> 0, previous |-> old.active]]
      BY <2>1 DEF Activate
    <3>2. old.next # 0 => versions[old.next].tested
      BY <2>1 DEF Activate, NextTested
    <3>3. /\ slots'[q] = [active |-> old.next, next |-> 0, previous |-> old.active]
          /\ \A p \in Providers \ {q} : slots'[p] = slots[p]
      BY <1>1, <1>3, <3>1 DEF IInv, TypeOK
    <3>4. slots' \in [Providers -> [active : {0} \cup Versions, next : {0} \cup Versions,
                                    previous : {0} \cup Versions]]
      BY <1>1, <1>3, <3>1 DEF IInv, TypeOK
    <3> HIDE DEF old
    <3> QED BY <1>3, <3>2, <3>3, <3>4
  <2>2. CASE Rollback(w)
    <3>1. slots' = [slots EXCEPT ![q] =
                      [old EXCEPT !.active = old.previous, !.previous = old.active]]
      BY <2>2 DEF Rollback
    <3>2. /\ slots'[q] = [active |-> old.previous, next |-> old.next, previous |-> old.active]
          /\ \A p \in Providers \ {q} : slots'[p] = slots[p]
      BY <1>1, <1>3, <3>1 DEF IInv, TypeOK
    <3>3. slots' \in [Providers -> [active : {0} \cup Versions, next : {0} \cup Versions,
                                   previous : {0} \cup Versions]]
      BY <1>1, <1>3, <3>1, <3>2 DEF IInv, TypeOK
    <3> HIDE DEF old
    <3> QED BY <1>3, <3>2, <3>3
  <2> QED BY <2>1, <2>2
<1>5. /\ DOMAIN versions' \subseteq DOMAIN versions
      /\ \A v \in DOMAIN versions' : versions'[v] = versions[v]
      /\ \A v \in DOMAIN versions \cap Referenced(slots') : v \in DOMAIN versions'
  BY DEF Activate, Rollback, Collected
<1>6. DOMAIN idem' \subseteq Keys /\ \A j \in DOMAIN idem' : idem'[j] \in Rows
  <2>1. CASE Activate(w)
    <3>1. old.next \in Versions /\ Remember(r, old.next)
      BY <1>1, <1>3, <2>1 DEF Activate, NextTested, IInv, TypeOK
    <3> QED BY <1>1, <3>1, RememberTyped DEF IInv
  <2>2. CASE Rollback(w)
    <3>1. old.previous \in Versions /\ Remember(r, old.previous)
      BY <1>3, <2>2 DEF Rollback
    <3> QED BY <1>1, <3>1, RememberTyped DEF IInv
  <2> QED BY <2>1, <2>2
<1>7. TypeOK'
  <2>1. DOMAIN versions' \subseteq Versions /\ proven' = proven /\ revision' \in 0..MaxRevision
    BY <1>1, <1>2, <1>5 DEF IInv, TypeOK
  <2>2. \A v \in DOMAIN versions' :
          versions'[v] \in [provider : Providers, config : Configs, tested : BOOLEAN]
    BY <1>5 DEF IInv, TypeOK
  <2> QED BY <1>1, <1>2, <1>4, <1>6, <2>1, <2>2, ReturnLocals DEF IInv, TypeOK
<1>8. VersionsBelow'
  BY <1>2, <1>5 DEF IInv, VersionsBelow, TypeOK, Versions
<1>9. SlotsResolve'
  <2> SUFFICES ASSUME NEW p \in Providers,
                      NEW v \in {slots'[p].active, slots'[p].next, slots'[p].previous}, v # 0
               PROVE  v \in DOMAIN versions' /\ versions'[v].provider = p
    BY DEF SlotsResolve
  <2>1. v \in DOMAIN versions /\ versions[v].provider = p
    <3>1. CASE p = q
      BY <1>4, <3>1
    <3>2. CASE p # q
      <4>1. v \in {slots[p].active, slots[p].next, slots[p].previous}
        BY <1>4, <3>2
      <4> QED BY <4>1 DEF IInv, SlotsResolve
    <3> QED BY <3>1, <3>2
  <2>2. v \in Referenced(slots')
    BY <1>4 DEF Referenced
  <2> QED BY <1>5, <2>1, <2>2
<1>10. TestedProven'
  BY <1>1, <1>5 DEF IInv, TestedProven
<1>11. ActiveTested'
  <2> SUFFICES ASSUME NEW p \in Providers, NEW v \in {slots'[p].active, slots'[p].previous}, v # 0
               PROVE  versions'[v].tested
    BY DEF ActiveTested
  <2>1. versions[v].tested
    <3>1. CASE p = q
      BY <1>4, <3>1
    <3>2. CASE p # q
      <4>1. v \in {slots[p].active, slots[p].previous}
        BY <1>4, <3>2
      <4> QED BY <4>1 DEF IInv, ActiveTested
    <3> QED BY <3>1, <3>2
  <2>2. v \in DOMAIN versions'
    BY <1>9 DEF SlotsResolve
  <2> QED BY <1>5, <2>1, <2>2
<1>12. HeldFresh'
  <2> SUFFICES ASSUME NEW u \in Workers, pc'[u] \in {"decrypting", "sending", "complete"}
               PROVE  /\ held'[u].version \in 1..revision'
                      /\ held'[u].version \in DOMAIN versions' =>
                           versions'[held'[u].version].config = held'[u].config
                      /\ pc'[u] = "complete" => held'[u] \in proven'
    BY DEF HeldFresh
  <2>1. pc[u] = pc'[u] /\ held'[u] = held[u]
    BY <1>1, ReturnLocals DEF IInv
  <2> QED BY <1>1, <1>2, <1>5, <2>1 DEF IInv, HeldFresh
<1> QED BY <1>2, <1>7, <1>8, <1>9, <1>10, <1>11, <1>12 DEF IInv

LEMMA StepIInv == IInv /\ [Next]_vars => IInv'
<1> SUFFICES ASSUME IInv, [Next]_vars PROVE IInv'
  OBVIOUS
<1> USE DEF vars, db
<1>1. ASSUME NEW w \in Workers, NEW r \in Requests, Receive(w, r) PROVE IInv'
  <2>1. TypeOK'
    BY <1>1 DEF IInv, TypeOK, Receive, Park
  <2> QED BY <1>1, <2>1 DEF IInv, TypeOK, VersionsBelow, SlotsResolve, TestedProven,
                           ActiveTested, HeldFresh, AppliedBefore, Receive, Park
<1>2. ASSUME NEW w \in Workers, Answer(w) \/ TestDisowned(w) \/ Crash(w) PROVE IInv'
  BY <1>2, Quiet DEF Answer, TestDisowned, Crash
<1>3. ASSUME NEW w \in Workers, TestOvertaken(w) \/ TestAbort(w) PROVE IInv'
  <2>1. DOMAIN idem' \subseteq DOMAIN idem /\ \A k \in DOMAIN idem' : idem'[k] = idem[k]
    BY <1>3 DEF TestOvertaken, TestAbort, WithoutRow
  <2> QED BY <1>3, <2>1, Quiet DEF TestOvertaken, TestAbort
<1>4. ASSUME NEW w \in Workers, StageRead(w) \/ SendFails(w) PROVE IInv'
  <2>1. TypeOK'
    BY <1>4 DEF IInv, TypeOK, StageRead, SendFails, Park
  <2> QED BY <1>4, <2>1 DEF IInv, TypeOK, VersionsBelow, SlotsResolve, TestedProven,
                           ActiveTested, HeldFresh, AppliedBefore, StageRead, SendFails, Park
<1>5. ASSUME NEW w \in Workers, TestRead(w) PROVE IInv'
  <2> DEFINE next == slots[input[w].provider].next
             h == [version |-> next, config |-> versions[next].config]
  <2>1. /\ next \in DOMAIN versions /\ next \in 1..revision
        /\ h \in [version : {0} \cup Versions, config : Configs \cup {NoConfig}]
        /\ held' = [held EXCEPT ![w] = h] /\ pc' = [pc EXCEPT ![w] = "decrypting"]
    BY <1>5 DEF IInv, TypeOK, VersionsBelow, Versions, TestRead, Park
  <2>2. TypeOK'
    BY <1>5, <2>1 DEF IInv, TypeOK, TestRead
  <2>3. HeldFresh'
    BY <1>5, <2>1 DEF IInv, TypeOK, HeldFresh, TestRead
  <2>4. UNCHANGED <<revision, versions, slots, applied, proven>>
    BY <1>5 DEF TestRead
  <2> HIDE DEF next, h
  <2>5. VersionsBelow' /\ AppliedBefore' /\ TestedProven'
    BY <2>4 DEF IInv, VersionsBelow, TestedProven, AppliedBefore
  <2>6. SlotsResolve' /\ ActiveTested'
    BY <2>4 DEF IInv, SlotsResolve, ActiveTested
  <2> QED BY <2>2, <2>3, <2>5, <2>6 DEF IInv
<1>6. ASSUME NEW w \in Workers, TestPrepare(w) PROVE IInv'
  <2> DEFINE row == [request |-> input[w], token |-> w, version |-> held[w].version]
  <2>1. row \in Rows
    <3>1. held[w].version \in 1..revision
      BY <1>6 DEF IInv, HeldFresh, TestPrepare
    <3> QED BY <3>1, BoundAssumption DEF IInv, TypeOK, Rows, Versions
  <2> HIDE DEF row
  <2>2. DOMAIN idem' \subseteq Keys /\ \A j \in DOMAIN idem' : idem'[j] \in Rows
    <3>1. idem' = WithRow(input[w].key, row)
      BY <1>6 DEF TestPrepare, row
    <3> QED BY <2>1, <3>1, WithRowTyped DEF IInv, TypeOK
  <2>3. TypeOK'
    BY <1>6, <2>2 DEF IInv, TypeOK, TestPrepare, Park
  <2> QED BY <1>6, <2>3 DEF IInv, TypeOK, VersionsBelow, SlotsResolve, TestedProven,
                           ActiveTested, HeldFresh, AppliedBefore, TestPrepare, Park
<1>7. ASSUME NEW w \in Workers, SendSucceeds(w) PROVE IInv'
  <2>1. TypeOK'
    BY <1>7 DEF IInv, TypeOK, SendSucceeds, Park
  <2>2. HeldFresh'
    BY <1>7 DEF IInv, TypeOK, HeldFresh, SendSucceeds, Park
  <2> QED BY <1>7, <2>1, <2>2 DEF IInv, VersionsBelow, SlotsResolve, TestedProven,
                                 ActiveTested, AppliedBefore, SendSucceeds
<1>8. ASSUME UNCHANGED vars PROVE IInv'
  BY <1>8 DEF IInv, TypeOK, VersionsBelow, SlotsResolve, TestedProven, ActiveTested,
              HeldFresh, AppliedBefore
<1> QED
  BY <1>1, <1>2, <1>3, <1>4, <1>5, <1>6, <1>7, <1>8, StageStep, CompleteStep, MoveStep DEF Next

LEMMA Invariance == Spec => []IInv
BY InitIInv, StepIInv, PTL DEF Spec

-----------------------------------------------------------------------------
\* Every reachable state of the repository is well typed.
THEOREM TypeCorrect == Spec => []TypeOK
<1>1. IInv => TypeOK
  BY DEF IInv
<1> QED BY <1>1, Invariance, PTL

\* Garbage collection never takes a version that a slot of any channel needs.
THEOREM SlotsAlwaysResolve == Spec => []SlotsResolve
<1>1. IInv => SlotsResolve
  BY DEF IInv
<1> QED BY <1>1, Invariance, PTL

\* Whatever interleaves with a test, what a channel sends with was accepted by
\* its provider in a test.
THEOREM ActiveAlwaysProven == Spec => []ActiveWasProven
<1>1. IInv => ActiveWasProven
  <2> SUFFICES ASSUME IInv, NEW p \in Providers,
                      NEW v \in {slots[p].active, slots[p].previous} \ {0}
               PROVE  [version |-> v, config |-> versions[v].config] \in proven
    BY DEF ActiveWasProven
  <2>1. v \in DOMAIN versions /\ versions[v].tested
    BY DEF IInv, SlotsResolve, ActiveTested
  <2> QED BY <2>1 DEF IInv, TestedProven
<1> QED BY <1>1, Invariance, PTL

\* The version stage inserts is above every version in the table.
THEOREM StageAlwaysInserts == Spec => []StageNeverCollides
<1>1. IInv => StageNeverCollides
  <2> SUFFICES ASSUME IInv, NEW w \in Workers, ~Refused(input[w]), NEW v \in DOMAIN versions
               PROVE  v < input[w].expected + 1
    BY DEF StageNeverCollides
  <2>1. v <= revision /\ revision = input[w].expected /\ revision \in Nat /\ v \in Nat
    BY DEF IInv, VersionsBelow, Refused, TypeOK, Versions
  <2> QED BY <2>1
<1> QED BY <1>1, Invariance, PTL

\* No request takes effect twice, whatever rows are pruned in between.
THEOREM RequestsAppliedOnce == Spec => AppliedOnce
<1>1. ASSUME IInv, [Next]_vars, NEW w \in Workers,
             revision' # revision, pc[w] # "idle", pc'[w] = "idle"
      PROVE  input[w] \notin applied
  <2>1. PICK u \in Workers : StageCommit(u) \/ TestComplete(u) \/ Activate(u) \/ Rollback(u)
    BY <1>1 DEF Next, vars, db, Receive, Answer, StageRead, TestRead, TestPrepare, SendSucceeds,
                SendFails, TestDisowned, TestOvertaken, TestAbort, Crash
  <2>2. Return(u) /\ revision = input[u].expected
    BY <2>1 DEF StageCommit, TestComplete, Activate, Rollback, Refused
  <2>3. u = w
    BY <1>1, <2>2, ReturnLocals DEF IInv
  <2>4. revision \in Nat
    BY <1>1 DEF IInv, TypeOK
  <2> QED BY <1>1, <2>2, <2>3, <2>4 DEF IInv, AppliedBefore
<1>2. IInv /\ [Next]_vars =>
        [\A w \in Workers :
           revision' # revision /\ pc[w] # "idle" /\ pc'[w] = "idle" => input[w] \notin applied]_vars
  BY <1>1
<1> QED BY <1>2, Invariance, PTL DEF Spec, AppliedOnce

-----------------------------------------------------------------------------
\* NULL stands for no configuration, anything else for its version's.
LEMMA Decoded ==
    ASSUME IInv, NEW p \in Providers
    PROVE  /\ ConfigOf(0) = NoConfig
           /\ \A v \in {slots[p].active, slots[p].next, slots[p].previous} :
                IF v = 0 THEN ConfigOf(v) = NoConfig
                ELSE /\ v \in DOMAIN versions /\ ConfigOf(v) = versions[v].config
                     /\ ConfigOf(v) \in Configs /\ ConfigOf(v) # NoConfig
<1>1. 0 \notin DOMAIN versions
  BY DEF IInv, TypeOK, Versions
<1>2. ASSUME NEW v \in {slots[p].active, slots[p].next, slots[p].previous}, v # 0
      PROVE  v \in DOMAIN versions /\ versions[v].config \in Configs
  BY <1>2 DEF IInv, SlotsResolve, TypeOK
<1> QED BY <1>1, <1>2, NoneAssumption DEF ConfigOf

\* A step that moves none of a channel's references, and leaves what they refer
\* to as it was, is invisible to the channel.
LEMMA ChannelUntouched ==
    ASSUME IInv, IInv', NEW p \in Providers, slots'[p] = slots[p],
           \A v \in DOMAIN versions \cap DOMAIN versions' : versions'[v] = versions[v]
    PROVE  UNCHANGED Channel(p)!slots
<1>1. \A v \in {slots[p].active, slots[p].next, slots[p].previous} :
        v = 0 \/ (v \in DOMAIN versions /\ v \in DOMAIN versions')
  BY DEF IInv, SlotsResolve
<1>2. 0 \notin DOMAIN versions /\ 0 \notin DOMAIN versions'
  BY DEF IInv, TypeOK, Versions
<1> QED BY <1>1, <1>2 DEF Channel!slots, ConfigOf, NextTested

\* A reference that a channel has before and after a step reads the same
\* configuration, as long as the step rewrites no configuration.
LEMMA SameConfig ==
    ASSUME IInv, IInv', NEW p \in Providers,
           NEW v \in {slots[p].active, slots[p].next, slots[p].previous},
           v \in {slots'[p].active, slots'[p].next, slots'[p].previous},
           \A u \in DOMAIN versions \cap DOMAIN versions' :
               versions'[u].config = versions[u].config
    PROVE  ConfigOf(v)' = ConfigOf(v)
<1>1. v = 0 \/ (v \in DOMAIN versions /\ v \in DOMAIN versions')
  BY DEF IInv, SlotsResolve
<1>2. 0 \notin DOMAIN versions /\ 0 \notin DOMAIN versions'
  BY DEF IInv, TypeOK, Versions
<1> QED BY <1>1, <1>2 DEF ConfigOf

LEMMA ChannelStep ==
    ASSUME IInv, IInv', [Next]_vars, NEW p \in Providers
    PROVE  [Channel(p)!Next]_(Channel(p)!slots)
<1> USE DEF vars, db
<1>1. CASE UNCHANGED <<versions, slots>>
  BY <1>1, ChannelUntouched
<1>2. ASSUME NEW w \in Workers, StageCommit(w) PROVE Channel(p)!Next \/ UNCHANGED Channel(p)!slots
  <2> DEFINE r == input[w]
             v == r.expected + 1
             row == [provider |-> r.provider, config |-> r.config, tested |-> FALSE]
  <2>1. /\ r.provider \in Providers /\ r.config \in Configs /\ r.expected \in Nat
        /\ slots' = [slots EXCEPT ![r.provider].next = v] /\ v \notin DOMAIN versions
    BY <1>2, RequestsTyped DEF StageCommit, IInv, TypeOK
  <2> DEFINE V == [u \in DOMAIN versions \cup {v} |-> IF u = v THEN row ELSE versions[u]]
  <2>a. versions' = Collected(V, slots')
    BY <1>2 DEF StageCommit
  <2>2. /\ \A u \in DOMAIN versions \cap DOMAIN versions' : versions'[u] = versions[u]
        /\ v \in DOMAIN versions' => versions'[v] = row
    <3>1. DOMAIN versions' \subseteq DOMAIN V /\ \A u \in DOMAIN versions' : versions'[u] = V[u]
      BY <2>a DEF Collected
    <3> HIDE DEF row
    <3> QED BY <2>1, <3>1
  <2>3. CASE p # r.provider
    BY <2>1, <2>2, <2>3, ChannelUntouched
  <2>4. CASE p = r.provider
    <3>1. /\ slots'[p].active = slots[p].active /\ slots'[p].previous = slots[p].previous
          /\ slots'[p].next = v
      <4>1. slots[p] \in [active : {0} \cup Versions, next : {0} \cup Versions,
                          previous : {0} \cup Versions]
        BY DEF IInv, TypeOK
      <4>2. slots'[p] = [slots[p] EXCEPT !.next = v]
        BY <2>1, <2>4 DEF IInv, TypeOK
      <4> QED BY <4>1, <4>2
    <3>2. /\ ConfigOf(slots[p].active)' = ConfigOf(slots[p].active)
          /\ ConfigOf(slots[p].previous)' = ConfigOf(slots[p].previous)
      <4> HIDE DEF row
      <4> QED BY <2>2, <3>1, SameConfig
    <3>3. v \in DOMAIN versions'
      <4>1. SlotsResolve' /\ v # 0
        BY <2>1 DEF IInv
      <4>2. slots'[p].next # 0 => slots'[p].next \in DOMAIN versions'
        BY <4>1 DEF SlotsResolve
      <4> HIDE DEF v, row
      <4> QED BY <3>1, <4>1, <4>2
    <3>4. ConfigOf(slots[p].next)' = r.config /\ NextTested(p)' = FALSE
      BY <2>2, <3>1, <3>3 DEF ConfigOf, NextTested
    <3> QED BY <2>1, <3>2, <3>4 DEF Channel!Next, Channel!Stage
  <2> QED BY <2>3, <2>4
<1>3. ASSUME NEW w \in Workers, TestComplete(w) PROVE Channel(p)!Next \/ UNCHANGED Channel(p)!slots
  <2> DEFINE q == input[w].provider
             v == held[w].version
  <2>1. /\ q \in Providers /\ slots[q].next = v /\ slots' = slots
        /\ versions' = [versions EXCEPT ![v].tested = TRUE] /\ v # 0
    BY <1>3, RequestsTyped DEF TestComplete, IInv, TypeOK, HeldFresh
  <2>2. v \in DOMAIN versions /\ versions[v].provider = q
    BY <2>1 DEF IInv, SlotsResolve
  <2>3. /\ DOMAIN versions' = DOMAIN versions
        /\ versions'[v] = [versions[v] EXCEPT !.tested = TRUE]
        /\ \A u \in DOMAIN versions : u # v => versions'[u] = versions[u]
        /\ versions'[v].config = versions[v].config /\ versions'[v].tested
    BY <2>1, <2>2 DEF IInv, TypeOK
  <2>4. \A u \in DOMAIN versions \cap DOMAIN versions' :
          versions'[u].config = versions[u].config
    BY <2>3
  <2>5. /\ ConfigOf(slots[p].active)' = ConfigOf(slots[p].active)
        /\ ConfigOf(slots[p].next)' = ConfigOf(slots[p].next)
        /\ ConfigOf(slots[p].previous)' = ConfigOf(slots[p].previous)
    BY <2>1, <2>4, SameConfig
  <2>6. CASE p # q
    <3>1. slots[p].next # v
      BY <2>1, <2>2, <2>6 DEF IInv, SlotsResolve
    <3>2. NextTested(p)' = NextTested(p)
      BY <2>1, <2>3, <3>1 DEF NextTested
    <3> QED BY <2>1, <2>5, <3>2 DEF Channel!slots
  <2>7. CASE p = q
    <3>1. NextTested(p)' = TRUE
      BY <2>1, <2>2, <2>3, <2>7 DEF NextTested
    <3>2. ConfigOf(slots[p].next) # NoConfig
      BY <2>1, <2>7, Decoded
    <3> QED BY <2>1, <2>5, <3>1, <3>2 DEF Channel!Next, Channel!Test
  <2> QED BY <2>6, <2>7
<1>4. ASSUME NEW w \in Workers, Activate(w) PROVE Channel(p)!Next \/ UNCHANGED Channel(p)!slots
  <2> DEFINE q == input[w].provider
  <2>1. /\ q \in Providers /\ NextTested(q)
        /\ slots' = [slots EXCEPT ![q] =
             [active |-> slots[q].next, next |-> 0, previous |-> slots[q].active]]
    BY <1>4, RequestsTyped DEF Activate, IInv, TypeOK
  <2>2. \A u \in DOMAIN versions \cap DOMAIN versions' : versions'[u] = versions[u]
    BY <1>4 DEF Activate, Collected
  <2>3. CASE p # q
    BY <2>1, <2>2, <2>3, ChannelUntouched DEF IInv, TypeOK
  <2>4. CASE p = q
    <3>1. /\ slots'[p].active = slots[p].next /\ slots'[p].previous = slots[p].active
          /\ slots'[p].next = 0
      BY <2>1, <2>4 DEF IInv, TypeOK
    <3>2. /\ ConfigOf(slots[p].active)' = ConfigOf(slots[p].next)
          /\ ConfigOf(slots[p].previous)' = ConfigOf(slots[p].active)
      <4>1. \A v \in {slots[p].next, slots[p].active} : ConfigOf(v)' = ConfigOf(v)
        BY <2>2, <3>1, SameConfig
      <4> QED BY <3>1, <4>1 DEF ConfigOf
    <3>3. 0 \notin DOMAIN versions'
      BY DEF IInv, TypeOK, Versions
    <3>4. ConfigOf(slots[p].next)' = NoConfig /\ NextTested(p)' = FALSE
      BY <3>1, <3>3 DEF ConfigOf, NextTested
    <3>5. slots[p].next # 0
      BY <2>1, <2>4 DEF NextTested, IInv, TypeOK, Versions
    <3>6. ConfigOf(slots[p].next) # NoConfig
      BY <3>5, Decoded
    <3> QED BY <2>1, <2>4, <3>2, <3>4, <3>6 DEF Channel!Next, Channel!Activate
  <2> QED BY <2>3, <2>4
<1>5. ASSUME NEW w \in Workers, Rollback(w) PROVE Channel(p)!Next \/ UNCHANGED Channel(p)!slots
  <2> DEFINE q == input[w].provider
  <2>1. /\ q \in Providers /\ slots[q].previous # 0 /\ versions' = versions
        /\ slots' = [slots EXCEPT ![q] = [slots[q] EXCEPT !.active = slots[q].previous,
                                                        !.previous = slots[q].active]]
    BY <1>5, RequestsTyped DEF Rollback, IInv, TypeOK
  <2>2. CASE p # q
    BY <2>1, <2>2, ChannelUntouched DEF IInv, TypeOK
  <2>3. CASE p = q
    <3>1. /\ slots'[p].active = slots[p].previous /\ slots'[p].previous = slots[p].active
          /\ slots'[p].next = slots[p].next
      BY <2>1, <2>3 DEF IInv, TypeOK
    <3>2. /\ ConfigOf(slots[p].active)' = ConfigOf(slots[p].previous)
          /\ ConfigOf(slots[p].previous)' = ConfigOf(slots[p].active)
          /\ ConfigOf(slots[p].next)' = ConfigOf(slots[p].next)
          /\ NextTested(p)' = NextTested(p)
      BY <2>1, <3>1 DEF ConfigOf, NextTested
    <3>3. ConfigOf(slots[p].previous) # NoConfig
      BY <2>1, <2>3, Decoded
    <3> QED BY <3>2, <3>3 DEF Channel!Next, Channel!Rollback
  <2> QED BY <2>2, <2>3
<1> QED
  BY <1>1, <1>2, <1>3, <1>4, <1>5
  DEF Next, Receive, Answer, StageRead, TestRead, TestPrepare, SendSucceeds, SendFails,
      TestDisowned, TestOvertaken, TestAbort, Crash, Return

\* Every channel is a slot register: active only what was staged and tested.
THEOREM ChannelsImplementSlots == Spec => ChannelsKeepSlots
<1>1. Init => \A p \in Providers : Channel(p)!Init
  BY DEF Init, Channel!Init, ConfigOf, NextTested
<1>2. IInv /\ IInv' /\ [Next]_vars =>
        [\A p \in Providers : [Channel(p)!Next]_(Channel(p)!slots)]_vars
  BY ChannelStep
<1> QED BY <1>1, <1>2, InitIInv, StepIInv, PTL DEF Spec, ChannelsKeepSlots
=============================================================================
