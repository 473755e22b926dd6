----------------------- MODULE ErasureCoordinatorProofs -----------------------
(***************************************************************************)
(* Proofs about ErasureCoordinator, for any number of calls, targets and   *)
(* crashes.  What is said of the rows and of the answers holds for any     *)
(* timing, whether or not the lease does its work; only the last two       *)
(* theorems, that the lease excludes and that one stamp is given, assume   *)
(* the digests prompt.                                                     *)
(***************************************************************************)
EXTENDS ErasureCoordinator, TLAPS

\* The rows belong to the stored target set: when the digests agree, the later
\* comparison of the row ids in processOperation fails by their order alone.
RowsMatchTargets ==
    /\ operation.status = "absent" => rows = NoRows
    /\ operation.status # "absent" => DOMAIN rows = DOMAIN operation.targets

\* What a call holds between two awaits.
Parked ==
    \A c \in Calls :
        /\ pc[c] \in {"targets", "persist", "finalize"} => operation.status # "absent"
        /\ todo[c] # {} => pc[c] = "persist"
        /\ \A t \in todo[c] : outcome[c][t] \in Attestations
        /\ pc[c] = "targets" => \A t \in TargetIds :
             outcome[c][t] = "waiting" => t \in DOMAIN request[c].targets
        /\ pc[c] = "finalize" => snapshot[c] = rows /\ AllDone(rows)

\* A verdict is over the rows, all of them attested.
Verdict ==
    /\ operation.status = "completed" =>
         operation.evidence = rows /\ AllDone(rows) /\ operation.completedAt \in Calls
    /\ operation.status # "completed" => operation.evidence = NoRows

\* The inductive invariant: EvidenceAgrees needs the rows to be frozen from the
\* moment some call has read them all attested.
IInv == TypeOK /\ RowsMatchTargets /\ Parked /\ Verdict /\ EvidenceAgrees

-----------------------------------------------------------------------------
\* A set of rows is a function from some ids to "pending" or an attestation.
LEMMA RowSetsElim ==
    ASSUME NEW R \in RowSets
    PROVE  /\ DOMAIN R \subseteq TargetIds
           /\ R = [t \in DOMAIN R |-> R[t]]
           /\ \A t \in DOMAIN R : R[t] \in Attestations \cup {"pending"}
BY DEF RowSets

LEMMA RowSetsIntro ==
    ASSUME NEW T \in SUBSET TargetIds,
           NEW R \in [T -> Attestations \cup {"pending"}]
    PROVE  R \in RowSets
BY DEF RowSets

\* Recording an attestation keeps the shape, the ids and what is attested.
LEMMA RecordRow ==
    ASSUME NEW R \in RowSets, NEW t, NEW a \in Attestations
    PROVE  /\ [R EXCEPT ![t] = a] \in RowSets
           /\ DOMAIN [R EXCEPT ![t] = a] = DOMAIN R
           /\ t \notin DOMAIN R => [R EXCEPT ![t] = a] = R
<1>1. DOMAIN [R EXCEPT ![t] = a] = DOMAIN R
  OBVIOUS
<1>2. [R EXCEPT ![t] = a] \in [DOMAIN R -> Attestations \cup {"pending"}]
  BY RowSetsElim
<1>3. t \notin DOMAIN R => [R EXCEPT ![t] = a] = R
  <2>1. SUFFICES ASSUME t \notin DOMAIN R PROVE [R EXCEPT ![t] = a] = R
    OBVIOUS
  <2>2. \A u \in DOMAIN R : [R EXCEPT ![t] = a][u] = R[u]
    BY <2>1
  <2>3. [R EXCEPT ![t] = a] = [u \in DOMAIN R |-> [R EXCEPT ![t] = a][u]]
    BY <1>1, Zenon
  <2> QED BY <2>2, <2>3, RowSetsElim
<1> QED BY <1>1, <1>2, <1>3, RowSetsIntro, RowSetsElim

LEMMA NoRowsTyped == NoRows \in RowSets
<1>1. NoRows \in [{} -> Attestations \cup {"pending"}]
  BY DEF NoRows
<1> QED BY <1>1, RowSetsIntro

LEMMA RequestsTyped ==
    ASSUME NEW r \in Requests
    PROVE  /\ r.subject \in Subjects /\ r.targets \in Configs
           /\ DOMAIN r.targets \subseteq TargetIds
           /\ NewRows(r) \in RowSets
           /\ DOMAIN NewRows(r) = DOMAIN r.targets
<1>1. r.subject \in Subjects /\ r.targets \in Configs
  BY RequestsAssumption
<1>2. DOMAIN r.targets \subseteq TargetIds
  BY <1>1 DEF Configs
<1>3. NewRows(r) \in [DOMAIN r.targets -> Attestations \cup {"pending"}]
  BY DEF NewRows
<1> QED BY <1>1, <1>2, <1>3, RowSetsIntro

LEMMA NoRequestTyped == NoRequest \in Requests
BY RequestsNonEmpty DEF NoRequest

Operations ==
    [status : {"absent", "pending", "completed"},
     subject : Subjects, targets : Configs, version : {1, 2},
     lease : Calls \cup {NoCall}, completedAt : Calls \cup {NoCall},
     evidence : RowSets]

LEMMA OpenedTyped ==
    ASSUME NEW r \in Requests, NEW v \in {1, 2}
    PROVE  /\ Opened(r, v) \in Operations
           /\ Opened(r, v).status = "pending" /\ Opened(r, v).evidence = NoRows
           /\ Opened(r, v).targets = r.targets
BY RequestsTyped, NoRowsTyped DEF Opened, Operations

LEMMA AbsentTyped ==
    /\ Absent \in Operations
    /\ Absent.status = "absent" /\ Absent.evidence = NoRows
BY OpenedTyped, NoRequestTyped DEF Absent, Operations, Opened

-----------------------------------------------------------------------------
LEMMA InitIInv == Init => IInv
<1> SUFFICES ASSUME Init PROVE IInv
  OBVIOUS
<1> USE NoRowsTyped, NoRequestTyped, RequestsTyped, AbsentTyped, OpenedTyped
<1>1. operation \in Operations /\ rows \in RowSets
  BY DEF Init
<1>2. RowsMatchTargets
  BY DEF Init, RowsMatchTargets
<1>3. Verdict /\ EvidenceAgrees
  BY DEF Init, Verdict, EvidenceAgrees
<1>4. Parked
  BY DEF Init, Parked
<1>5. outcome \in [Calls -> [TargetIds -> Attestations \cup NotAttested]]
  BY DEF Init, NoOutcome, NotAttested
<1>6. TypeOK
  BY <1>1, <1>5, TicksAssumption DEF Init, TypeOK, Operations
<1> QED BY <1>2, <1>3, <1>4, <1>6 DEF IInv

\* The end of a call keeps what is known of the locals.
LEMMA ReturnLocals ==
    ASSUME TypeOK, NEW c \in Calls, Return(c)
    PROVE  /\ pc' \in [Calls -> {"idle", "digests", "targets", "persist", "finalize"}]
           /\ request' \in [Calls -> Requests]
           /\ outcome' \in [Calls -> [TargetIds -> Attestations \cup NotAttested]]
           /\ todo' \in [Calls -> SUBSET TargetIds]
           /\ snapshot' \in [Calls -> RowSets]
           /\ clock' \in [Calls -> Nat]
           /\ pc'[c] = "idle" /\ todo'[c] = {}
           /\ \A d \in Calls \ {c} :
                 /\ pc'[d] = pc[d] /\ todo'[d] = todo[d]
                 /\ outcome'[d] = outcome[d] /\ snapshot'[d] = snapshot[d]
                 /\ request'[d] = request[d]
<1>1. NoOutcome \in [TargetIds -> Attestations \cup NotAttested]
  BY DEF NoOutcome, NotAttested
<1> QED BY <1>1, NoRowsTyped, NoRequestTyped DEF TypeOK, Return

\* A call that only ends, or ends after releasing a lease, keeps the invariant.
LEMMA ReturnQuietly ==
    ASSUME IInv, NEW c \in Calls, Return(c),
           UNCHANGED <<rows, erased, confirmed, crashes>>,
           UNCHANGED <<operation, leaseLeft>> \/ ReleaseLease(c)
    PROVE  IInv'
<1>1. operation' \in Operations /\ leaseLeft' \in 0..LeaseTicks
  BY TicksAssumption DEF IInv, TypeOK, Operations, ReleaseLease
<1>2. /\ operation'.status = operation.status
      /\ operation'.targets = operation.targets
      /\ operation'.evidence = operation.evidence
      /\ operation'.completedAt = operation.completedAt
  BY DEF IInv, TypeOK, ReleaseLease
<1>3. TypeOK'
  BY <1>1, ReturnLocals DEF IInv, TypeOK, Operations
<1>4. Parked'
  BY <1>2, ReturnLocals DEF IInv, Parked, AllDone
<1> QED BY <1>2, <1>3, <1>4
        DEF IInv, RowsMatchTargets, Verdict, EvidenceAgrees, AllDone

\* What processOperation reads, the row created when the table was empty.
LEMMA CurrentTyped ==
    ASSUME IInv, NEW c \in Calls
    PROVE  /\ Current(c) \in Operations /\ CurrentRows(c) \in RowSets
           /\ Current(c).status # "absent"
           /\ DOMAIN CurrentRows(c) = DOMAIN Current(c).targets
           /\ operation.status # "completed" =>
                 Current(c).status = "pending" /\ Current(c).evidence = NoRows
           /\ operation.status # "absent" => CurrentRows(c) = rows
<1>1. request[c] \in Requests
  BY DEF IInv, TypeOK
<1>2. CASE operation.status = "absent"
  <2>1. Current(c) = Opened(request[c], 2) /\ CurrentRows(c) = NewRows(request[c])
    BY <1>2 DEF Current, CurrentRows
  <2> QED BY <1>1, <1>2, <2>1, OpenedTyped, RequestsTyped
<1>3. CASE operation.status # "absent"
  BY <1>3 DEF Current, CurrentRows, IInv, TypeOK, Operations, RowsMatchTargets, Verdict
<1> QED BY <1>2, <1>3

\* Taking the lease, or failing over the rows, opens the operation if need be and
\* disturbs no verdict.
LEMMA LeaseTaken ==
    ASSUME IInv, NEW c \in Calls, AcquireLease(c) \/ Mismatch(c)
    PROVE  /\ operation' \in Operations /\ rows' \in RowSets
           /\ leaseLeft' \in 0..LeaseTicks
           /\ operation'.status = "pending"
           /\ RowsMatchTargets' /\ Verdict'
           /\ confirmed = {}
           /\ \A d \in Calls : pc[d] \in {"targets", "persist", "finalize"} => rows' = rows
<1>0. operation.status # "completed" /\ rows' = CurrentRows(c)
  BY DEF AcquireLease, Mismatch
<1>1. operation'.status = "pending" /\ operation'.evidence = NoRows
      /\ operation'.targets = Current(c).targets /\ operation' \in Operations
  <2>1. CASE AcquireLease(c)
    BY <2>1, CurrentTyped DEF AcquireLease, Operations
  <2>2. CASE Mismatch(c)
    BY <2>2, CurrentTyped DEF Mismatch
  <2> QED BY <2>1, <2>2
<1>2. RowsMatchTargets' /\ Verdict'
  BY <1>0, <1>1, CurrentTyped DEF RowsMatchTargets, Verdict
<1>3. confirmed = {}
  BY <1>0 DEF IInv, EvidenceAgrees
<1>4. \A d \in Calls : pc[d] \in {"targets", "persist", "finalize"} => rows' = rows
  BY <1>0, CurrentTyped DEF IInv, Parked
<1>5. leaseLeft' \in 0..LeaseTicks
  BY TicksAssumption DEF IInv, TypeOK, AcquireLease, Mismatch
<1> QED BY <1>0, <1>1, <1>2, <1>3, <1>4, <1>5, CurrentTyped

LEMMA StepIInv == IInv /\ [Next]_vars => IInv'
<1> SUFFICES ASSUME IInv, [Next]_vars PROVE IInv'
  OBVIOUS
<1> USE DEF vars, stored, calls
<1>1. ASSUME NEW c \in Calls, NEW r \in Requests, Begin(c, r) PROVE IInv'
  <2>1. TypeOK'
    BY <1>1 DEF IInv, TypeOK, Begin
  <2> QED BY <1>1, <2>1 DEF IInv, RowsMatchTargets, Parked, Verdict, EvidenceAgrees,
                           AllDone, Begin, TypeOK
<1>2. ASSUME NEW c \in Calls, Conflict(c) \/ Busy(c) \/ Superseded(c) \/ Throw(c) PROVE IInv'
  BY <1>2, ReturnQuietly DEF Conflict, Busy, Superseded, Throw
<1>3. ASSUME NEW c \in Calls, PersistFails(c) \/ Incomplete(c) PROVE IInv'
  BY <1>3, ReturnQuietly DEF PersistFails, Incomplete
<1>4. ASSUME NEW c \in Calls, Replay(c) PROVE IInv'
  <2>1. confirmed' \subseteq [targets : Configs, completedAt : Calls, evidence : RowSets]
    <3>1. operation.completedAt \in Calls
      BY <1>4 DEF IInv, Verdict, Replay
    <3> QED BY <1>4, <3>1, RequestsTyped DEF IInv, TypeOK, Replay, Confirm, Operations
  <2>2. TypeOK'
    BY <1>4, <2>1, ReturnLocals DEF IInv, TypeOK, Replay
  <2>3. Parked'
    BY <1>4, ReturnLocals DEF IInv, Parked, Replay, AllDone
  <2>4. EvidenceAgrees'
    BY <1>4 DEF IInv, EvidenceAgrees, Replay, Confirm
  <2> QED BY <1>4, <2>2, <2>3, <2>4 DEF IInv, RowsMatchTargets, Verdict, Replay, AllDone
<1>5. ASSUME NEW c \in Calls, ResumeFinalize(c) PROVE IInv'
  <2>1. TypeOK'
    BY <1>5, LeaseTaken, CurrentTyped, TicksAssumption
    DEF IInv, TypeOK, ResumeFinalize, Operations
  <2>2. Parked'
    BY <1>5, LeaseTaken DEF IInv, TypeOK, Parked, ResumeFinalize, AcquireLease, AllDone
  <2> QED BY <1>5, <2>1, <2>2, LeaseTaken DEF IInv, EvidenceAgrees, ResumeFinalize
<1>6. ASSUME NEW c \in Calls, Dispatch(c) PROVE IInv'
  <2>1. TypeOK'
    BY <1>6, LeaseTaken, TicksAssumption
    DEF IInv, TypeOK, Dispatch, Operations, NotAttested
  <2>2. Parked'
    <3>1. todo[c] = {}
      BY <1>6 DEF IInv, Parked, Dispatch, AcquireLease
    <3>2. DOMAIN CurrentRows(c) = DOMAIN request[c].targets
      BY <1>6, CurrentTyped DEF Dispatch, AcquireLease, Conflicting, SameTargets
    <3>3. /\ operation'.status = "pending" /\ UNCHANGED <<todo, request, snapshot>>
          /\ \A d \in Calls : pc[d] \in {"targets", "persist", "finalize"} => rows' = rows
      BY <1>6, LeaseTaken DEF Dispatch
    <3>4. /\ pc'[c] = "targets"
          /\ \A t \in TargetIds :
               outcome'[c][t] = "waiting" => t \in DOMAIN CurrentRows(c)
          /\ \A d \in Calls \ {c} : pc'[d] = pc[d] /\ outcome'[d] = outcome[d]
      BY <1>6 DEF IInv, TypeOK, Dispatch
    <3> SUFFICES ASSUME NEW d \in Calls
                 PROVE  /\ todo'[d] # {} => pc'[d] = "persist"
                        /\ \A t \in todo'[d] : outcome'[d][t] \in Attestations
                        /\ pc'[d] = "targets" => \A t \in TargetIds :
                             outcome'[d][t] = "waiting" => t \in DOMAIN request'[d].targets
                        /\ pc'[d] = "finalize" => snapshot'[d] = rows' /\ AllDone(rows')
      BY <3>3 DEF Parked, AllDone
    <3>5. CASE d = c
      BY <3>1, <3>2, <3>3, <3>4, <3>5
    <3>6. CASE d # c
      BY <3>3, <3>4, <3>6 DEF IInv, Parked
    <3> QED BY <3>5, <3>6
  <2> QED BY <1>6, <2>1, <2>2, LeaseTaken DEF IInv, EvidenceAgrees, Dispatch
<1>7. ASSUME NEW c \in Calls, NEW t \in TargetIds, Attest(c, t) \/ Postpone(c, t) \/ Fail(c, t)
      PROVE  IInv'
  <2>1. PICK o \in Attestations \cup NotAttested :
          /\ Hear(c, t, o)
          /\ UNCHANGED erased \/ Erases(c, t)
    BY <1>7 DEF Attest, Postpone, Fail, NotAttested
  <2>2. request[c].targets[t] \in Urls
    <3>1. t \in DOMAIN request[c].targets
      BY <2>1 DEF IInv, Parked, Hear
    <3>2. request[c].targets \in Configs
      BY RequestsTyped DEF IInv, TypeOK
    <3> QED BY <3>1, <3>2 DEF Configs
  <2>3. TypeOK'
    BY <2>1, <2>2 DEF IInv, TypeOK, Hear, Erases
  <2>4. Parked'
    BY <2>1 DEF IInv, TypeOK, Parked, Hear, AllDone
  <2> QED BY <2>1, <2>3, <2>4
          DEF IInv, RowsMatchTargets, Verdict, EvidenceAgrees, Hear, AllDone
<1>8. ASSUME NEW c \in Calls, KeepGoing(c) PROVE IInv'
  <2>1. TypeOK'
    BY <1>8, TicksAssumption DEF IInv, TypeOK, KeepGoing
  <2>2. Parked'
    BY <1>8 DEF IInv, TypeOK, Parked, KeepGoing, Settled, AllDone
  <2> QED BY <1>8, <2>1, <2>2
          DEF IInv, RowsMatchTargets, Verdict, EvidenceAgrees, KeepGoing, AllDone
<1>9. ASSUME NEW c \in Calls, Persist(c) PROVE IInv'
  <2>1. PICK t \in todo[c] :
          /\ rows' = IF rows[t] = "pending" THEN [rows EXCEPT ![t] = outcome[c][t]] ELSE rows
          /\ todo' = [todo EXCEPT ![c] = @ \ {t}]
    BY <1>9 DEF Persist
  <2>2. outcome[c][t] \in Attestations /\ outcome[c][t] # "pending"
    BY AttestationsAssumption DEF IInv, Parked, NotAttested
  <2>3. rows' \in RowSets /\ DOMAIN rows' = DOMAIN rows
    BY <2>1, <2>2, RecordRow DEF IInv, TypeOK
  <2>4. AllDone(rows) => rows' = rows
    <3>1. SUFFICES ASSUME AllDone(rows), rows[t] = "pending" PROVE rows' = rows
      BY <2>1
    <3>2. t \notin DOMAIN rows
      BY <3>1 DEF AllDone
    <3>3. rows \in RowSets
      BY DEF IInv, TypeOK
    <3>4. [rows EXCEPT ![t] = outcome[c][t]] = rows
      BY <2>2, <3>2, <3>3, RecordRow, Zenon
    <3> QED BY <2>1, <3>1, <3>4
  <2>5. TypeOK'
    BY <1>9, <2>1, <2>3 DEF IInv, TypeOK, Persist
  <2>6. Parked'
    BY <1>9, <2>1, <2>4 DEF IInv, TypeOK, Parked, Persist, AllDone
  <2>7. operation.status # "absent"
    BY <1>9 DEF IInv, Parked, Persist
  <2> QED BY <1>9, <2>3, <2>4, <2>5, <2>6, <2>7
          DEF IInv, RowsMatchTargets, Verdict, EvidenceAgrees, Persist, AllDone
<1>10. ASSUME NEW c \in Calls, StartFinalize(c) PROVE IInv'
  <2>1. TypeOK'
    BY <1>10 DEF IInv, TypeOK, StartFinalize
  <2>2. Parked'
    BY <1>10 DEF IInv, TypeOK, Parked, StartFinalize, AllDone
  <2> QED BY <1>10, <2>1, <2>2
          DEF IInv, RowsMatchTargets, Verdict, EvidenceAgrees, StartFinalize, AllDone
<1>11. ASSUME NEW c \in Calls, Finalize(c) PROVE IInv'
  <2>1. snapshot[c] = rows /\ AllDone(rows) /\ operation.status # "absent"
    BY <1>11 DEF IInv, Parked, Finalize
  <2>2. /\ operation' \in Operations /\ operation'.status = "completed"
        /\ operation'.evidence = rows /\ operation'.completedAt = c
        /\ operation'.targets = operation.targets
    BY <1>11, <2>1 DEF IInv, TypeOK, Operations, Finalize
  <2>3. TypeOK'
    <3>1. confirmed' \subseteq [targets : Configs, completedAt : Calls, evidence : RowSets]
      BY <1>11, <2>1, RequestsTyped DEF IInv, TypeOK, Finalize, Confirm
    <3> QED BY <1>11, <2>2, <3>1, ReturnLocals, TicksAssumption
            DEF IInv, TypeOK, Finalize, Operations
  <2>4. Parked'
    BY <1>11, <2>2, ReturnLocals DEF IInv, Parked, Finalize, AllDone
  <2>5. EvidenceAgrees'
    BY <1>11, <2>1, <2>2 DEF IInv, EvidenceAgrees, Verdict, Finalize, Confirm
  <2> QED BY <1>11, <2>1, <2>2, <2>3, <2>4, <2>5
          DEF IInv, RowsMatchTargets, Verdict, Finalize, AllDone
<1>12. ASSUME Crash PROVE IInv'
  <2>1. TypeOK'
    BY <1>12, NoRowsTyped, NoRequestTyped, TicksAssumption
    DEF IInv, TypeOK, Crash, NoOutcome, NotAttested
  <2>2. Parked'
    BY <1>12 DEF IInv, Parked, Crash
  <2> QED BY <1>12, <2>1, <2>2
          DEF IInv, RowsMatchTargets, Verdict, EvidenceAgrees, Crash, AllDone
<1>13. ASSUME Tick PROVE IInv'
  <2>1. leaseLeft' \in 0..LeaseTicks /\ clock' \in [Calls -> Nat]
    BY <1>13, TicksAssumption DEF IInv, TypeOK, Tick, Timed
  <2>2. TypeOK'
    BY <1>13, <2>1 DEF IInv, TypeOK, Tick
  <2> QED BY <1>13, <2>2
          DEF IInv, RowsMatchTargets, Parked, Verdict, EvidenceAgrees, Tick, AllDone
<1>14. ASSUME UNCHANGED vars PROVE IInv'
  BY <1>14 DEF IInv, TypeOK, RowsMatchTargets, Parked, Verdict, EvidenceAgrees, AllDone
<1>15. ASSUME NEW c \in Calls, Mismatch(c) PROVE IInv'
  <2>1. Return(c) /\ UNCHANGED <<erased, confirmed, crashes>>
    BY <1>15 DEF Mismatch
  <2>2. TypeOK'
    BY <1>15, <2>1, LeaseTaken, ReturnLocals DEF IInv, TypeOK, Operations
  <2>3. Parked'
    BY <1>15, <2>1, LeaseTaken, ReturnLocals DEF IInv, Parked, AllDone
  <2> QED BY <1>15, <2>1, <2>2, <2>3, LeaseTaken DEF IInv, EvidenceAgrees
<1> QED
  BY <1>1, <1>2, <1>3, <1>4, <1>5, <1>6, <1>7, <1>8, <1>9, <1>10, <1>11, <1>12, <1>13, <1>14, <1>15
  DEF Next, Step

-----------------------------------------------------------------------------
\* Every reachable state is well typed.
THEOREM TypeCorrect == Spec => []TypeOK
<1>1. IInv => TypeOK
  BY DEF IInv
<1> QED BY <1>1, InitIInv, StepIInv, PTL DEF Spec

\* However late a superseded call writes, every "completed" answer carries the
\* evidence id that is stored.
THEOREM EvidenceAlwaysAgrees == Spec => []EvidenceAgrees
<1>1. IInv => EvidenceAgrees
  BY DEF IInv
<1> QED BY <1>1, InitIInv, StepIInv, PTL DEF Spec

-----------------------------------------------------------------------------
LEMMA InitPromise == Init => Promise!Init
<1> SUFFICES ASSUME Init PROVE Promise!Init
  OBVIOUS
<1>1. operation.evidence = NoRows
  BY AbsentTyped, OpenedTyped DEF Init
<1>2. \E T \in SUBSET TargetIds : rows = [t \in T |-> "pending"]
  <2>1. CASE rows = NoRows
    BY <2>1 DEF NoRows
  <2>2. ASSUME NEW r \in Requests, rows = NewRows(r)
        PROVE  \E T \in SUBSET TargetIds : rows = [t \in T |-> "pending"]
    BY <2>2, RequestsTyped DEF NewRows
  <2> QED BY <2>1, <2>2 DEF Init
<1> QED BY <1>1, <1>2 DEF Promise!Init, Promise!NoVerdict, NoRows

LEMMA StepPromise ==
    IInv /\ [Next]_vars => [Promise!Next]_<<rows, operation.evidence>>
<1> SUFFICES ASSUME IInv, [Next]_vars
             PROVE  Promise!Next \/ UNCHANGED <<rows, operation.evidence>>
  OBVIOUS
<1> USE DEF vars, stored, calls
<1>1. ASSUME NEW c \in Calls, AcquireLease(c) \/ Mismatch(c)
      PROVE  Promise!Open \/ UNCHANGED <<rows, operation.evidence>>
  <2>0. operation.status # "completed" /\ rows' = CurrentRows(c)
    BY <1>1 DEF AcquireLease, Mismatch
  <2>1. operation.evidence = NoRows /\ operation'.evidence = NoRows
    BY <1>1, <2>0, LeaseTaken DEF IInv, Verdict
  <2>2. CASE operation.status = "absent"
    <3>1. rows = NoRows /\ rows' = NewRows(request[c])
      BY <2>0, <2>2 DEF IInv, RowsMatchTargets, CurrentRows
    <3>2. DOMAIN request[c].targets \in SUBSET TargetIds
      BY RequestsTyped DEF IInv, TypeOK
    <3> QED BY <2>1, <3>1, <3>2 DEF Promise!Open, NoRows, NewRows
  <2>3. CASE operation.status # "absent"
    BY <2>0, <2>1, <2>3 DEF CurrentRows
  <2> QED BY <2>2, <2>3
<1>2. ASSUME NEW c \in Calls, ReleaseLease(c), UNCHANGED rows
      PROVE  UNCHANGED <<rows, operation.evidence>>
  BY <1>2 DEF ReleaseLease, IInv, TypeOK
<1>3. ASSUME NEW c \in Calls, Persist(c)
      PROVE  Promise!Next \/ UNCHANGED <<rows, operation.evidence>>
  <2>1. PICK t \in todo[c] :
          rows' = IF rows[t] = "pending" THEN [rows EXCEPT ![t] = outcome[c][t]] ELSE rows
    BY <1>3 DEF Persist
  <2>2. outcome[c][t] \in Attestations /\ rows \in RowSets
    BY DEF IInv, Parked, TypeOK
  <2>3. CASE t \in DOMAIN rows /\ rows[t] = "pending"
    BY <1>3, <2>1, <2>2, <2>3 DEF Promise!Next, Promise!Record, Persist
  <2>4. CASE t \notin DOMAIN rows
    <3>1. [rows EXCEPT ![t] = outcome[c][t]] = rows
      BY <2>2, <2>4, RecordRow, Zenon
    <3> QED BY <1>3, <2>1, <3>1 DEF Persist
  <2>5. CASE rows[t] # "pending"
    BY <1>3, <2>1, <2>5 DEF Persist
  <2> QED BY <2>3, <2>4, <2>5
<1>4. ASSUME NEW c \in Calls, Finalize(c)
      PROVE  Promise!Next \/ UNCHANGED <<rows, operation.evidence>>
  <2>1. snapshot[c] = rows /\ AllDone(rows)
    BY <1>4 DEF IInv, Parked, Finalize
  <2>2. rows' = rows /\ operation'.evidence = rows
    BY <1>4, <2>1 DEF Finalize, IInv, TypeOK
  <2>3. CASE operation.status = "completed"
    BY <2>2, <2>3 DEF IInv, Verdict
  <2>4. CASE operation.status # "completed"
    BY <2>1, <2>2, <2>4
    DEF IInv, Verdict, Promise!Next, Promise!Complete, Promise!NoVerdict, NoRows, AllDone
  <2> QED BY <2>3, <2>4
<1>5. ASSUME NEW c \in Calls, NEW t \in TargetIds, Attest(c, t) \/ Postpone(c, t) \/ Fail(c, t)
      PROVE  UNCHANGED <<rows, operation.evidence>>
  BY <1>5 DEF Attest, Postpone, Fail, Hear
<1>6. ASSUME NEW c \in Calls,
             \/ Conflict(c) \/ Replay(c) \/ Busy(c) \/ Superseded(c)
             \/ KeepGoing(c) \/ StartFinalize(c) \/ Throw(c)
      PROVE  UNCHANGED <<rows, operation.evidence>>
  BY <1>6 DEF Conflict, Replay, Busy, Superseded, KeepGoing, StartFinalize, Throw
<1>7. ASSUME \/ \E c \in Calls, r \in Requests : Begin(c, r)
             \/ Crash \/ Tick \/ UNCHANGED vars
      PROVE  UNCHANGED <<rows, operation.evidence>>
  BY <1>7 DEF Begin, Crash, Tick
<1>8. ASSUME NEW c \in Calls, ResumeFinalize(c) \/ Dispatch(c) \/ Mismatch(c)
      PROVE  Promise!Next \/ UNCHANGED <<rows, operation.evidence>>
  BY <1>1, <1>8 DEF ResumeFinalize, Dispatch, Promise!Next
<1>9. ASSUME NEW c \in Calls, PersistFails(c) \/ Incomplete(c)
      PROVE  UNCHANGED <<rows, operation.evidence>>
  BY <1>2, <1>9 DEF PersistFails, Incomplete
<1> QED BY <1>3, <1>4, <1>5, <1>6, <1>7, <1>8, <1>9 DEF Next, Step

\* The coordinator implements the promise: an attestation once recorded never
\* changes, and the verdict is given once, over every target's attestation.
THEOREM PromiseKept == Spec => KeepsPromise
BY InitPromise, StepPromise, InitIInv, StepIInv, PTL DEF Spec, KeepsPromise, Promise!Spec

-----------------------------------------------------------------------------
\* No step of any call ends a live lease that is not its own, but for finalize.
LEMMA StepLease ==
    ASSUME IInv, [Next]_vars
    PROVE  \A c \in Calls :
             operation.lease = c /\ leaseLeft > 0 /\ operation'.lease # c
             => (pc[c] # "idle" /\ pc'[c] = "idle") \/ operation'.status = "completed"
<1> SUFFICES ASSUME NEW c \in Calls, operation.lease = c, leaseLeft > 0,
                    operation'.lease # c
             PROVE  (pc[c] # "idle" /\ pc'[c] = "idle") \/ operation'.status = "completed"
  OBVIOUS
<1>1. LeaseLive
  BY CallsAssumption DEF LeaseLive
<1>2. operation' # operation
  OBVIOUS
<1>3. ASSUME NEW d \in Calls, PersistFails(d) \/ Incomplete(d)
      PROVE  pc[c] # "idle" /\ pc'[c] = "idle"
  <2>1. d = c
    BY <1>2, <1>3 DEF PersistFails, Incomplete, ReleaseLease
  <2> QED BY <1>3, <2>1 DEF PersistFails, Incomplete, Return, IInv, TypeOK
<1>4. ASSUME NEW d \in Calls, Finalize(d) PROVE operation'.status = "completed"
  BY <1>4 DEF Finalize, IInv, TypeOK
<1>5. ASSUME NEW d \in Calls, ResumeFinalize(d) \/ Dispatch(d) \/ Mismatch(d) PROVE FALSE
  BY <1>1, <1>5 DEF ResumeFinalize, Dispatch, AcquireLease, Mismatch
<1>6. ASSUME NEW d \in Calls,
             \/ Conflict(d) \/ Replay(d) \/ Busy(d) \/ Superseded(d)
             \/ KeepGoing(d) \/ Persist(d) \/ StartFinalize(d) \/ Throw(d)
      PROVE  FALSE
  BY <1>2, <1>6
  DEF Conflict, Replay, Busy, Superseded, KeepGoing, Persist, StartFinalize, Throw, stored
<1>7. ASSUME NEW d \in Calls, NEW t \in TargetIds, Attest(d, t) \/ Postpone(d, t) \/ Fail(d, t)
      PROVE  FALSE
  BY <1>2, <1>7 DEF Attest, Postpone, Fail, Hear, stored
<1>8. ASSUME (\E d \in Calls, r \in Requests : Begin(d, r)) \/ Crash \/ Tick \/ UNCHANGED vars
      PROVE  FALSE
  BY <1>2, <1>8 DEF Begin, Crash, Tick, vars, stored
<1> QED BY <1>3, <1>4, <1>5, <1>6, <1>7, <1>8 DEF Next, Step

\* A call whose own lease has lapsed never releases its successor's: a live lease
\* ends with its holder's call, or with the operation.
THEOREM LeaseEndsOnlyWithHolder == Spec => LeaseEndsWithHolder
BY StepLease, InitIInv, StepIInv, PTL DEF Spec, LeaseEndsWithHolder

-----------------------------------------------------------------------------
Past == {"targets", "persist", "finalize"}

\* The endpoint the operation has for t has carried out the erasure.
Carried(t) ==
    IF operation.version = 2 THEN <<t, operation.targets[t]>> \in erased
    ELSE \E u \in Urls : <<t, u>> \in erased

\* What CompletedCoversTargets rests on: whoever is past the digests, or was ever
\* told "completed", asked for the stored target set, and whatever a row or a call
\* holds of an attestation came from an endpoint of that set.
Covered ==
    /\ \A t \in DOMAIN rows : rows[t] # "pending" => Carried(t)
    /\ \A c \in Calls : pc[c] \in Past =>
         SameTargets(operation.version, operation.targets, request[c].targets)
    /\ \A c \in Calls, t \in TargetIds :
         outcome[c][t] \in Attestations => pc[c] \in Past /\ Carried(t)
    /\ \A a \in confirmed : SameTargets(operation.version, operation.targets, a.targets)

\* While the stored target set stays, what was carried out stays so.
LEMMA CarriedStays ==
    ASSUME operation'.version = operation.version,
           operation'.targets = operation.targets,
           erased \subseteq erased', NEW t, Carried(t)
    PROVE  Carried(t)'
BY DEF Carried

LEMMA NoAttestation == \A t \in TargetIds : NoOutcome[t] \notin Attestations
BY AttestationsAssumption DEF NoOutcome, NotAttested

LEMMA InitCovered == Init => Covered
<1> SUFFICES ASSUME Init PROVE Covered
  OBVIOUS
<1>1. \A t \in DOMAIN rows : rows[t] = "pending"
  BY DEF Init, NoRows, NewRows
<1> QED BY <1>1, NoAttestation DEF Init, Covered, Past

\* A call that ends, whatever it does to the lease, keeps what is covered.
LEMMA ReturnCovered ==
    ASSUME IInv, Covered, NEW c \in Calls, Return(c),
           operation'.version = operation.version,
           operation'.targets = operation.targets,
           UNCHANGED <<rows, erased>>,
           \A a \in confirmed' : a \in confirmed \/
              SameTargets(operation.version, operation.targets, a.targets)
    PROVE  Covered'
<1>1. \A t : Carried(t) => Carried(t)'
  BY CarriedStays
<1>2. /\ pc'[c] = "idle" /\ outcome'[c] = NoOutcome
      /\ \A d \in Calls \ {c} :
            pc'[d] = pc[d] /\ outcome'[d] = outcome[d] /\ request'[d] = request[d]
  BY DEF Return, IInv, TypeOK
<1>3. \A t \in DOMAIN rows' : rows'[t] # "pending" => Carried(t)'
  BY <1>1 DEF Covered
<1>4. \A d \in Calls : pc'[d] \in Past =>
         SameTargets(operation'.version, operation'.targets, request'[d].targets)
  BY <1>2 DEF Covered, Past
<1>5. \A d \in Calls, t \in TargetIds :
         outcome'[d][t] \in Attestations => pc'[d] \in Past /\ Carried(t)'
  BY <1>1, <1>2, NoAttestation DEF Covered
<1>6. \A a \in confirmed' : SameTargets(operation'.version, operation'.targets, a.targets)
  BY DEF Covered
<1> QED BY <1>3, <1>4, <1>5, <1>6 DEF Covered

\* Taking the lease, or failing over the rows, keeps what is covered: a first
\* call brings its own target set, a later one finds its own stored.
LEMMA LeaseCovered ==
    ASSUME IInv, Covered, NEW c \in Calls, AcquireLease(c) \/ Mismatch(c),
           UNCHANGED erased
    PROVE  /\ \A t \in DOMAIN rows' : rows'[t] # "pending" => Carried(t)'
           /\ SameTargets(operation'.version, operation'.targets, request[c].targets)
           /\ \A d \in Calls : pc[d] \in Past =>
                SameTargets(operation'.version, operation'.targets, request[d].targets)
           /\ \A t : (\E d \in Calls : pc[d] \in Past) => (Carried(t) => Carried(t)')
<1>1. /\ operation'.version = Current(c).version /\ operation'.targets = Current(c).targets
      /\ rows' = CurrentRows(c) /\ ~Conflicting(c)
  BY CurrentTyped DEF AcquireLease, Mismatch, Operations
<1>2. SameTargets(operation'.version, operation'.targets, request[c].targets)
  BY <1>1 DEF Conflicting
<1>3. CASE operation.status = "absent"
  <2>1. \A t \in DOMAIN rows' : rows'[t] = "pending"
    BY <1>1, <1>3 DEF CurrentRows, NewRows
  <2>2. \A d \in Calls : pc[d] \notin Past
    BY <1>3 DEF IInv, Parked, Past
  <2> QED BY <1>2, <2>1, <2>2
<1>4. CASE operation.status # "absent"
  <2>1. Current(c) = operation /\ rows' = rows
    BY <1>1, <1>4 DEF Current, CurrentRows
  <2>2. operation'.version = operation.version /\ operation'.targets = operation.targets
    BY <1>1, <2>1
  <2>3. \A t : Carried(t) => Carried(t)'
    BY <2>2, CarriedStays
  <2>4. \A t \in DOMAIN rows' : rows'[t] # "pending" => Carried(t)'
    BY <2>1, <2>3 DEF Covered
  <2>5. \A d \in Calls : pc[d] \in Past =>
          SameTargets(operation'.version, operation'.targets, request[d].targets)
    BY <2>2 DEF Covered
  <2> QED BY <1>2, <2>3, <2>4, <2>5
<1> QED BY <1>3, <1>4

LEMMA StepCovered == IInv /\ Covered /\ [Next]_vars => Covered'
<1> SUFFICES ASSUME IInv, Covered, [Next]_vars PROVE Covered'
  OBVIOUS
<1> USE DEF vars, stored, calls
<1>1. ASSUME NEW c \in Calls, NEW r \in Requests, Begin(c, r) PROVE Covered'
  <2>1. \A t : Carried(t) => Carried(t)'
    BY <1>1, CarriedStays DEF Begin
  <2>2. /\ pc'[c] = "digests" /\ pc[c] = "idle"
        /\ \A d \in Calls \ {c} : pc'[d] = pc[d] /\ request'[d] = request[d]
    BY <1>1 DEF Begin, IInv, TypeOK
  <2> QED BY <1>1, <2>1, <2>2 DEF Covered, Past, Begin
<1>2. ASSUME NEW c \in Calls,
             \/ Conflict(c) \/ Busy(c) \/ Superseded(c) \/ Throw(c)
             \/ PersistFails(c) \/ Incomplete(c)
      PROVE  Covered'
  <2>1. /\ Return(c) /\ UNCHANGED <<rows, erased, confirmed>>
        /\ UNCHANGED operation \/ ReleaseLease(c)
    BY <1>2 DEF Conflict, Busy, Superseded, Throw, PersistFails, Incomplete
  <2>2. operation'.version = operation.version /\ operation'.targets = operation.targets
    BY <2>1 DEF ReleaseLease, IInv, TypeOK
  <2> QED BY <2>1, <2>2, ReturnCovered
<1>3. ASSUME NEW c \in Calls, Replay(c) \/ Finalize(c) PROVE Covered'
  <2>1. /\ Return(c) /\ UNCHANGED <<rows, erased>>
        /\ operation'.version = operation.version /\ operation'.targets = operation.targets
    BY <1>3 DEF Replay, Finalize, IInv, TypeOK
  <2>2. SameTargets(operation.version, operation.targets, request[c].targets)
    <3>1. CASE Replay(c)
      BY <3>1 DEF Replay, Conflicting, Current
    <3>2. CASE Finalize(c)
      BY <3>2 DEF Finalize, Covered, Past
    <3> QED BY <1>3, <3>1, <3>2
  <2>3. PICK at, evidence : Confirm(c, at, evidence)
    BY <1>3 DEF Replay, Finalize
  <2>4. \A a \in confirmed' : a \in confirmed \/
           SameTargets(operation.version, operation.targets, a.targets)
    BY <2>2, <2>3 DEF Confirm
  <2> QED BY <2>1, <2>4, ReturnCovered
<1>4. ASSUME NEW c \in Calls, ResumeFinalize(c) \/ Dispatch(c) PROVE Covered'
  <2>1. /\ AcquireLease(c) /\ UNCHANGED <<erased, request>> /\ confirmed' = {}
        /\ pc[c] = "digests" /\ pc'[c] \in Past
        /\ \A d \in Calls \ {c} : pc'[d] = pc[d] /\ outcome'[d] = outcome[d]
    BY <1>4, LeaseTaken DEF ResumeFinalize, Dispatch, AcquireLease, IInv, TypeOK, Past
  <2>2. \A t \in TargetIds : outcome'[c][t] \notin Attestations
    <3>1. \A t \in TargetIds : outcome[c][t] \notin Attestations
      BY <2>1 DEF Covered, Past
    <3>2. CASE ResumeFinalize(c)
      BY <3>1, <3>2 DEF ResumeFinalize
    <3>3. CASE Dispatch(c)
      <4>1. \A t \in TargetIds : outcome'[c][t] \in {"waiting", "none"}
        BY <3>3 DEF Dispatch, IInv, TypeOK
      <4> QED BY <4>1, AttestationsAssumption DEF NotAttested
    <3> QED BY <1>4, <3>2, <3>3
  <2>3. \A d \in Calls, t \in TargetIds :
          outcome'[d][t] \in Attestations => pc'[d] \in Past /\ Carried(t)'
    BY <2>1, <2>2, LeaseCovered DEF Covered
  <2>4. \A d \in Calls : pc'[d] \in Past =>
          SameTargets(operation'.version, operation'.targets, request'[d].targets)
    BY <2>1, LeaseCovered
  <2> QED BY <2>1, <2>3, <2>4, LeaseCovered DEF Covered
<1>5. ASSUME NEW c \in Calls, NEW t \in TargetIds, Attest(c, t) \/ Postpone(c, t) \/ Fail(c, t)
      PROVE  Covered'
  <2>1. PICK o \in Attestations \cup NotAttested :
          /\ Hear(c, t, o)
          /\ UNCHANGED erased \/ Erases(c, t)
          /\ o \in Attestations => Erases(c, t)
    BY <1>5, AttestationsAssumption DEF Attest, Postpone, Fail, NotAttested
  <2>2. /\ UNCHANGED <<operation, rows, pc, request, confirmed>> /\ pc[c] = "targets"
        /\ \A d \in Calls, u \in TargetIds :
              outcome'[d][u] = IF d = c /\ u = t THEN o ELSE outcome[d][u]
    BY <2>1 DEF Hear, IInv, TypeOK
  <2>3. \A u : Carried(u) => Carried(u)'
    BY <2>1, <2>2, CarriedStays DEF Erases
  <2>4. o \in Attestations => Carried(t)'
    <3>1. SUFFICES ASSUME Erases(c, t) PROVE Carried(t)'
      BY <2>1
    <3>2. t \in DOMAIN request[c].targets
      BY <2>1 DEF IInv, Parked, Hear
    <3>3. request[c].targets[t] \in Urls
      BY <3>2, RequestsTyped DEF IInv, TypeOK, Configs
    <3>4. SameTargets(operation.version, operation.targets, request[c].targets)
          /\ operation.version \in {1, 2}
      BY <2>2 DEF Covered, Past, IInv, TypeOK
    <3> QED BY <2>2, <3>1, <3>3, <3>4 DEF Carried, Erases, SameTargets
  <2>5. \A d \in Calls, u \in TargetIds :
          outcome'[d][u] \in Attestations => pc'[d] \in Past /\ Carried(u)'
    BY <2>2, <2>3, <2>4 DEF Covered, Past
  <2> QED BY <2>2, <2>3, <2>5 DEF Covered
<1>6. ASSUME NEW c \in Calls, KeepGoing(c) \/ StartFinalize(c) PROVE Covered'
  <2>1. /\ UNCHANGED <<operation, rows, request, outcome, erased, confirmed>>
        /\ pc[c] \in Past /\ pc'[c] \in Past
        /\ \A d \in Calls \ {c} : pc'[d] = pc[d]
    BY <1>6 DEF KeepGoing, Settled, StartFinalize, Past, IInv, TypeOK
  <2>2. \A t : Carried(t) => Carried(t)'
    BY <2>1, CarriedStays
  <2> QED BY <2>1, <2>2 DEF Covered
<1>7. ASSUME NEW c \in Calls, Persist(c) PROVE Covered'
  <2>1. PICK t \in todo[c] :
          rows' = IF rows[t] = "pending" THEN [rows EXCEPT ![t] = outcome[c][t]] ELSE rows
    BY <1>7 DEF Persist
  <2>2. UNCHANGED <<operation, pc, request, outcome, erased, confirmed>>
    BY <1>7 DEF Persist
  <2>3. outcome[c][t] \in Attestations /\ t \in TargetIds
    BY DEF IInv, Parked, TypeOK
  <2>4. \A u : Carried(u) => Carried(u)'
    BY <2>2, CarriedStays
  <2>5. DOMAIN rows' = DOMAIN rows
        /\ \A u \in DOMAIN rows' : rows'[u] = rows[u] \/ u = t
    BY <2>1
  <2>6. \A u \in DOMAIN rows' : rows'[u] # "pending" => Carried(u)'
    BY <2>3, <2>4, <2>5 DEF Covered
  <2> QED BY <2>2, <2>4, <2>6 DEF Covered
<1>8. ASSUME Crash PROVE Covered'
  <2>1. /\ UNCHANGED <<operation, rows, erased, confirmed>>
        /\ \A c \in Calls : pc'[c] = "idle" /\ outcome'[c] = NoOutcome
    BY <1>8 DEF Crash
  <2>2. \A t : Carried(t) => Carried(t)'
    BY <2>1, CarriedStays
  <2> QED BY <2>1, <2>2, NoAttestation DEF Covered, Past
<1>9. ASSUME Tick \/ UNCHANGED vars PROVE Covered'
  <2>1. UNCHANGED <<operation, rows, pc, request, outcome, erased, confirmed>>
    BY <1>9 DEF Tick
  <2>2. \A t : Carried(t) => Carried(t)'
    BY <2>1, CarriedStays
  <2> QED BY <2>1, <2>2 DEF Covered
<1>10. ASSUME NEW c \in Calls, Mismatch(c) PROVE Covered'
  <2>1. /\ Return(c) /\ UNCHANGED erased /\ confirmed' = {}
    BY <1>10, LeaseTaken DEF Mismatch
  <2>2. /\ pc'[c] = "idle" /\ outcome'[c] = NoOutcome
        /\ \A d \in Calls \ {c} :
              pc'[d] = pc[d] /\ outcome'[d] = outcome[d] /\ request'[d] = request[d]
    BY <2>1 DEF Return, IInv, TypeOK
  <2>3. \A d \in Calls, t \in TargetIds :
          outcome'[d][t] \in Attestations => pc'[d] \in Past /\ Carried(t)'
    BY <1>10, <2>1, <2>2, LeaseCovered, NoAttestation DEF Covered
  <2>4. \A d \in Calls : pc'[d] \in Past =>
          SameTargets(operation'.version, operation'.targets, request'[d].targets)
    BY <1>10, <2>1, <2>2, LeaseCovered DEF Past
  <2> QED BY <1>10, <2>1, <2>3, <2>4, LeaseCovered DEF Covered
<1> QED
  BY <1>1, <1>2, <1>3, <1>4, <1>5, <1>6, <1>7, <1>8, <1>9, <1>10 DEF Next, Step

LEMMA CoveredTargets == IInv /\ Covered => CompletedCoversTargets
<1> SUFFICES ASSUME IInv, Covered, NEW a \in confirmed, NEW t \in TargetIds,
                    t \in DOMAIN a.targets
             PROVE  IF operation.version = 2 THEN <<t, a.targets[t]>> \in erased
                    ELSE \E u \in Urls : <<t, u>> \in erased
  BY DEF CompletedCoversTargets
<1>1. AllDone(rows) /\ DOMAIN rows = DOMAIN operation.targets
  BY DEF IInv, EvidenceAgrees, Verdict, RowsMatchTargets
<1>2. SameTargets(operation.version, operation.targets, a.targets)
  BY DEF Covered
<1>3. t \in DOMAIN rows
  BY <1>1, <1>2 DEF SameTargets
<1>4. Carried(t)
  BY <1>1, <1>3 DEF Covered, AllDone
<1>5. operation.version = 2 => a.targets = operation.targets
  BY <1>2 DEF SameTargets
<1> QED BY <1>4, <1>5 DEF Carried

\* Nobody is ever told "completed" before every endpoint of the configuration he
\* asked with has carried out the erasure.
THEOREM CompletedAlwaysCovers == Spec => []CompletedCoversTargets
BY InitIInv, InitCovered, StepIInv, StepCovered, CoveredTargets, PTL DEF Spec

-----------------------------------------------------------------------------
\* The digests are prompt: what a lease has to outlive ends before it does.
Prompt == TargetTicks + HashTicks < LeaseTicks

\* What is left of the lease after the await a call is parked at.
StillToHash(c) == IF pc[c] = "targets" THEN HashTicks ELSE 0

\* With prompt digests a call past the lease still has it, for long enough; the
\* operation is then open, so only one completion stamp is ever given.
Held ==
    /\ \A c \in Timed :
        /\ operation.status = "pending" /\ operation.lease = c
        /\ leaseLeft > clock[c] + StillToHash(c)
    /\ \A a \in confirmed : a.completedAt = operation.completedAt

LEMMA InitHeld == Init => Held
BY DEF Init, Held, Timed

\* Whoever is past the lease is the only one there.
LEMMA OneHolder ==
    ASSUME Held
    PROVE  \A c, d \in Timed : c = d
BY DEF Held

\* Nobody takes the lease of a call that is past it.
LEMMA NoneHolds ==
    ASSUME IInv, Held, ~LeaseLive
    PROVE  Timed = {}
<1> SUFFICES ASSUME NEW c \in Timed PROVE FALSE
  OBVIOUS
<1>1. operation.lease = c /\ leaseLeft > clock[c] + StillToHash(c) /\ c \in Calls
  BY DEF Held, Timed
<1>2. clock[c] \in Nat /\ StillToHash(c) \in Nat /\ leaseLeft \in Nat
  BY <1>1, TicksAssumption DEF IInv, TypeOK, StillToHash
<1>3. leaseLeft > 0
  BY <1>1, <1>2
<1> QED BY <1>1, <1>3, CallsAssumption DEF LeaseLive

\* The only call past the lease ends, and whatever it does to the operation its
\* stamp is the only one given.
LEMMA ReturnHeld ==
    ASSUME IInv, Held, NEW c \in Timed, Return(c),
           \A a \in confirmed' : a.completedAt = operation'.completedAt
    PROVE  Held'
<1>1. \A d \in Timed : d = c
  BY OneHolder
<1>2. Timed' = {}
  BY <1>1 DEF Timed, Return, IInv, TypeOK
<1> QED BY <1>2 DEF Held

\* A call that changes nothing stored, is parked where it was or no longer, and
\* no clock but the one it restarts.
LEMMA QuietHeld ==
    ASSUME IInv, Held, Timed' \subseteq Timed,
           UNCHANGED <<operation, leaseLeft>>,
           \A d \in Timed' : clock'[d] = clock[d] /\ StillToHash(d)' = StillToHash(d),
           \A a \in confirmed' : a.completedAt = operation.completedAt
    PROVE  Held'
BY DEF Held

LEMMA StepHeld ==
    ASSUME Prompt, IInv, Held, [Next]_vars
    PROVE  Held'
<1> USE DEF vars, stored, calls
<1>1. ASSUME NEW c \in Calls,
             \/ \E r \in Requests : Begin(c, r)
             \/ Conflict(c) \/ Busy(c) \/ Replay(c) \/ Throw(c)
      PROVE  Held'
  <2>1. /\ UNCHANGED <<operation, leaseLeft>> /\ pc'[c] \in {"idle", "digests"}
        /\ \A d \in Calls \ {c} : pc'[d] = pc[d] /\ clock'[d] = clock[d]
    BY <1>1 DEF Begin, Conflict, Busy, Replay, Throw, Return, IInv, TypeOK
  <2>2. Timed' \subseteq Timed /\ c \notin Timed'
    BY <2>1 DEF Timed
  <2>3. \A a \in confirmed' : a.completedAt = operation.completedAt
    <3>1. CASE Replay(c)
      BY <3>1 DEF Replay, Confirm, Held
    <3>2. CASE ~Replay(c)
      BY <1>1, <3>2 DEF Begin, Conflict, Busy, Throw, Held
    <3> QED BY <3>1, <3>2
  <2> QED BY <2>1, <2>2, <2>3, QuietHeld DEF Timed, StillToHash
<1>2. ASSUME NEW c \in Calls, Superseded(c) PROVE FALSE
  BY <1>2 DEF Superseded, Settled, Held, Timed
<1>3. ASSUME NEW c \in Calls, ResumeFinalize(c) \/ Dispatch(c) PROVE Held'
  <2>1. AcquireLease(c) /\ confirmed' = {} /\ operation'.status = "pending"
    BY <1>3, LeaseTaken DEF ResumeFinalize, Dispatch
  <2>2. Timed = {}
    BY <2>1, NoneHolds DEF AcquireLease
  <2>3. /\ \A d \in Calls \ {c} : pc'[d] = pc[d]
        /\ \/ pc'[c] = "finalize" /\ clock'[c] = HashTicks
           \/ pc'[c] = "targets" /\ clock'[c] = TargetTicks
    BY <1>3 DEF ResumeFinalize, Dispatch, IInv, TypeOK
  <2>4. Timed' \subseteq {c}
    BY <2>2, <2>3 DEF Timed
  <2>5. operation'.lease = c /\ leaseLeft' = LeaseTicks
    BY <2>1, CurrentTyped DEF AcquireLease, Operations
  <2>6. leaseLeft' > clock'[c] + StillToHash(c)'
    BY <2>3, <2>5, TicksAssumption DEF Prompt, StillToHash
  <2> QED BY <2>1, <2>4, <2>5, <2>6 DEF Held
<1>4. ASSUME NEW c \in Calls, NEW t \in TargetIds, Attest(c, t) \/ Postpone(c, t) \/ Fail(c, t)
      PROVE  Held'
  <2>1. UNCHANGED <<operation, leaseLeft, pc, clock, confirmed>>
    BY <1>4 DEF Attest, Postpone, Fail, Hear
  <2> QED BY <2>1 DEF Held, Timed, StillToHash
<1>5. ASSUME NEW c \in Calls, KeepGoing(c) PROVE Held'
  <2>1. /\ UNCHANGED <<operation, leaseLeft, confirmed>> /\ c \in Timed
        /\ pc[c] = "targets" /\ pc'[c] = "persist" /\ clock'[c] = HashTicks
        /\ \A d \in Calls \ {c} : pc'[d] = pc[d]
    BY <1>5 DEF KeepGoing, Settled, Timed, IInv, TypeOK
  <2>2. Timed' = {c}
    BY <2>1, OneHolder DEF Timed
  <2>3. leaseLeft > clock[c] + HashTicks
    BY <2>1 DEF Held, StillToHash
  <2>4. clock[c] \in Nat /\ leaseLeft \in Nat
    BY TicksAssumption DEF IInv, TypeOK
  <2>5. leaseLeft' > clock'[c] + StillToHash(c)'
    BY <2>1, <2>3, <2>4, TicksAssumption DEF StillToHash
  <2> QED BY <2>1, <2>2, <2>5 DEF Held
<1>6. ASSUME NEW c \in Calls, Persist(c) PROVE Held'
  BY <1>6 DEF Persist, Held, Timed, StillToHash
<1>7. ASSUME NEW c \in Calls, StartFinalize(c) PROVE Held'
  <2>1. /\ UNCHANGED <<operation, leaseLeft, clock, confirmed>>
        /\ pc[c] = "persist" /\ pc'[c] = "finalize"
        /\ \A d \in Calls \ {c} : pc'[d] = pc[d]
    BY <1>7 DEF StartFinalize, IInv, TypeOK
  <2>2. Timed' \subseteq Timed /\ \A d \in Calls : StillToHash(d)' = StillToHash(d)
    BY <2>1 DEF Timed, StillToHash
  <2>3. \A a \in confirmed' : a.completedAt = operation.completedAt
    BY <2>1 DEF Held
  <2> QED BY <2>1, <2>2, <2>3, QuietHeld DEF Timed
<1>8. ASSUME NEW c \in Calls, PersistFails(c) \/ Incomplete(c) PROVE Held'
  <2>1. c \in Timed /\ Return(c) /\ confirmed' = confirmed
    BY <1>8 DEF PersistFails, Incomplete, Timed
  <2>2. operation'.completedAt = operation.completedAt
    BY <1>8 DEF PersistFails, Incomplete, ReleaseLease, IInv, TypeOK
  <2> QED BY <2>1, <2>2, ReturnHeld DEF Held
<1>9. ASSUME NEW c \in Calls, Finalize(c) PROVE Held'
  <2>1. c \in Timed /\ Return(c)
    BY <1>9 DEF Finalize, Timed
  <2>2. confirmed = {}
    BY <2>1 DEF Held, IInv, EvidenceAgrees
  <2>3. operation'.completedAt = c /\ \A a \in confirmed' : a.completedAt = c
    BY <1>9, <2>2 DEF Finalize, Confirm, IInv, TypeOK
  <2> QED BY <2>1, <2>3, ReturnHeld
<1>10. ASSUME Crash PROVE Held'
  <2>1. Timed' = {} /\ UNCHANGED <<operation, confirmed>>
    BY <1>10 DEF Crash, Timed
  <2> QED BY <2>1 DEF Held
<1>11. ASSUME Tick PROVE Held'
  <2>1. UNCHANGED <<operation, pc, confirmed>> /\ Timed' = Timed
    BY <1>11 DEF Tick, Timed
  <2>2. ASSUME NEW c \in Timed PROVE leaseLeft' > clock'[c] + StillToHash(c)'
    <3>1. leaseLeft > clock[c] + StillToHash(c) /\ clock[c] > 0
      BY <1>11, <2>2 DEF Held, Tick
    <3>2. clock[c] \in Nat /\ StillToHash(c) \in Nat /\ leaseLeft \in Nat
      BY TicksAssumption DEF IInv, TypeOK, StillToHash, Timed
    <3>3. leaseLeft' = leaseLeft - 1 /\ clock'[c] = clock[c] - 1
      BY <1>11, <3>1, <3>2 DEF Tick, Timed
    <3>4. StillToHash(c)' = StillToHash(c)
      BY <2>1 DEF StillToHash
    <3> QED BY <3>1, <3>2, <3>3, <3>4
  <2> QED BY <2>1, <2>2 DEF Held
<1>12. ASSUME UNCHANGED vars PROVE Held'
  BY <1>12 DEF Held, Timed, StillToHash
<1>13. ASSUME NEW c \in Calls, Mismatch(c) PROVE Held'
  <2>1. Timed = {} /\ confirmed' = {}
    BY <1>13, NoneHolds, LeaseTaken DEF Mismatch
  <2>2. Timed' = {}
    BY <1>13, <2>1 DEF Mismatch, Return, Timed, IInv, TypeOK
  <2> QED BY <2>1, <2>2 DEF Held
<1> QED
  BY <1>1, <1>2, <1>3, <1>4, <1>5, <1>6, <1>7, <1>8, <1>9, <1>10, <1>11, <1>12, <1>13
  DEF Next, Step

\* Two calls are never past the lease together, when no call spends longer in its
\* digests than the lease outlives the bound on the target calls.
THEOREM LeaseAlwaysExcludes ==
    ASSUME Prompt
    PROVE  Spec => []LeaseExcludes
<1>1. IInv /\ Held => LeaseExcludes
  BY DEF Held, LeaseExcludes
<1>2. IInv /\ Held /\ [Next]_vars => Held'
  BY StepHeld
<1> QED BY <1>1, <1>2, InitIInv, InitHeld, StepIInv, PTL DEF Spec

\* A repeated call is given the stamp the first was given, when the digests are
\* prompt.
THEOREM AnswersAlwaysAgree ==
    ASSUME Prompt
    PROVE  Spec => []AnswersAgree
<1>1. IInv /\ Held => AnswersAgree
  BY DEF Held, AnswersAgree
<1>2. IInv /\ Held /\ [Next]_vars => Held'
  BY StepHeld
<1> QED BY <1>1, <1>2, InitIInv, InitHeld, StepIInv, PTL DEF Spec

=============================================================================
