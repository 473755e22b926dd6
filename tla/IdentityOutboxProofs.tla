------------------------- MODULE IdentityOutboxProofs -------------------------
(***************************************************************************)
(* Proofs about IdentityOutbox, for any events, drains, leases and limits. *)
(* What a drain is about to mark it has sent, unless the row was replayed  *)
(* or taken over, and then its token is gone and the mark does not match.  *)
(***************************************************************************)
EXTENDS IdentityOutbox, FiniteSetTheorems, FunctionTheorems, WellFoundedInduction, NaturalsInduction, TLAPS

Somewhere(e) == (\E m \in queue : m.event = e) \/ e \in dead \cup received

Shape ==
    /\ token \in [Events -> Drains \cup {NoDrain}]
    /\ replays \in [Events -> Nat]
    /\ pc \in [Drains -> {"idle", "sending", "marking", "releasing"}]
    /\ DOMAIN batch = Drains /\ DOMAIN left = Drains
    /\ \A d \in Drains : batch[d] \subseteq Events /\ DOMAIN left[d] \subseteq Events
    /\ rows \subseteq Events /\ queued \subseteq rows

\* Who marks a row gives up its token.
QueuedFree == \A e \in queued : token[e] = NoDrain

\* A batch waiting to be marked is in the queue's hands.
MarkingSent ==
    \A d \in Drains : \A e \in batch[d] :
        pc[d] = "marking" /\ token[e] = d => e \in sent

SentSomewhere == \A e \in sent : Somewhere(e)

GoneSomewhere == \A e \in committed \ rows : Somewhere(e)

IInv ==
    /\ Shape /\ MarkingSent /\ SentSomewhere /\ GoneSomewhere
    /\ QueuedWasSent /\ QueuedFree

-----------------------------------------------------------------------------
LEMMA InitInv == Init => IInv
BY BoundsAssumption
DEF Init, IInv, Shape, MarkingSent, SentSomewhere, GoneSomewhere, QueuedWasSent, QueuedFree,
    NoRows

\* What the queue accepts it has, and what was somewhere before still is.
LEMMA AcceptKeeps ==
    ASSUME NEW B, Accept(B)
    PROVE  /\ \A e \in B : Somewhere(e)'
           /\ \A e : Somewhere(e) => Somewhere(e)'
<1>1. \A e \in B : [event |-> e, tries |-> 0] \in queue'
                   /\ [event |-> e, tries |-> 0].event = e
  BY DEF Accept
<1> QED
  BY <1>1 DEF Accept, Somewhere

LEMMA ForgetKeeps ==
    ASSUME Shape, NEW d \in Drains, Forget(d)
    PROVE  /\ pc' \in [Drains -> {"idle", "sending", "marking", "releasing"}]
           /\ DOMAIN batch' = Drains /\ DOMAIN left' = Drains
           /\ \A c \in Drains : batch'[c] \subseteq Events /\ DOMAIN left'[c] \subseteq Events
           /\ pc'[d] = "idle"
           /\ \A c \in Drains \ {d} : pc'[c] = pc[c] /\ batch'[c] = batch[c]
BY DEF Shape, Forget, NoRows

\* A step of a drain that leaves the queue alone.
LEMMA SameDelivery ==
    ASSUME IInv, UNCHANGED <<rows, committed, delivery, sent>>
    PROVE  SentSomewhere' /\ GoneSomewhere'
BY DEF IInv, SentSomewhere, GoneSomewhere, Somewhere, delivery

LEMMA ClaimInv ==
    ASSUME IInv, NEW d \in Drains, Claim(d)
    PROVE  IInv'
<1> DEFINE mine == FirstOf({e \in Events : Due(e)}, ClaimLimit)
           tried(e) == IF attempts[e] < MaxDelay THEN attempts[e] + 1 ELSE MaxDelay
<1>0. /\ mine \subseteq Events /\ mine \cap queued = {}
      /\ token' = [e \in Events |-> IF e \in mine THEN d ELSE token[e]]
      /\ left' = [left EXCEPT ![d] = [e \in mine |-> tried(e)]]
  BY DEF Claim, FirstOf, Due
<1> HIDE DEF mine, tried
<1>1. Shape' /\ QueuedFree'
  <2>1. /\ pc' \in [Drains -> {"idle", "sending", "marking", "releasing"}]
        /\ UNCHANGED <<rows, queued, replays, batch>>
    BY DEF IInv, Shape, Claim
  <2>2. token' \in [Events -> Drains \cup {NoDrain}]
    BY <1>0 DEF IInv, Shape
  <2>3. DOMAIN left' = Drains /\ \A c \in Drains : DOMAIN left'[c] \subseteq Events
    <3>1. DOMAIN left' = Drains
      BY <1>0 DEF IInv, Shape
    <3>2. ASSUME NEW c \in Drains PROVE DOMAIN left'[c] \subseteq Events
      <4>1. CASE c = d
        <5>1. left'[c] = [e \in mine |-> tried(e)]
          BY <4>1, <1>0 DEF IInv, Shape
        <5> QED
          BY <5>1, <1>0
      <4>2. CASE c # d
        <5>1. left'[c] = left[c]
          BY <4>2, <1>0 DEF IInv, Shape
        <5> QED
          BY <5>1 DEF IInv, Shape
      <4> QED
        BY <4>1, <4>2
    <3> QED
      BY <3>1, <3>2
  <2>4. QueuedFree'
    BY <1>0, <2>1 DEF IInv, Shape, QueuedFree
  <2> QED
    BY <2>1, <2>2, <2>3, <2>4 DEF IInv, Shape
<1>2. MarkingSent'
  <2> SUFFICES ASSUME NEW c \in Drains, NEW e \in batch[c], pc'[c] = "marking", token'[e] = c
               PROVE  e \in sent
    BY DEF MarkingSent, Claim
  <2>1. c # d /\ pc[c] = "marking"
    BY DEF IInv, Shape, Claim
  <2>2. token[e] = c
    BY <2>1, <1>0 DEF IInv, Shape
  <2> QED
    BY <2>1, <2>2 DEF IInv, MarkingSent
<1> QED
  BY <1>1, <1>2, SameDelivery DEF IInv, Claim, QueuedWasSent, delivery

LEMMA SendInv ==
    ASSUME IInv, NEW d \in Drains, NEW B \in NextBatches(d), SendBatch(d, B)
    PROVE  IInv'
<1>1. Shape' /\ QueuedFree'
  BY DEF IInv, Shape, SendBatch, outbox, NextBatches, FirstOf, QueuedFree
<1>2. MarkingSent'
  BY DEF IInv, Shape, MarkingSent, SendBatch, Accept, outbox
<1>3. SentSomewhere' /\ GoneSomewhere'
  BY AcceptKeeps DEF IInv, SentSomewhere, GoneSomewhere, SendBatch, Accept, outbox
<1> QED
  BY <1>1, <1>2, <1>3 DEF IInv, QueuedWasSent, SendBatch, Accept, outbox

LEMMA SendFailsInv ==
    ASSUME IInv, NEW d \in Drains, NEW B \in NextBatches(d), SendBatchFails(d, B)
    PROVE  IInv'
<1>1. Shape' /\ MarkingSent' /\ QueuedWasSent' /\ QueuedFree'
  BY DEF IInv, Shape, MarkingSent, QueuedWasSent, QueuedFree, SendBatchFails, Accept, outbox
<1>2. CASE Accept(B)
  BY <1>1, <1>2, AcceptKeeps DEF IInv, SentSomewhere, GoneSomewhere, SendBatchFails, Accept, outbox
<1>3. CASE UNCHANGED <<delivery, sent>>
  BY <1>1, <1>3, SameDelivery DEF IInv, SendBatchFails, outbox
<1> QED
  BY <1>2, <1>3 DEF SendBatchFails

LEMMA MarkInv ==
    ASSUME IInv, NEW d \in Drains, Mark(d)
    PROVE  IInv'
<1> DEFINE marked == StillMine(d, batch[d])
<1>1. marked \subseteq rows /\ marked \subseteq sent
      /\ \A e \in marked : e \in batch[d] /\ token[e] = d
  BY DEF IInv, StillMine, MarkingSent, Mark
<1>2. /\ queued' = queued \cup marked
      /\ token' = [e \in Events |-> IF e \in marked THEN NoDrain ELSE token[e]]
      /\ batch' = [batch EXCEPT ![d] = {}]
      /\ pc'[d] \in {"idle", "sending"}
      /\ \A c \in Drains \ {d} : pc'[c] = pc[c]
      /\ pc' \in [Drains -> {"idle", "sending", "marking", "releasing"}]
      /\ UNCHANGED <<rows, replays, committed, delivery, sent>>
      /\ DOMAIN left' = Drains
      /\ \A c \in Drains : DOMAIN left'[c] \subseteq Events
  BY DEF Mark, IInv, Shape
<1> HIDE DEF marked
<1>3. Shape' /\ QueuedWasSent' /\ QueuedFree'
  BY <1>1, <1>2 DEF IInv, Shape, QueuedWasSent, QueuedFree
<1>4. MarkingSent'
  <2> SUFFICES ASSUME NEW c \in Drains, NEW e \in batch'[c], pc'[c] = "marking", token'[e] = c
               PROVE  e \in sent'
    BY DEF MarkingSent
  <2>1. c # d /\ pc[c] = "marking" /\ e \in batch[c]
    BY <1>2 DEF IInv, Shape
  <2>2. e \in Events /\ token[e] = c
    BY <1>2, <2>1, NoDrainAssumption DEF IInv, Shape
  <2> QED
    BY <1>2, <2>1, <2>2 DEF IInv, MarkingSent
<1> QED
  BY <1>2, <1>3, <1>4, SameDelivery DEF IInv

LEMMA ReleaseInv ==
    ASSUME IInv, NEW d \in Drains, Release(d)
    PROVE  IInv'
<1>1. Shape' /\ QueuedWasSent' /\ QueuedFree'
  BY ForgetKeeps DEF IInv, Shape, QueuedWasSent, QueuedFree, Release
<1>2. MarkingSent'
  <2> SUFFICES ASSUME NEW c \in Drains, NEW e \in batch'[c], pc'[c] = "marking", token'[e] = c
               PROVE  e \in sent'
    BY DEF MarkingSent
  <2>1. c # d /\ pc[c] = "marking" /\ e \in batch[c]
    BY ForgetKeeps DEF IInv, Release
  <2>2. e \in Events
    BY <2>1 DEF IInv, Shape
  <2>3. token[e] = c
    BY <2>1, <2>2, NoDrainAssumption DEF Release
  <2> QED
    BY <2>1, <2>3 DEF IInv, MarkingSent, Release
<1> QED
  BY <1>1, <1>2, SameDelivery DEF IInv, Release

LEMMA CrashInv ==
    ASSUME IInv, NEW d \in Drains, Crash(d)
    PROVE  IInv'
<1>1. Shape' /\ QueuedWasSent' /\ QueuedFree' /\ MarkingSent'
  BY ForgetKeeps DEF IInv, Shape, QueuedWasSent, QueuedFree, MarkingSent, Crash, outbox
<1> QED
  BY <1>1, SameDelivery DEF IInv, Crash, outbox

\* A replayed row is nobody's, so nobody marks it for what was sent before.
LEMMA ReplayInv ==
    ASSUME IInv, NEW e \in Events, Replay(e)
    PROVE  IInv'
<1>0. replays' \in [Events -> Nat] /\ token' \in [Events -> Drains \cup {NoDrain}]
  BY DEF IInv, Shape, Replay
<1>1. Shape' /\ QueuedWasSent' /\ QueuedFree'
  BY <1>0 DEF IInv, Shape, QueuedWasSent, QueuedFree, Replay, drains
<1>2. MarkingSent'
  BY NoDrainAssumption DEF IInv, Shape, MarkingSent, Replay, drains
<1>3. SentSomewhere' /\ GoneSomewhere'
  BY DEF IInv, SentSomewhere, GoneSomewhere, Somewhere, Replay, delivery
<1> QED
  BY <1>1, <1>2, <1>3 DEF IInv

LEMMA PruneInv ==
    ASSUME IInv, NEW e \in Events, Prune(e)
    PROVE  IInv'
<1>0. token' \in [Events -> Drains \cup {NoDrain}]
  BY DEF IInv, Shape, Prune
<1>1. Shape' /\ QueuedWasSent' /\ QueuedFree'
  BY <1>0 DEF IInv, Shape, QueuedWasSent, QueuedFree, Prune, drains
<1>2. MarkingSent'
  BY NoDrainAssumption DEF IInv, Shape, MarkingSent, Prune, drains
<1>3. SentSomewhere' /\ GoneSomewhere'
  BY DEF IInv, SentSomewhere, GoneSomewhere, QueuedWasSent, Somewhere, Prune, Prunable, delivery
<1> QED
  BY <1>1, <1>2, <1>3 DEF IInv

\* A message leaves the queue only to the receiver or the dead letter queue.
LEMMA MessageInv ==
    ASSUME IInv, NEW m \in queue, Deliver(m) \/ Retry(m)
    PROVE  IInv'
<1>1. \A e : Somewhere(e) => Somewhere(e)'
  <2>1. CASE Deliver(m)
    BY <2>1 DEF Deliver, Somewhere
  <2>2. CASE Retry(m)
    <3>1. CASE m.tries < MaxRetries
      <4> DEFINE again == [m EXCEPT !.tries = @ + 1]
      <4>1. queue' = (queue \ {m}) \cup {again} /\ dead' = dead /\ received \subseteq received'
        BY <2>2, <3>1 DEF Retry
      <4>2. again.event = m.event
        OBVIOUS
      <4> HIDE DEF again
      <4> QED
        BY <4>1, <4>2 DEF Somewhere
    <3>2. CASE ~(m.tries < MaxRetries)
      BY <2>2, <3>2 DEF Retry, Somewhere
    <3> QED
      BY <3>1, <3>2
  <2> QED
    BY <2>1, <2>2
<1>2. UNCHANGED <<outbox, drains, sent>>
  BY DEF Deliver, Retry
<1> QED
  BY <1>1, <1>2
  DEF IInv, Shape, MarkingSent, SentSomewhere, GoneSomewhere, QueuedWasSent, QueuedFree,
      outbox, drains

LEMMA NextInv == IInv /\ [Next]_vars => IInv'
<1> SUFFICES ASSUME IInv, [Next]_vars PROVE IInv'
  OBVIOUS
<1>1. ASSUME NEW e \in Events, Append(e) PROVE IInv'
  BY <1>1
  DEF IInv, Append, Shape, MarkingSent, SentSomewhere, GoneSomewhere, Somewhere,
      QueuedWasSent, QueuedFree, drains, delivery
<1>2. ASSUME NEW d \in Drains, MarkFails(d) PROVE IInv'
  <2>1. Shape' /\ MarkingSent' /\ QueuedWasSent' /\ QueuedFree'
    BY <1>2 DEF IInv, Shape, MarkingSent, QueuedWasSent, QueuedFree, MarkFails, outbox
  <2> QED
    BY <1>2, <2>1, SameDelivery DEF IInv, MarkFails, outbox
<1>3. CASE Tick
  <2>1. Shape' /\ MarkingSent' /\ QueuedWasSent' /\ QueuedFree'
    BY <1>3 DEF IInv, Shape, MarkingSent, QueuedWasSent, QueuedFree, Tick, drains
  <2> QED
    BY <1>3, <2>1, SameDelivery DEF IInv, Tick
<1>4. CASE UNCHANGED vars
  BY <1>4
  DEF vars, outbox, drains, delivery, IInv, Shape, MarkingSent, SentSomewhere,
      GoneSomewhere, Somewhere, QueuedWasSent, QueuedFree
<1> QED
  BY <1>1, <1>2, <1>3, <1>4, ClaimInv, SendInv, SendFailsInv, MarkInv, ReleaseInv,
     CrashInv, ReplayInv, PruneInv, MessageInv
  DEF Next

\* A row is marked queued only if the queue took it after its last replay.
THEOREM QueuedAlwaysSent == Spec => []QueuedWasSent
<1>1. IInv => QueuedWasSent
  BY DEF IInv
<1> QED
  BY InitInv, NextInv, <1>1, PTL DEF Spec

\* No committed event is ever nowhere, whatever crashes, fails or is pruned.
THEOREM NothingEverLost == Spec => []NothingLost
<1>1. IInv => NothingLost
  BY DEF IInv, NothingLost, SentSomewhere, GoneSomewhere, QueuedWasSent, Somewhere
<1> QED
  BY InitInv, NextInv, <1>1, PTL DEF Spec

\* A drain that comes back late takes no row from the one that followed it.
THEOREM ClaimsAlwaysRespected == Spec => ClaimsRespected
<1> DEFINE A == \A e \in Events : \A d \in Drains :
                  token[e] = d /\ token'[e] # d =>
                      pc'[d] # pc[d] \/ lease[e] = 0 \/ replays'[e] # replays[e]
<1>1. IInv /\ [Next]_vars => [A]_vars
  <2> SUFFICES ASSUME IInv, Next, NEW e \in Events, NEW d \in Drains,
                      token[e] = d, token'[e] # d, lease[e] # 0
               PROVE  pc'[d] # pc[d] \/ replays'[e] # replays[e]
    BY DEF vars
  <2>1. ASSUME NEW c \in Drains, Claim(c) PROVE FALSE
    <3>1. e \notin FirstOf({f \in Events : Due(f)}, ClaimLimit)
      BY NoDrainAssumption DEF FirstOf, Due
    <3> QED
      BY <2>1, <3>1 DEF Claim
  <2>2. ASSUME NEW c \in Drains, Mark(c) PROVE pc'[d] # pc[d]
    <3>1. c = d
      BY <2>2 DEF Mark, StillMine
    <3> QED
      BY <2>2, <3>1 DEF Mark, IInv, Shape
  <2>3. ASSUME NEW c \in Drains, Release(c) PROVE pc'[d] # pc[d]
    <3>1. c = d
      BY <2>3 DEF Release, StillMine
    <3> QED
      BY <2>3, <3>1 DEF Release, Forget, IInv, Shape
  <2>4. ASSUME NEW f \in Events, Replay(f) PROVE replays'[e] # replays[e]
    BY <2>4 DEF Replay, IInv, Shape
  <2>5. ASSUME NEW f \in Events, Prune(f) PROVE FALSE
    BY <2>5, NoDrainAssumption DEF Prune, Prunable, IInv, Shape, QueuedFree
  <2> QED
    BY <2>1, <2>2, <2>3, <2>4, <2>5
    DEF Next, Append, MarkFails, Crash, SendBatch, SendBatchFails, Deliver, Retry, Tick, outbox
<1> QED
  BY InitInv, NextInv, <1>1, PTL DEF Spec, ClaimsRespected

-----------------------------------------------------------------------------
(* Types and limits                                                        *)

\* Max is only ever taken of numbers up to a bound, of which one is the largest.
LEMMA MaxTyped ==
    ASSUME NEW N \in Nat, NEW S \in SUBSET (0..N), S # {}
    PROVE  Max(S) \in S
<1> DEFINE R == {p \in Nat \X Nat : p[1] < p[2]}
           T == {N - x : x \in S}
<1>1. IsWellFoundedOn(R, Nat)
  BY NatLessThanWellFounded DEF OpToRel
<1>2. T \subseteq Nat /\ T # {}
  <2>1. \A x \in S : N - x \in Nat
    OBVIOUS
  <2> QED
    BY <2>1
<1>3. PICK t \in T : \A y \in T : ~ (<<y, t>> \in R)
  <2> HIDE DEF R, T
  <2> QED
    BY <1>1, <1>2, WFMin
<1>4. \A y \in T : t <= y
  <2> SUFFICES ASSUME NEW y \in T PROVE t <= y
    OBVIOUS
  <2>1. y \in Nat /\ t \in Nat
    BY <1>2
  <2>2. ~ (y < t)
    BY <1>3, <2>1
  <2> QED
    BY <2>1, <2>2
<1>5. PICK x \in S : t = N - x
  OBVIOUS
<1>6. \A y \in S : x >= y
  <2> SUFFICES ASSUME NEW y \in S PROVE x >= y
    OBVIOUS
  <2>1. t <= N - y
    BY <1>4
  <2> QED
    BY <1>5, <2>1
<1> QED
  BY <1>6 DEF Max

\* ORDER BY "id" LIMIT n selects at most n rows: the rank of a row, the number of
\* rows before it, is its own.
LEMMA FirstOfBounded ==
    ASSUME NEW S \in SUBSET Nat, IsFiniteSet(S), NEW n \in Nat
    PROVE  FirstOf(S, n) \subseteq S /\ Cardinality(FirstOf(S, n)) <= n
<1> DEFINE before(e) == {f \in S : f < e}
           F == FirstOf(S, n)
           rank == [e \in F |-> Cardinality(before(e))]
<1>1. F \subseteq S
  BY DEF FirstOf
<1>2. \A e \in S : IsFiniteSet(before(e)) /\ Cardinality(before(e)) \in Nat
  <2> SUFFICES ASSUME NEW e \in S PROVE IsFiniteSet(before(e)) /\ Cardinality(before(e)) \in Nat
    OBVIOUS
  <2>1. before(e) \in SUBSET S
    OBVIOUS
  <2>2. IsFiniteSet(before(e))
    BY <2>1, FS_Subset
  <2> QED
    BY <2>2, FS_CardinalityType
<1>3. ASSUME NEW e \in S, NEW f \in S, e < f
      PROVE  Cardinality(before(e)) < Cardinality(before(f))
  <2>0. \A x \in S : x < e => x < f
    BY <1>3
  <2>1. before(e) \in SUBSET before(f)
    BY <2>0
  <2>2. e \in before(f) /\ e \notin before(e)
    BY <1>3
  <2> HIDE DEF before
  <2>3. /\ Cardinality(before(e)) <= Cardinality(before(f))
        /\ Cardinality(before(e)) # Cardinality(before(f))
    BY <1>2, <2>1, <2>2, FS_Subset
  <2> QED
    BY <1>2, <2>3
<1>4. \A e \in F : Cardinality(before(e)) \in 0..(n - 1)
  BY <1>1, <1>2 DEF FirstOf
<1>5. rank \in [F -> 0..(n - 1)]
  BY <1>4
<1>6. \A e, f \in F : e # f => rank[e] # rank[f]
  <2> SUFFICES ASSUME NEW e \in F, NEW f \in F, e # f PROVE rank[e] # rank[f]
    OBVIOUS
  <2>1. e \in Nat /\ f \in Nat /\ e \in S /\ f \in S
    BY <1>1
  <2>2. rank[e] = Cardinality(before(e)) /\ rank[f] = Cardinality(before(f))
    OBVIOUS
  <2>3. Cardinality(before(e)) # Cardinality(before(f))
    <3> HIDE DEF before
    <3> QED
      BY <1>2, <1>3, <2>1
  <2> QED
    BY <2>2, <2>3
<1>7. rank \in Injection(F, 0..(n - 1))
  <2> HIDE DEF rank, F
  <2> QED
    BY <1>5, <1>6, Fun_IsInj
<1>8. IsFiniteSet(0..(n - 1)) /\ Cardinality(0..(n - 1)) = n
  BY FS_Interval
<1>9. Cardinality(F) <= n
  <2> HIDE DEF rank, F
  <2> QED
    BY <1>7, <1>8, FS_Injection
<1> QED
  BY <1>1, <1>9

\* The parts of TypeOK.
RowsTyped ==
    /\ rows \subseteq Events /\ queued \subseteq rows
    /\ committed \subseteq Events /\ sent \subseteq Events
    /\ token \in [Events -> Drains \cup {NoDrain}]
    /\ lease \in [Events -> 0..LeaseTicks]
    /\ wait \in [Events -> 0..MaxDelay]
    /\ attempts \in [Events -> 0..MaxDelay]
    /\ replays \in [Events -> 0..MaxReplays]

HoldTyped(d) ==
    /\ DOMAIN left[d] \subseteq Events
    /\ \A e \in DOMAIN left[d] : left[d][e] \in 1..MaxDelay
    /\ batch[d] \subseteq DOMAIN left[d]
    /\ Cardinality(DOMAIN left[d]) <= ClaimLimit /\ Cardinality(batch[d]) <= BatchRows

MessagesTyped ==
    /\ queue \subseteq [event : Events, tries : 0..MaxRetries]
    /\ dead \subseteq Events /\ received \subseteq Events

\* A drain has a batch only while it is about to mark it.
BatchMarked == \A d \in Drains : pc[d] # "marking" => batch[d] = {}

LEMMA TypeParts ==
    TypeOK <=> /\ RowsTyped /\ MessagesTyped
               /\ pc \in [Drains -> {"idle", "sending", "marking", "releasing"}]
               /\ \A d \in Drains : HoldTyped(d)
               /\ faults \in 0..MaxFaults
BY DEF TypeOK, RowsTyped, MessagesTyped, HoldTyped

TInv == TypeOK /\ BatchMarked

LEMMA InitTyped == Init => TInv
<1> SUFFICES ASSUME Init PROVE TInv
  OBVIOUS
<1>1. RowsTyped /\ MessagesTyped /\ faults \in 0..MaxFaults /\ BatchMarked
  BY BoundsAssumption, LimitsAssumption DEF Init, RowsTyped, MessagesTyped, BatchMarked
<1>2. ASSUME NEW d \in Drains PROVE HoldTyped(d)
  <2>1. DOMAIN left[d] = {} /\ batch[d] = {}
    BY DEF Init, NoRows
  <2> QED
    BY <2>1, LimitsAssumption, FS_EmptySet DEF HoldTyped
<1>3. pc \in [Drains -> {"idle", "sending", "marking", "releasing"}]
  BY DEF Init
<1> QED
  BY <1>1, <1>2, <1>3, TypeParts DEF TInv

LEMMA PartsStep ==
    ASSUME IInv', RowsTyped', MessagesTyped', faults' \in 0..MaxFaults, BatchMarked',
           \A d \in Drains : HoldTyped(d)'
    PROVE  TInv'
<1>1. pc' \in [Drains -> {"idle", "sending", "marking", "releasing"}]
  BY DEF IInv, Shape
<1>2. TypeOK'
  BY <1>1 DEF TypeOK, RowsTyped, MessagesTyped, HoldTyped
<1> QED
  BY <1>2 DEF TInv

LEMMA FaultTyped == TypeOK /\ Fault => faults' \in 0..MaxFaults
BY BoundsAssumption DEF TypeOK, Fault

\* What a drain claims is a sorted prefix of the due rows.
LEMMA ClaimBounded ==
    LET mine == FirstOf({e \in Events : Due(e)}, ClaimLimit)
    IN  mine \subseteq Events /\ Cardinality(mine) <= ClaimLimit
<1> DEFINE due == {e \in Events : Due(e)}
<1>1. due \in SUBSET Events
  OBVIOUS
<1>2. due \in SUBSET Nat /\ IsFiniteSet(due)
  <2> HIDE DEF due
  <2> QED
    BY <1>1, EventsOrdered, FS_Subset
<1>3. ClaimLimit \in Nat
  BY LimitsAssumption
<1>4. FirstOf(due, ClaimLimit) \subseteq due /\ Cardinality(FirstOf(due, ClaimLimit)) <= ClaimLimit
  <2> HIDE DEF due
  <2> QED
    BY <1>2, <1>3, FirstOfBounded
<1> QED
  BY <1>1, <1>4

LEMMA ClaimTyped ==
    ASSUME IInv, IInv', TInv, NEW d \in Drains, Claim(d)
    PROVE  TInv'
<1> DEFINE mine == FirstOf({e \in Events : Due(e)}, ClaimLimit)
           tried(e) == IF attempts[e] < MaxDelay THEN attempts[e] + 1 ELSE MaxDelay
<1>1. /\ token' = [e \in Events |-> IF e \in mine THEN d ELSE token[e]]
      /\ lease' = [e \in Events |-> IF e \in mine THEN LeaseTicks ELSE lease[e]]
      /\ attempts' = [e \in Events |-> IF e \in mine THEN tried(e) ELSE attempts[e]]
      /\ left' = [left EXCEPT ![d] = [e \in mine |-> tried(e)]]
      /\ UNCHANGED <<rows, queued, wait, replays, committed, batch, delivery, sent, faults>>
      /\ pc[d] = "idle" /\ pc' = [pc EXCEPT ![d] = "sending"]
  BY DEF Claim
<1>2. mine \subseteq Events /\ Cardinality(mine) <= ClaimLimit
  BY ClaimBounded
<1>3. LeaseTicks \in 0..LeaseTicks /\ MaxDelay \in Nat \ {0}
  BY LimitsAssumption
<1>4. \A e \in Events : tried(e) \in 1..MaxDelay
  BY <1>3 DEF TInv, TypeOK
<1> HIDE DEF mine, tried
<1>5. RowsTyped'
  <2>1. token' \in [Events -> Drains \cup {NoDrain}]
    BY <1>1 DEF TInv, TypeOK
  <2>2. lease' \in [Events -> 0..LeaseTicks]
    BY <1>1, <1>3 DEF TInv, TypeOK
  <2>3. attempts' \in [Events -> 0..MaxDelay]
    <3>1. \A e \in Events : tried(e) \in 0..MaxDelay
      BY <1>4
    <3> QED
      BY <1>1, <3>1 DEF TInv, TypeOK
  <2> QED
    BY <1>1, <2>1, <2>2, <2>3 DEF TInv, TypeOK, RowsTyped
<1>6. MessagesTyped' /\ faults' \in 0..MaxFaults
  BY <1>1 DEF TInv, TypeOK, MessagesTyped, delivery
<1>7. BatchMarked' /\ batch[d] = {}
  BY <1>1 DEF TInv, BatchMarked, IInv, Shape
<1>8. ASSUME NEW c \in Drains PROVE HoldTyped(c)'
  <2>1. CASE c = d
    <3>1. left'[c] = [e \in mine |-> tried(e)]
      BY <1>1, <2>1 DEF IInv, Shape
    <3>2. DOMAIN left'[c] = mine /\ \A e \in mine : left'[c][e] = tried(e)
      BY <3>1
    <3>3. batch'[c] = {}
      BY <1>1, <1>7, <2>1
    <3>4. Cardinality({}) <= BatchRows
      BY LimitsAssumption, FS_EmptySet
    <3> QED
      BY <1>2, <1>4, <3>2, <3>3, <3>4 DEF HoldTyped
  <2>2. CASE c # d
    <3>1. left'[c] = left[c] /\ batch'[c] = batch[c]
      BY <1>1, <2>2 DEF IInv, Shape
    <3> QED
      BY <3>1, TypeParts DEF TInv, HoldTyped
  <2> QED
    BY <2>1, <2>2
<1> QED
  BY <1>5, <1>6, <1>7, <1>8, PartsStep

\* What the queue takes are events that were never tried.
LEMMA AcceptTyped ==
    ASSUME TypeOK, NEW B, B \subseteq Events, Accept(B)
    PROVE  MessagesTyped' /\ sent' \subseteq Events
<1>1. \A e \in B : [event |-> e, tries |-> 0] \in [event : Events, tries : 0..MaxRetries]
  BY BoundsAssumption
<1>2. {[event |-> e, tries |-> 0] : e \in B} \subseteq [event : Events, tries : 0..MaxRetries]
  BY <1>1
<1> QED
  BY <1>2 DEF TypeOK, Accept, MessagesTyped

LEMMA BatchBounded ==
    ASSUME TypeOK, NEW d \in Drains, NEW B \in NextBatches(d)
    PROVE  B \subseteq DOMAIN left[d] /\ B \subseteq Events /\ Cardinality(B) <= BatchRows
<1>1. PICK n \in 1..BatchRows : B = FirstOf(DOMAIN left[d], n)
  BY DEF NextBatches
<1>2. DOMAIN left[d] \in SUBSET Events
  BY DEF TypeOK
<1>3. DOMAIN left[d] \in SUBSET Nat /\ IsFiniteSet(DOMAIN left[d])
  BY <1>2, EventsOrdered, FS_Subset
<1>4. n \in Nat /\ n <= BatchRows /\ BatchRows \in Nat
  BY LimitsAssumption
<1>5. B \subseteq DOMAIN left[d] /\ Cardinality(B) <= n
  BY <1>1, <1>3, <1>4, FirstOfBounded
<1>6. Cardinality(B) \in Nat
  <2>1. B \in SUBSET DOMAIN left[d]
    BY <1>5
  <2>2. IsFiniteSet(B)
    BY <1>3, <2>1, FS_Subset
  <2> QED
    BY <2>2, FS_CardinalityType
<1> QED
  BY <1>2, <1>4, <1>5, <1>6

LEMMA SendTyped ==
    ASSUME IInv, IInv', TInv, NEW d \in Drains, NEW B \in NextBatches(d), SendBatch(d, B)
    PROVE  TInv'
<1>1. B \subseteq DOMAIN left[d] /\ B \subseteq Events /\ Cardinality(B) <= BatchRows
  BY BatchBounded DEF TInv
<1>2. MessagesTyped' /\ sent' \subseteq Events
  BY <1>1, AcceptTyped DEF SendBatch, TInv
<1>3. RowsTyped' /\ faults' \in 0..MaxFaults
  BY <1>2 DEF TInv, TypeOK, RowsTyped, SendBatch, outbox
<1>4. /\ batch'[d] = B /\ pc'[d] = "marking"
      /\ \A c \in Drains \ {d} : batch'[c] = batch[c] /\ pc'[c] = pc[c]
      /\ left' = left
  BY DEF SendBatch, IInv, Shape
<1>5. BatchMarked'
  BY <1>4 DEF TInv, BatchMarked
<1>6. \A c \in Drains : HoldTyped(c)'
  BY <1>1, <1>4, TypeParts DEF TInv, HoldTyped
<1> QED
  BY <1>2, <1>3, <1>5, <1>6, PartsStep

LEMMA SendFailsTyped ==
    ASSUME IInv, IInv', TInv, NEW d \in Drains, NEW B \in NextBatches(d), SendBatchFails(d, B)
    PROVE  TInv'
<1>1. B \subseteq Events
  BY BatchBounded DEF TInv
<1>2. MessagesTyped' /\ sent' \subseteq Events
  BY <1>1, AcceptTyped DEF SendBatchFails, TInv, TypeOK, MessagesTyped, delivery
<1>3. RowsTyped' /\ faults' \in 0..MaxFaults
  BY <1>2, FaultTyped DEF TInv, TypeOK, RowsTyped, SendBatchFails, outbox
<1>4. /\ pc[d] = "sending"
      /\ \A c \in Drains \ {d} : pc'[c] = pc[c]
      /\ left' = left /\ batch' = batch
  BY DEF SendBatchFails, IInv, Shape
<1>5. BatchMarked'
  BY <1>4 DEF TInv, BatchMarked
<1>6. \A c \in Drains : HoldTyped(c)'
  BY <1>4, TypeParts DEF TInv, HoldTyped
<1> QED
  BY <1>2, <1>3, <1>5, <1>6, PartsStep

\* A drain that forgets what it holds.
LEMMA ForgetTyped ==
    ASSUME IInv, TInv, NEW d \in Drains, Forget(d)
    PROVE  BatchMarked' /\ \A c \in Drains : HoldTyped(c)'
<1>1. /\ DOMAIN left'[d] = {} /\ batch'[d] = {}
      /\ \A c \in Drains \ {d} : left'[c] = left[c] /\ batch'[c] = batch[c] /\ pc'[c] = pc[c]
  BY DEF Forget, NoRows, IInv, Shape
<1>2. Cardinality({}) <= BatchRows /\ Cardinality({}) <= ClaimLimit
  BY LimitsAssumption, FS_EmptySet
<1>3. HoldTyped(d)'
  BY <1>1, <1>2 DEF HoldTyped
<1>4. ASSUME NEW c \in Drains \ {d} PROVE HoldTyped(c)'
  BY <1>1, TypeParts DEF TInv, HoldTyped
<1>5. BatchMarked'
  BY <1>1 DEF TInv, BatchMarked
<1> QED
  BY <1>3, <1>4, <1>5

LEMMA MarkTyped ==
    ASSUME IInv, IInv', TInv, NEW d \in Drains, Mark(d)
    PROVE  TInv'
<1> DEFINE marked == StillMine(d, batch[d])
           rest == DOMAIN left[d] \ batch[d]
<1>1. /\ queued' = queued \cup marked
      /\ token' = [e \in Events |-> IF e \in marked THEN NoDrain ELSE token[e]]
      /\ lease' = [e \in Events |-> IF e \in marked THEN 0 ELSE lease[e]]
      /\ left' = [left EXCEPT ![d] = [e \in rest |-> left[d][e]]]
      /\ batch' = [batch EXCEPT ![d] = {}]
      /\ \A c \in Drains \ {d} : pc'[c] = pc[c]
      /\ UNCHANGED <<rows, wait, attempts, replays, committed, delivery, sent, faults>>
  BY DEF Mark, IInv, Shape
<1>2. marked \subseteq rows /\ rest \subseteq DOMAIN left[d]
  BY DEF StillMine
<1>3. Cardinality(rest) <= ClaimLimit
  <2>1. DOMAIN left[d] \in SUBSET Events /\ Cardinality(DOMAIN left[d]) <= ClaimLimit
    BY DEF TInv, TypeOK
  <2>2. IsFiniteSet(DOMAIN left[d])
    BY <2>1, EventsOrdered, FS_Subset
  <2>3. IsFiniteSet(rest) /\ Cardinality(rest) <= Cardinality(DOMAIN left[d])
    BY <2>2, FS_Subset
  <2>4. Cardinality(rest) \in Nat /\ Cardinality(DOMAIN left[d]) \in Nat /\ ClaimLimit \in Nat
    BY <2>2, <2>3, FS_CardinalityType, LimitsAssumption
  <2> QED
    BY <2>1, <2>3, <2>4
<1> HIDE DEF marked, rest
<1>4. RowsTyped'
  <2>1. token' \in [Events -> Drains \cup {NoDrain}]
    BY <1>1 DEF TInv, TypeOK
  <2>2. lease' \in [Events -> 0..LeaseTicks]
    BY <1>1, LimitsAssumption DEF TInv, TypeOK
  <2> QED
    BY <1>1, <1>2, <2>1, <2>2 DEF TInv, TypeOK, RowsTyped
<1>5. MessagesTyped' /\ faults' \in 0..MaxFaults
  BY <1>1 DEF TInv, TypeOK, MessagesTyped, delivery
<1>6. BatchMarked'
  BY <1>1 DEF TInv, BatchMarked, IInv, Shape
<1>7. ASSUME NEW c \in Drains PROVE HoldTyped(c)'
  <2>1. CASE c = d
    <3>1. left'[c] = [e \in rest |-> left[d][e]] /\ batch'[c] = {}
      BY <1>1, <2>1 DEF IInv, Shape
    <3>2. DOMAIN left'[c] = rest /\ \A e \in rest : left'[c][e] = left[d][e]
      BY <3>1
    <3>3. Cardinality({}) <= BatchRows
      BY LimitsAssumption, FS_EmptySet
    <3>4. \A e \in DOMAIN left'[c] : e \in Events /\ left'[c][e] \in 1..MaxDelay
      BY <1>2, <3>2 DEF TInv, TypeOK
    <3> QED
      BY <1>3, <3>1, <3>2, <3>3, <3>4 DEF HoldTyped
  <2>2. CASE c # d
    <3>1. left'[c] = left[c] /\ batch'[c] = batch[c]
      BY <1>1, <2>2 DEF IInv, Shape
    <3> QED
      BY <3>1, TypeParts DEF TInv, HoldTyped
  <2> QED
    BY <2>1, <2>2
<1> QED
  BY <1>4, <1>5, <1>6, <1>7, PartsStep

LEMMA MarkFailsTyped ==
    ASSUME IInv, IInv', TInv, NEW d \in Drains, MarkFails(d)
    PROVE  TInv'
<1>1. /\ batch'[d] = {} /\ left' = left
      /\ \A c \in Drains \ {d} : batch'[c] = batch[c] /\ pc'[c] = pc[c]
  BY DEF MarkFails, IInv, Shape
<1>2. Cardinality({}) <= BatchRows
  BY LimitsAssumption, FS_EmptySet
<1>3. \A c \in Drains : HoldTyped(c)'
  BY <1>1, <1>2, TypeParts DEF TInv, HoldTyped
<1>4. BatchMarked'
  BY <1>1 DEF TInv, BatchMarked
<1>5. RowsTyped' /\ MessagesTyped' /\ faults' \in 0..MaxFaults
  BY FaultTyped DEF MarkFails, TInv, TypeOK, RowsTyped, MessagesTyped, outbox, delivery
<1> QED
  BY <1>3, <1>4, <1>5, PartsStep

\* The backoff of a release is that of one of the rows left.
LEMMA ReleaseTyped ==
    ASSUME IInv, IInv', TInv, NEW d \in Drains, Release(d)
    PROVE  TInv'
<1> DEFINE mine == StillMine(d, DOMAIN left[d])
           tries == {left[d][f] : f \in DOMAIN left[d]}
<1>1. /\ token' = [e \in Events |-> IF e \in mine THEN NoDrain ELSE token[e]]
      /\ lease' = [e \in Events |-> IF e \in mine THEN 0 ELSE lease[e]]
      /\ wait' = [e \in Events |-> IF e \in mine THEN Max(tries) ELSE wait[e]]
      /\ Forget(d)
      /\ UNCHANGED <<rows, queued, attempts, replays, committed, delivery, sent, faults>>
  BY DEF Release
<1>2. \A e \in mine : Max(tries) \in 0..MaxDelay
  <2> SUFFICES ASSUME NEW e \in mine PROVE Max(tries) \in 0..MaxDelay
    OBVIOUS
  <2>1. e \in DOMAIN left[d]
    BY DEF StillMine
  <2>2. tries # {}
    BY <2>1
  <2>3. \A f \in DOMAIN left[d] : left[d][f] \in 0..MaxDelay
    BY DEF TInv, TypeOK
  <2>4. tries \in SUBSET (0..MaxDelay)
    BY <2>3
  <2>5. MaxDelay \in Nat
    BY LimitsAssumption
  <2> HIDE DEF tries
  <2> QED
    BY <2>2, <2>4, <2>5, MaxTyped
<1>3. BatchMarked' /\ \A c \in Drains : HoldTyped(c)'
  BY <1>1, ForgetTyped
<1> HIDE DEF mine, tries
<1>4. RowsTyped'
  <2>1. token' \in [Events -> Drains \cup {NoDrain}]
    BY <1>1 DEF TInv, TypeOK
  <2>2. lease' \in [Events -> 0..LeaseTicks]
    BY <1>1, LimitsAssumption DEF TInv, TypeOK
  <2>3. wait' \in [Events -> 0..MaxDelay]
    BY <1>1, <1>2 DEF TInv, TypeOK
  <2> QED
    BY <1>1, <2>1, <2>2, <2>3 DEF TInv, TypeOK, RowsTyped
<1>5. MessagesTyped' /\ faults' \in 0..MaxFaults
  BY <1>1 DEF TInv, TypeOK, MessagesTyped, delivery
<1> QED
  BY <1>3, <1>4, <1>5, PartsStep

LEMMA CrashTyped ==
    ASSUME IInv, IInv', TInv, NEW d \in Drains, Crash(d)
    PROVE  TInv'
<1>1. BatchMarked' /\ \A c \in Drains : HoldTyped(c)'
  BY ForgetTyped DEF Crash
<1>2. RowsTyped' /\ MessagesTyped' /\ faults' \in 0..MaxFaults
  BY FaultTyped DEF Crash, TInv, TypeOK, RowsTyped, MessagesTyped, outbox, delivery
<1> QED
  BY <1>1, <1>2, PartsStep

\* A step that leaves the drains alone.
LEMMA DrainsStay ==
    ASSUME TInv, UNCHANGED drains
    PROVE  BatchMarked' /\ \A d \in Drains : HoldTyped(d)'
BY TypeParts DEF TInv, BatchMarked, HoldTyped, drains

LEMMA ReplayTyped ==
    ASSUME IInv, IInv', TInv, NEW e \in Events, Replay(e)
    PROVE  TInv'
<1>1. BatchMarked' /\ \A d \in Drains : HoldTyped(d)'
  BY DrainsStay DEF Replay
<1>2. replays' \in [Events -> 0..MaxReplays]
  BY BoundsAssumption DEF Replay, TInv, TypeOK
<1>3. lease' \in [Events -> 0..LeaseTicks] /\ wait' \in [Events -> 0..MaxDelay]
  BY LimitsAssumption DEF Replay, TInv, TypeOK
<1>4. attempts' \in [Events -> 0..MaxDelay] /\ token' \in [Events -> Drains \cup {NoDrain}]
  BY LimitsAssumption DEF Replay, TInv, TypeOK
<1>5. RowsTyped' /\ MessagesTyped' /\ faults' \in 0..MaxFaults
  BY <1>2, <1>3, <1>4 DEF Replay, TInv, TypeOK, RowsTyped, MessagesTyped, delivery
<1> QED
  BY <1>1, <1>5, PartsStep

LEMMA PruneTyped ==
    ASSUME IInv, IInv', TInv, NEW e \in Events, Prune(e)
    PROVE  TInv'
<1>1. BatchMarked' /\ \A d \in Drains : HoldTyped(d)'
  BY DrainsStay DEF Prune
<1>2. lease' \in [Events -> 0..LeaseTicks] /\ token' \in [Events -> Drains \cup {NoDrain}]
  BY LimitsAssumption DEF Prune, TInv, TypeOK
<1>3. RowsTyped' /\ MessagesTyped' /\ faults' \in 0..MaxFaults
  BY <1>2 DEF Prune, TInv, TypeOK, RowsTyped, MessagesTyped, delivery
<1> QED
  BY <1>1, <1>3, PartsStep

LEMMA TickTyped ==
    ASSUME IInv, IInv', TInv, Tick
    PROVE  TInv'
<1>1. BatchMarked' /\ \A d \in Drains : HoldTyped(d)'
  BY DrainsStay DEF Tick
<1>2. lease' \in [Events -> 0..LeaseTicks]
  <2>1. \A e \in Events : (IF lease[e] > 0 THEN lease[e] - 1 ELSE 0) \in 0..LeaseTicks
    BY LimitsAssumption DEF TInv, TypeOK
  <2> QED
    BY <2>1 DEF Tick
<1>3. wait' \in [Events -> 0..MaxDelay]
  <2>1. \A e \in Events : (IF wait[e] > 0 THEN wait[e] - 1 ELSE 0) \in 0..MaxDelay
    BY LimitsAssumption DEF TInv, TypeOK
  <2> QED
    BY <2>1 DEF Tick
<1>4. RowsTyped' /\ MessagesTyped' /\ faults' \in 0..MaxFaults
  BY <1>2, <1>3 DEF Tick, TInv, TypeOK, RowsTyped, MessagesTyped, delivery
<1> QED
  BY <1>1, <1>4, PartsStep

LEMMA MessageTyped ==
    ASSUME IInv, IInv', TInv, NEW m \in queue, Deliver(m) \/ Retry(m)
    PROVE  TInv'
<1>1. BatchMarked' /\ \A d \in Drains : HoldTyped(d)'
  BY DrainsStay DEF Deliver, Retry
<1>2. m \in [event : Events, tries : 0..MaxRetries] /\ MaxRetries \in Nat
  BY BoundsAssumption DEF TInv, TypeOK
<1>3. received' \subseteq Events /\ dead' \subseteq Events
  BY <1>2 DEF Deliver, Retry, TInv, TypeOK
<1>4. queue' \subseteq [event : Events, tries : 0..MaxRetries]
  <2>1. m.tries < MaxRetries =>
          [m EXCEPT !.tries = @ + 1] \in [event : Events, tries : 0..MaxRetries]
    BY <1>2
  <2> QED
    BY <2>1 DEF Deliver, Retry, TInv, TypeOK
<1>5. RowsTyped' /\ faults' \in 0..MaxFaults
  BY FaultTyped DEF Deliver, Retry, TInv, TypeOK, RowsTyped, outbox
<1>6. MessagesTyped'
  BY <1>3, <1>4 DEF MessagesTyped
<1> QED
  BY <1>1, <1>5, <1>6, PartsStep

LEMMA NextTyped == IInv /\ IInv' /\ TInv /\ [Next]_vars => TInv'
<1> SUFFICES ASSUME IInv, IInv', TInv, [Next]_vars PROVE TInv'
  OBVIOUS
<1>1. ASSUME NEW e \in Events, Append(e) PROVE TInv'
  <2>1. BatchMarked' /\ \A d \in Drains : HoldTyped(d)'
    BY <1>1, DrainsStay DEF Append
  <2>2. RowsTyped' /\ MessagesTyped' /\ faults' \in 0..MaxFaults
    BY <1>1 DEF Append, TInv, TypeOK, RowsTyped, MessagesTyped, delivery
  <2> QED
    BY <2>1, <2>2, PartsStep
<1>2. CASE UNCHANGED vars
  <2>1. BatchMarked' /\ \A d \in Drains : HoldTyped(d)'
    BY <1>2, DrainsStay DEF vars
  <2>2. RowsTyped' /\ MessagesTyped' /\ faults' \in 0..MaxFaults
    BY <1>2 DEF vars, outbox, delivery, TInv, TypeOK, RowsTyped, MessagesTyped
  <2> QED
    BY <2>1, <2>2, PartsStep
<1> QED
  BY <1>1, <1>2, ClaimTyped, SendTyped, SendFailsTyped, MarkTyped, MarkFailsTyped, ReleaseTyped,
     CrashTyped, ReplayTyped, PruneTyped, TickTyped, MessageTyped
  DEF Next

\* The type invariant, with the limits of the code: a claim locks no more rows
\* than OUTBOX_CLAIM_LIMIT, a batch is no larger than the queue takes, and no
\* backoff exceeds its cap.
THEOREM TypeCorrect == Spec => []TypeOK
<1>1. TInv => TypeOK
  BY DEF TInv
<1> QED
  BY InitInv, NextInv, InitTyped, NextTyped, <1>1, PTL DEF Spec
=============================================================================
