-------------------------- MODULE DeliveryQueueProofs --------------------------
(***************************************************************************)
(* Proofs about DeliveryQueue, for any messages, retries and faults: an id *)
(* is recorded, and a request answers with success, only after the         *)
(* provider took the message; and whoever sends a message once more has    *)
(* been paid for by a fault.                                               *)
(***************************************************************************)
EXTENDS DeliveryQueue, FiniteSetTheorems, TLAPS

\* A message in the queue has a try left; one in the consumer's hands is tried.
TriesLeft ==
    \A m \in Messages :
        /\ queue[m] \in {"none", "waiting", "delayed"} => attempts[m] <= MaxRetries
        /\ queue[m] \in {"held", "acked"} => attempts[m] > 0

\* What a request or the KV says was delivered, was.
SuccessWasSent ==
    \A m \in Messages :
        /\ m \in recorded => sends[m] > 0
        /\ \A n \in Tries : request[m][n] \in {"marking", "duplicate", "done"} => sends[m] > 0

IInv == TypeOK /\ TriesLeft /\ SuccessWasSent /\ AckedWasSent

-----------------------------------------------------------------------------
LEMMA InitInv == Init => IInv
BY BoundsAssumption DEF Init, IInv, TypeOK, TriesLeft, SuccessWasSent, AckedWasSent, Tries, Running

\* A step of one request, to s: the other requests stay as they are.
LEMMA BecomesTyped ==
    ASSUME IInv, NEW m \in Messages, NEW n \in Tries,
           NEW s \in Running \cup {"none", "duplicate", "done", "failed", "gone"},
           Becomes(m, n, s)
    PROVE  /\ request' \in [Messages ->
                 [Tries -> Running \cup {"none", "duplicate", "done", "failed", "gone"}]]
           /\ \A k \in Messages : \A j \in Tries :
                \/ k = m /\ j = n /\ request'[k][j] = s
                \/ request'[k][j] = request[k][j]
BY DEF IInv, TypeOK, Becomes

LEMMA CheckInv ==
    ASSUME IInv, NEW m \in Messages, NEW n \in Tries, Check(m, n)
    PROVE  IInv'
<1>1. UNCHANGED <<ready, queue, attempts, calling, recorded, sends>> /\ faults' \in 0..MaxFaults
  BY BoundsAssumption DEF Check, Fault, IInv, TypeOK
<1>2. PICK s \in {"duplicate", "resolving", "failed"} :
          Becomes(m, n, s) /\ (s = "duplicate" => m \in recorded)
  BY DEF Check, Duplicate
<1>3. /\ request' \in [Messages ->
             [Tries -> Running \cup {"none", "duplicate", "done", "failed", "gone"}]]
      /\ \A k \in Messages : \A j \in Tries :
           \/ k = m /\ j = n /\ request'[k][j] = s
           \/ request'[k][j] = request[k][j]
  BY <1>2, BecomesTyped DEF Running
<1> QED
  BY <1>1, <1>2, <1>3 DEF IInv, TypeOK, TriesLeft, SuccessWasSent, AckedWasSent

LEMMA ResolveInv ==
    ASSUME IInv, NEW m \in Messages, NEW n \in Tries, Resolve(m, n)
    PROVE  IInv'
<1>1. UNCHANGED <<ready, queue, attempts, calling, recorded, sends, faults>>
  BY DEF Resolve
<1>2. PICK s \in {"sending", "failed"} : Becomes(m, n, s)
  BY DEF Resolve
<1>3. /\ request' \in [Messages ->
             [Tries -> Running \cup {"none", "duplicate", "done", "failed", "gone"}]]
      /\ \A k \in Messages : \A j \in Tries :
           \/ k = m /\ j = n /\ request'[k][j] = s
           \/ request'[k][j] = request[k][j]
  BY <1>2, BecomesTyped DEF Running
<1> QED
  BY <1>1, <1>2, <1>3 DEF IInv, TypeOK, TriesLeft, SuccessWasSent, AckedWasSent

LEMMA DispatchInv ==
    ASSUME IInv, NEW m \in Messages, NEW n \in Tries, Dispatch(m, n)
    PROVE  IInv'
<1>1. UNCHANGED <<ready, queue, attempts, calling, recorded>> /\ faults' \in 0..MaxFaults
  BY BoundsAssumption DEF Dispatch, Fault, IInv, TypeOK
<1>2. PICK s \in {"marking", "failed"} :
          Becomes(m, n, s) /\ (s = "marking" => sends' = [sends EXCEPT ![m] = @ + 1])
  BY DEF Dispatch
<1>3. sends' \in [Messages -> Nat] /\ \A k \in Messages : sends'[k] >= sends[k]
  <2>1. sends \in [Messages -> Nat]
    BY DEF IInv, TypeOK
  <2>2. sends' = sends \/ sends' = [sends EXCEPT ![m] = sends[m] + 1]
    BY DEF Dispatch
  <2> QED BY <2>1, <2>2
<1>4. s = "marking" => sends'[m] > 0
  BY <1>2 DEF IInv, TypeOK
<1>5. /\ request' \in [Messages ->
             [Tries -> Running \cup {"none", "duplicate", "done", "failed", "gone"}]]
      /\ \A k \in Messages : \A j \in Tries :
           \/ k = m /\ j = n /\ request'[k][j] = s
           \/ request'[k][j] = request[k][j]
  BY <1>2, BecomesTyped DEF Running
<1>6. TypeOK' /\ TriesLeft'
  BY <1>1, <1>3, <1>5 DEF IInv, TypeOK, TriesLeft
<1>7. AckedWasSent'
  BY <1>1, <1>3 DEF IInv, TypeOK, AckedWasSent
<1>8. SuccessWasSent'
  BY <1>1, <1>2, <1>3, <1>4, <1>5 DEF IInv, TypeOK, SuccessWasSent
<1> QED
  BY <1>6, <1>7, <1>8 DEF IInv

LEMMA MarkInv ==
    ASSUME IInv, NEW m \in Messages, NEW n \in Tries, MarkDelivered(m, n)
    PROVE  IInv'
<1>1. /\ UNCHANGED <<ready, queue, attempts, calling, sends>> /\ faults' \in 0..MaxFaults
      /\ recorded' \subseteq recorded \cup {m}
      /\ sends[m] > 0
  BY BoundsAssumption DEF MarkDelivered, Fault, IInv, TypeOK, SuccessWasSent
<1>2. PICK s \in {"done", "failed"} : Becomes(m, n, s)
  BY DEF MarkDelivered
<1>3. /\ request' \in [Messages ->
             [Tries -> Running \cup {"none", "duplicate", "done", "failed", "gone"}]]
      /\ \A k \in Messages : \A j \in Tries :
           \/ k = m /\ j = n /\ request'[k][j] = s
           \/ request'[k][j] = request[k][j]
  BY <1>2, BecomesTyped DEF Running
<1> QED
  BY <1>1, <1>3 DEF IInv, TypeOK, TriesLeft, SuccessWasSent, AckedWasSent

LEMMA VanishInv ==
    ASSUME IInv, NEW m \in Messages, NEW n \in Tries, Vanish(m, n)
    PROVE  IInv'
<1>1. UNCHANGED <<ready, queue, attempts, calling, recorded, sends>> /\ faults' \in 0..MaxFaults
  BY BoundsAssumption DEF Vanish, Fault, IInv, TypeOK
<1>2. /\ request' \in [Messages ->
             [Tries -> Running \cup {"none", "duplicate", "done", "failed", "gone"}]]
      /\ \A k \in Messages : \A j \in Tries :
           \/ k = m /\ j = n /\ request'[k][j] = "gone"
           \/ request'[k][j] = request[k][j]
  BY BecomesTyped DEF Vanish
<1> QED
  BY <1>1, <1>2 DEF IInv, TypeOK, TriesLeft, SuccessWasSent, AckedWasSent

LEMMA PostInv ==
    ASSUME IInv, NEW m \in Messages, Post(m)
    PROVE  IInv'
<1>1. attempts[m] + 1 \in Tries
  BY BoundsAssumption DEF Post, IInv, TypeOK, TriesLeft, Tries
<1>2. /\ request' \in [Messages ->
             [Tries -> Running \cup {"none", "duplicate", "done", "failed", "gone"}]]
      /\ \A k \in Messages : \A j \in Tries :
           \/ k = m /\ j = attempts[m] + 1 /\ request'[k][j] = "checking"
           \/ request'[k][j] = request[k][j]
  BY <1>1, BecomesTyped DEF Post, Running
<1>3. TypeOK'
  <2>1. attempts' \in [Messages -> 0..(MaxRetries + 1)]
    <3>1. attempts[m] + 1 \in 0..(MaxRetries + 1)
      BY <1>1, BoundsAssumption DEF Tries
    <3> QED
      BY <3>1 DEF Post, IInv, TypeOK
  <2>2. queue' \in [Messages -> {"none", "waiting", "held", "delayed", "acked", "dead"}]
    BY DEF Post, IInv, TypeOK
  <2> QED
    BY <1>2, <2>1, <2>2 DEF Post, IInv, TypeOK
<1>4. TriesLeft'
  BY <1>1 DEF Post, IInv, TypeOK, TriesLeft, Tries
<1>5. SuccessWasSent' /\ AckedWasSent'
  BY <1>2 DEF Post, IInv, TypeOK, SuccessWasSent, AckedWasSent
<1> QED
  BY <1>3, <1>4, <1>5 DEF IInv

LEMMA PutBackInv ==
    ASSUME IInv, NEW m \in Messages, PutBack(m), faults' \in 0..MaxFaults
    PROVE  IInv'
<1>1. TypeOK'
  BY DEF PutBack, IInv, TypeOK
<1>2. TriesLeft'
  BY BoundsAssumption DEF PutBack, Exhausted, IInv, TypeOK, TriesLeft
<1>3. SuccessWasSent' /\ AckedWasSent'
  BY DEF PutBack, IInv, TypeOK, SuccessWasSent, AckedWasSent
<1> QED
  BY <1>1, <1>2, <1>3 DEF IInv

LEMMA NextInv == IInv /\ [Next]_vars => IInv'
<1> SUFFICES ASSUME IInv, [Next]_vars PROVE IInv'
  OBVIOUS
<1>1. CASE Reconfigure
  BY <1>1 DEF Reconfigure, IInv, TypeOK, TriesLeft, SuccessWasSent, AckedWasSent
<1>2. ASSUME NEW m \in Messages, Enqueue(m) PROVE IInv'
  BY <1>2 DEF Enqueue, IInv, TypeOK, TriesLeft, SuccessWasSent, AckedWasSent
<1>3. ASSUME NEW m \in Messages, Ack(m) PROVE IInv'
  <2>1. attempts[m] \in Tries
    BY <1>3 DEF Ack, IInv, TypeOK, TriesLeft, Tries
  <2> QED
    BY <1>3, <2>1 DEF Ack, IInv, TypeOK, TriesLeft, SuccessWasSent, AckedWasSent
<1>4. ASSUME NEW m \in Messages, Retry(m) PROVE IInv'
  BY <1>4, PutBackInv DEF Retry, IInv, TypeOK
<1>5. ASSUME NEW m \in Messages, TimeOut(m) PROVE IInv'
  BY <1>5, PutBackInv, BoundsAssumption DEF TimeOut, Fault, IInv, TypeOK
<1>6. ASSUME NEW m \in Messages, Abandon(m) PROVE IInv'
  BY <1>6, PutBackInv, BoundsAssumption DEF Abandon, Fault, IInv, TypeOK
<1>7. ASSUME NEW m \in Messages, Due(m) PROVE IInv'
  BY <1>7 DEF Due, IInv, TypeOK, TriesLeft, SuccessWasSent, AckedWasSent
<1>8. CASE UNCHANGED vars
  BY <1>8 DEF vars, IInv, TypeOK, TriesLeft, SuccessWasSent, AckedWasSent
<1> QED
  BY <1>1, <1>2, <1>3, <1>4, <1>5, <1>6, <1>7, <1>8, CheckInv, ResolveInv, DispatchInv, MarkInv,
     VanishInv, PostInv
  DEF Next

-----------------------------------------------------------------------------
(* The price of a copy                                                     *)

\* What a request may do before its provider has taken the message.
MaySend == {"checking", "resolving", "sending"}

\* The attempts of m whose request may still reach the provider.
Unsent(m) == {n \in Tries : request[m][n] \in MaySend}

\* 1 while the consumer awaits an answer that may be a success, or had it.
Awaited(m) ==
    IF queue[m] \in {"held", "acked"} /\ request[m][attempts[m]] \notin {"failed", "gone"} THEN 1 ELSE 0

\* What was sent and what may yet be: once for the attempt in hand, and once for
\* every fault.
OwnPaid(m) == sends[m] + Cardinality(Unsent(m)) <= faults + Awaited(m)

Paid == \A m \in Messages : OwnPaid(m)

LEMMA UnsentFinite ==
    ASSUME NEW m
    PROVE  IsFiniteSet(Unsent(m)) /\ Cardinality(Unsent(m)) \in Nat
<1>1. IsFiniteSet(Tries)
  BY BoundsAssumption, FS_Interval DEF Tries
<1>2. Unsent(m) \in SUBSET Tries
  BY DEF Unsent
<1>3. IsFiniteSet(Unsent(m))
  BY <1>1, <1>2, FS_Subset
<1> QED
  BY <1>3, FS_CardinalityType

LEMMA InitPaid == Init => Paid
<1> SUFFICES ASSUME Init, NEW m \in Messages PROVE OwnPaid(m)
  BY DEF Paid
<1>1. Unsent(m) = {}
  BY DEF Init, Unsent, MaySend
<1>2. Cardinality(Unsent(m)) = 0
  BY <1>1, FS_EmptySet
<1>3. sends[m] = 0 /\ faults = 0 /\ Awaited(m) = 0
  BY DEF Init, Awaited
<1> QED
  BY <1>2, <1>3 DEF OwnPaid

\* A step of others, or one that only adds a fault, costs m nothing.
LEMMA OthersPaid ==
    ASSUME TypeOK, TypeOK', NEW m \in Messages, OwnPaid(m), faults' >= faults,
           sends'[m] = sends[m], queue'[m] = queue[m], attempts'[m] = attempts[m],
           request'[m] = request[m]
    PROVE  OwnPaid(m)'
<1>1. Unsent(m)' = Unsent(m) /\ Awaited(m)' = Awaited(m)
  BY DEF Unsent, Awaited
<1>2. /\ faults \in Nat /\ faults' \in Nat /\ sends[m] \in Nat
      /\ Awaited(m) \in {0, 1} /\ Cardinality(Unsent(m)) \in Nat
  BY UnsentFinite DEF TypeOK, Awaited
<1> QED
  BY <1>1, <1>2 DEF OwnPaid

\* What a step of attempt n to s leaves of the attempts that may still send.
LEMMA UnsentStep ==
    ASSUME TypeOK, NEW m \in Messages, NEW n \in Tries,
           request[m][n] \in Running, NEW s \in Running \cup {"duplicate", "done", "failed", "gone"},
           s \in MaySend => request[m][n] \in MaySend,
           Becomes(m, n, s)
    PROVE  Cardinality(Unsent(m)') = Cardinality(Unsent(m)) -
             IF request[m][n] \in MaySend /\ s \notin MaySend THEN 1 ELSE 0
<1>1. /\ request'[m][n] = s
      /\ \A j \in Tries : j # n => request'[m][j] = request[m][j]
  BY DEF TypeOK, Becomes
<1>2. Cardinality(Unsent(m)) \in Nat /\ IsFiniteSet(Unsent(m))
  BY UnsentFinite
<1>3. CASE request[m][n] \in MaySend /\ s \notin MaySend
  <2>1. Unsent(m)' = Unsent(m) \ {n} /\ n \in Unsent(m)
    BY <1>1, <1>3 DEF Unsent, MaySend, Tries
  <2> QED
    BY <1>2, <1>3, <2>1, FS_RemoveElement
<1>4. CASE ~ (request[m][n] \in MaySend /\ s \notin MaySend)
  <2>1. Unsent(m)' = Unsent(m)
    BY <1>1, <1>4 DEF Unsent, MaySend, Tries
  <2> QED
    BY <1>2, <1>4, <2>1
<1> QED
  BY <1>3, <1>4

\* A request may reach the provider once more only by leaving Unsent, and it
\* fails only at the price of a fault or by not having sent.
LEMMA RequestPaid ==
    ASSUME IInv, IInv', NEW m \in Messages, OwnPaid(m), NEW n \in Tries,
           request[m][n] \in Running, NEW s \in Running \cup {"duplicate", "done", "failed", "gone"},
           Becomes(m, n, s), UNCHANGED <<queue, attempts>>, faults' >= faults,
           \/ sends'[m] = sends[m]
           \/ sends'[m] = sends[m] + 1 /\ request[m][n] = "sending" /\ s \notin MaySend,
           s \in MaySend => request[m][n] \in MaySend,
           s \in {"failed", "gone"} =>
             \/ faults' > faults
             \/ request[m][n] \in {"resolving", "sending"} /\ sends'[m] = sends[m]
    PROVE  OwnPaid(m)'
<1> DEFINE gap == IF request[m][n] \in MaySend /\ s \notin MaySend
                  THEN 1 ELSE 0
<1>1. Cardinality(Unsent(m)') = Cardinality(Unsent(m)) - gap
  BY UnsentStep DEF IInv
<1>2. /\ faults \in Nat /\ faults' \in Nat /\ sends[m] \in Nat /\ sends'[m] \in Nat
      /\ Cardinality(Unsent(m)) \in Nat /\ gap \in {0, 1}
  BY UnsentFinite DEF IInv, TypeOK
<1>3. Awaited(m) \in {0, 1} /\ Awaited(m)' \in {0, 1}
  BY DEF Awaited
<1>4. s \notin {"failed", "gone"} => Awaited(m)' >= Awaited(m)
  <2> SUFFICES ASSUME s \notin {"failed", "gone"}, Awaited(m) = 1 PROVE Awaited(m)' = 1
    BY <1>3
  <2>1. queue[m] \in {"held", "acked"} /\ request[m][attempts[m]] \notin {"failed", "gone"}
    BY DEF Awaited
  <2>2. attempts[m] \in Tries
    BY <2>1 DEF IInv, TypeOK, TriesLeft, Tries
  <2>3. request'[m][attempts[m]] \in {s, request[m][attempts[m]]}
    BY <2>2 DEF IInv, TypeOK, Becomes
  <2> QED
    BY <2>1, <2>3 DEF Awaited
<1>5. sends'[m] <= sends[m] + gap
  BY <1>2 DEF MaySend
<1>6. CASE s \notin {"failed", "gone"}
  BY <1>1, <1>2, <1>3, <1>4, <1>5, <1>6 DEF OwnPaid
<1>7. CASE s \in {"failed", "gone"} /\ faults' > faults
  BY <1>1, <1>2, <1>3, <1>5, <1>7 DEF OwnPaid
<1>8. CASE /\ s \in {"failed", "gone"} /\ request[m][n] \in {"resolving", "sending"}
           /\ sends'[m] = sends[m]
  <2>1. gap = 1
    BY <1>8 DEF MaySend
  <2> QED
    BY <1>1, <1>2, <1>3, <1>8, <2>1 DEF OwnPaid
<1> QED
  BY <1>6, <1>7, <1>8

LEMMA CheckPaid ==
    ASSUME IInv, IInv', NEW m \in Messages, OwnPaid(m), NEW n \in Tries, Check(m, n)
    PROVE  OwnPaid(m)'
<1>1. PICK s \in {"duplicate", "resolving", "failed"} :
          Becomes(m, n, s) /\ (s = "failed" => faults' > faults)
  BY DEF Check, Fault, IInv, TypeOK
<1>2. faults' >= faults
  BY DEF Check, Fault, IInv, TypeOK
<1>3. /\ request[m][n] = "checking"
      /\ UNCHANGED <<queue, attempts, sends>>
  BY DEF Check
<1> QED
  BY <1>1, <1>2, <1>3, RequestPaid DEF Running, MaySend

LEMMA ResolvePaid ==
    ASSUME IInv, IInv', NEW m \in Messages, OwnPaid(m), NEW n \in Tries, Resolve(m, n)
    PROVE  OwnPaid(m)'
<1>1. PICK s \in {"sending", "failed"} : Becomes(m, n, s)
  BY DEF Resolve
<1>2. /\ request[m][n] = "resolving"
      /\ UNCHANGED <<queue, attempts, sends, faults>> /\ faults' >= faults
  BY DEF Resolve, IInv, TypeOK
<1> QED
  BY <1>1, <1>2, RequestPaid DEF Running, MaySend

LEMMA DispatchPaid ==
    ASSUME IInv, IInv', NEW m \in Messages, OwnPaid(m), NEW n \in Tries, Dispatch(m, n)
    PROVE  OwnPaid(m)'
<1>1. PICK s \in {"marking", "failed"} :
        /\ Becomes(m, n, s)
        /\ \/ sends' = sends
           \/ sends' = [sends EXCEPT ![m] = @ + 1] /\ (s = "failed" => Fault)
  BY DEF Dispatch
<1>2. faults' >= faults /\ (Fault => faults' > faults)
  BY DEF Dispatch, Fault, IInv, TypeOK
<1>3. /\ request[m][n] = "sending"
      /\ UNCHANGED <<queue, attempts>>
  BY DEF Dispatch
<1>4. CASE sends' = sends
  BY <1>1, <1>2, <1>3, <1>4, RequestPaid DEF Running, MaySend
<1>5. CASE sends' = [sends EXCEPT ![m] = @ + 1] /\ (s = "failed" => Fault)
  <2>1. sends'[m] = sends[m] + 1
    BY <1>5 DEF IInv, TypeOK
  <2> QED
    BY <1>1, <1>2, <1>3, <1>5, <2>1, RequestPaid DEF Running, MaySend
<1> QED
  BY <1>1, <1>4, <1>5

LEMMA MarkPaid ==
    ASSUME IInv, IInv', NEW m \in Messages, OwnPaid(m), NEW n \in Tries, MarkDelivered(m, n)
    PROVE  OwnPaid(m)'
<1>1. PICK s \in {"done", "failed"} : Becomes(m, n, s) /\ (s = "failed" => Fault)
  BY DEF MarkDelivered
<1>2. faults' >= faults /\ (Fault => faults' > faults)
  BY DEF MarkDelivered, Fault, IInv, TypeOK
<1>3. /\ request[m][n] = "marking"
      /\ UNCHANGED <<queue, attempts, sends>>
  BY DEF MarkDelivered
<1> QED
  BY <1>1, <1>2, <1>3, RequestPaid DEF Running, MaySend

LEMMA VanishPaid ==
    ASSUME IInv, IInv', NEW m \in Messages, OwnPaid(m), NEW n \in Tries, Vanish(m, n)
    PROVE  OwnPaid(m)'
<1>1. faults' > faults /\ faults' >= faults
  BY DEF Vanish, Fault, IInv, TypeOK
<1>2. /\ request[m][n] \in Running /\ Becomes(m, n, "gone")
      /\ UNCHANGED <<queue, attempts, sends>>
  BY DEF Vanish
<1> QED
  BY <1>1, <1>2, RequestPaid DEF MaySend

\* The new attempt may send, and it is the one in hand.
LEMMA PostPaid ==
    ASSUME IInv, NEW m \in Messages, OwnPaid(m), Post(m)
    PROVE  OwnPaid(m)'
<1> DEFINE n == attempts[m] + 1
<1>1. n \in Tries
  BY BoundsAssumption DEF Post, IInv, TypeOK, TriesLeft, Tries
<1>2. /\ request'[m][n] = "checking"
      /\ \A j \in Tries : j # n => request'[m][j] = request[m][j]
      /\ queue[m] = "waiting" /\ queue'[m] = "held" /\ attempts'[m] = n
      /\ UNCHANGED <<sends, faults>>
  BY <1>1 DEF Post, Becomes, IInv, TypeOK
<1>3. Unsent(m)' = Unsent(m) \cup {n}
  BY <1>1, <1>2 DEF Unsent, MaySend, Tries
<1>4. Cardinality(Unsent(m)') <= Cardinality(Unsent(m)) + 1 /\ Cardinality(Unsent(m)') \in Nat
  <2>1. IsFiniteSet(Unsent(m)) /\ Cardinality(Unsent(m)) \in Nat
    BY UnsentFinite
  <2>2. Cardinality(Unsent(m) \cup {n}) =
          IF n \in Unsent(m) THEN Cardinality(Unsent(m)) ELSE Cardinality(Unsent(m)) + 1
    BY <2>1, FS_AddElement
  <2> QED
    BY <1>3, <2>1, <2>2
<1>5. Awaited(m) = 0 /\ Awaited(m)' = 1
  BY <1>2 DEF Awaited
<1> QED
  BY <1>2, <1>4, <1>5, UnsentFinite DEF OwnPaid, IInv, TypeOK

\* The queue takes a message back: after a failure it awaits nothing, and a
\* deadline is a fault.
LEMMA PutBackPaid ==
    ASSUME IInv, NEW m \in Messages, OwnPaid(m), PutBack(m),
           \/ Refused(m) /\ faults' = faults
           \/ faults' = faults + 1
    PROVE  OwnPaid(m)'
<1>1. Unsent(m)' = Unsent(m) /\ UNCHANGED sends
  BY DEF PutBack, Unsent
<1>2. Awaited(m)' = 0
  BY DEF PutBack, Awaited, IInv, TypeOK
<1>3. Awaited(m) \in {0, 1} /\ (Refused(m) => Awaited(m) = 0)
  BY DEF Awaited, Refused
<1>4. faults \in Nat /\ sends[m] \in Nat /\ Cardinality(Unsent(m)) \in Nat
  BY UnsentFinite DEF IInv, TypeOK
<1> QED
  BY <1>1, <1>2, <1>3, <1>4 DEF OwnPaid

\* What the worker does for one attempt.
Step(m, n) ==
    Check(m, n) \/ Resolve(m, n) \/ Dispatch(m, n) \/ MarkDelivered(m, n) \/ Vanish(m, n)

\* A step of one message leaves the accounts of the others alone.
LEMMA ElsewherePaid ==
    ASSUME IInv, IInv', Paid, NEW m \in Messages, OwnPaid(m)',
           \/ Enqueue(m) \/ Post(m) \/ Ack(m) \/ Retry(m) \/ TimeOut(m)
           \/ Abandon(m) \/ Due(m)
           \/ \E n \in Tries : Step(m, n)
    PROVE  Paid'
<1> SUFFICES ASSUME NEW k \in Messages, k # m PROVE OwnPaid(k)'
  BY DEF Paid
<1>1. faults' >= faults
  BY DEF Enqueue, Post, Ack, Retry, TimeOut, Abandon, Due, PutBack, Step, Check, Resolve,
         Dispatch, MarkDelivered, Vanish, Fault, IInv, TypeOK
<1>2. request'[k] = request[k]
  BY DEF Enqueue, Post, Ack, Retry, TimeOut, Abandon, Due, PutBack, Step, Check, Resolve,
         Dispatch, MarkDelivered, Vanish, Becomes, IInv, TypeOK
<1>3. sends'[k] = sends[k]
  BY DEF Enqueue, Post, Ack, Retry, TimeOut, Abandon, Due, PutBack, Step, Check, Resolve,
         Dispatch, MarkDelivered, Vanish, IInv, TypeOK
<1>4. queue'[k] = queue[k] /\ attempts'[k] = attempts[k]
  BY DEF Enqueue, Post, Ack, Retry, TimeOut, Abandon, Due, PutBack, Step, Check, Resolve,
         Dispatch, MarkDelivered, Vanish, IInv, TypeOK
<1> QED
  BY <1>1, <1>2, <1>3, <1>4, OthersPaid DEF Paid, IInv

LEMMA PaidStep == IInv /\ IInv' /\ Paid /\ [Next]_vars => Paid'
<1> SUFFICES ASSUME IInv, IInv', Paid, [Next]_vars PROVE Paid'
  OBVIOUS
<1>1. CASE Reconfigure \/ UNCHANGED vars
  <2>1. UNCHANGED <<queue, attempts, request, sends, faults>>
    BY <1>1 DEF Reconfigure, vars
  <2> SUFFICES ASSUME NEW m \in Messages PROVE OwnPaid(m)'
    BY DEF Paid
  <2> QED
    BY <2>1, OthersPaid DEF Paid, IInv, TypeOK
<1>2. ASSUME NEW m \in Messages, Enqueue(m) PROVE OwnPaid(m)'
  <2>1. Unsent(m)' = Unsent(m) /\ Awaited(m) = 0 /\ Awaited(m)' = 0 /\ UNCHANGED <<sends, faults>>
    BY <1>2 DEF Enqueue, Unsent, Awaited, IInv, TypeOK
  <2> QED
    BY <2>1 DEF Paid, OwnPaid
<1>3. ASSUME NEW m \in Messages, Ack(m) PROVE OwnPaid(m)'
  <2>1. Unsent(m)' = Unsent(m) /\ Awaited(m)' = Awaited(m) /\ UNCHANGED <<sends, faults>>
    BY <1>3 DEF Ack, Unsent, Awaited, IInv, TypeOK
  <2> QED
    BY <2>1 DEF Paid, OwnPaid
<1>4. ASSUME NEW m \in Messages, Retry(m) PROVE OwnPaid(m)'
  BY <1>4, PutBackPaid DEF Retry, Paid
<1>5. ASSUME NEW m \in Messages, TimeOut(m) PROVE OwnPaid(m)'
  BY <1>5, PutBackPaid DEF TimeOut, Fault, Paid
<1>6. ASSUME NEW m \in Messages, Abandon(m) PROVE OwnPaid(m)'
  BY <1>6, PutBackPaid DEF Abandon, Fault, Paid
<1>7. ASSUME NEW m \in Messages, Due(m) PROVE OwnPaid(m)'
  <2>1. Unsent(m)' = Unsent(m) /\ Awaited(m) = 0 /\ Awaited(m)' = 0 /\ UNCHANGED <<sends, faults>>
    BY <1>7 DEF Due, Unsent, Awaited, IInv, TypeOK
  <2> QED
    BY <2>1 DEF Paid, OwnPaid
<1>8. ASSUME NEW m \in Messages, Post(m) PROVE OwnPaid(m)'
  BY <1>8, PostPaid DEF Paid
<1>9. ASSUME NEW m \in Messages, NEW n \in Tries, Step(m, n) PROVE OwnPaid(m)'
  BY <1>9, CheckPaid, ResolvePaid, DispatchPaid, MarkPaid, VanishPaid DEF Paid, Step
<1>10. CASE \E m \in Messages :
             \/ Enqueue(m) \/ Post(m) \/ Ack(m) \/ Retry(m) \/ TimeOut(m)
             \/ Abandon(m) \/ Due(m)
             \/ \E n \in Tries : Step(m, n)
  BY <1>2, <1>3, <1>4, <1>5, <1>6, <1>7, <1>8, <1>9, <1>10, ElsewherePaid
<1> QED
  BY <1>1, <1>10 DEF Next, Step

-----------------------------------------------------------------------------
\* The type invariant, with the bound on how often a message is tried.
THEOREM TypeCorrect == Spec => []TypeOK
<1>1. IInv => TypeOK
  BY DEF IInv
<1> QED
  BY InitInv, NextInv, <1>1, PTL DEF Spec

\* No message is acknowledged that its provider never took, whatever attempts
\* overlap, time out, vanish or read a stale KV.
THEOREM AcknowledgedWasSent == Spec => []AckedWasSent
<1>1. IInv => AckedWasSent
  BY DEF IInv
<1> QED
  BY InitInv, NextInv, <1>1, PTL DEF Spec

LEMMA PaidInv == Spec => [](IInv /\ Paid)
<1>1. Init => IInv /\ Paid
  BY InitInv, InitPaid
<1>2. IInv /\ Paid /\ [Next]_vars => (IInv /\ Paid)'
  BY NextInv, PaidStep
<1> QED
  BY <1>1, <1>2, PTL DEF Spec

LEMMA PaidBounds == IInv /\ Paid => CopiesCostFaults
<1> SUFFICES ASSUME IInv, Paid, NEW m \in Messages PROVE sends[m] <= faults + 1
  BY DEF CopiesCostFaults
<1>1. /\ faults \in Nat /\ sends[m] \in Nat /\ Cardinality(Unsent(m)) \in Nat
      /\ Awaited(m) \in {0, 1}
  BY UnsentFinite DEF IInv, TypeOK, Awaited
<1> QED
  BY <1>1 DEF Paid, OwnPaid

\* A message is sent at most once more than there were faults, for any messages,
\* retries and overlaps; a missing provider alone never makes a copy.
THEOREM CopiesAreFaults == Spec => []CopiesCostFaults
BY PaidInv, PaidBounds, PTL

\* As long as nothing times out, vanishes or fails, what delivery.ts says of the
\* KV dedupe holds: no message is sent twice.
THEOREM OnceWithoutFaults == Spec => [](faults = 0 => SentOnce)
<1>1. IInv /\ Paid => (faults = 0 => SentOnce)
  <2> SUFFICES ASSUME IInv, Paid, faults = 0, NEW m \in Messages PROVE sends[m] <= 1
    BY DEF SentOnce
  <2>1. sends[m] <= faults + 1
    BY PaidBounds DEF CopiesCostFaults
  <2> QED
    BY <2>1
<1> QED
  BY <1>1, PaidInv, PTL
=============================================================================
