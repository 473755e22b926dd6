----------------------------- MODULE DeliveryQueue -----------------------------
(***************************************************************************)
(* A message (an OTP, a magic link, a reset) from auth-api to its provider: *)
(* workers/auth-api/src/delivery.ts puts it in a queue and posts it to the *)
(* delivery worker, whose handleDelivery (workers/delivery/src/index.ts)   *)
(* looks its id up in a KV namespace, sends it and records the id.         *)
(*                                                                         *)
(* Attempt n of message m is one request to the worker.  The consumer      *)
(* gives up on a request after ten seconds, asks the queue for another try *)
(* in ten seconds or more, and the request it left goes on.  The call of   *)
(* the provider has a deadline of ten seconds, so one that was under way   *)
(* when the consumer gave up is over when the next try is posted; the KV   *)
(* calls and the reading of the provider's configuration have none, and    *)
(* with those a request may overlap the next.                              *)
(***************************************************************************)
EXTENDS Integers

CONSTANTS
    Messages,       \* delivery ids
    MaxRetries,     \* max_retries of the queue
    MaxFaults       \* bound on timeouts, crashes and failing calls

ASSUME BoundsAssumption == MaxRetries \in Nat /\ MaxFaults \in Nat

VARIABLES
    ready,      \* the provider of the messages is configured
    queue,      \* where a message is
    attempts,   \* message.attempts
    calling,    \* tries whose provider was being called when a message was put back
    request,    \* what the worker is doing for an attempt
    recorded,   \* ids in CINAAUTH_DELIVERY_REPLAY_KV
    sends,      \* how often the provider took a message
    faults

vars == <<ready, queue, attempts, calling, request, recorded, sends, faults>>

Tries == 1..(MaxRetries + 1)

Running == {"checking", "resolving", "sending", "marking"}

Init ==
    /\ ready \in BOOLEAN
    /\ queue = [m \in Messages |-> "none"]
    /\ attempts = [m \in Messages |-> 0]
    /\ calling = [m \in Messages |-> {}]
    /\ request = [m \in Messages |-> [n \in Tries |-> "none"]]
    /\ recorded = {}
    /\ sends = [m \in Messages |-> 0]
    /\ faults = 0

-----------------------------------------------------------------------------
Fault == faults < MaxFaults /\ faults' = faults + 1

Becomes(m, n, s) == request' = [request EXCEPT ![m][n] = s]

\* A configuration is activated, or corrupted, or its repository is down.
Reconfigure ==
    /\ ready' = ~ready
    /\ UNCHANGED <<queue, attempts, calling, request, recorded, sends, faults>>

\* enqueueDelivery
Enqueue(m) ==
    /\ queue[m] = "none" /\ ready
    /\ queue' = [queue EXCEPT ![m] = "waiting"]
    /\ UNCHANGED <<ready, attempts, calling, request, recorded, sends, faults>>

\* handleDeliveryMessage posts the next attempt.
Post(m) ==
    /\ queue[m] = "waiting"
    /\ queue' = [queue EXCEPT ![m] = "held"]
    /\ attempts' = [attempts EXCEPT ![m] = @ + 1]
    /\ Becomes(m, attempts[m] + 1, "checking")
    /\ UNCHANGED <<ready, calling, recorded, sends, faults>>

\* Slip: an id counts as delivered from when its sending starts.
DuplicateOnceStarted(m) ==
    m \in recorded \/ \E n \in Tries : request[m][n] \in {"resolving", "sending", "marking"}

\* isDuplicateDelivery
Duplicate(m) == m \in recorded

\* The KV is asked; it may fail, or not know yet what another place recorded.
Check(m, n) ==
    /\ request[m][n] = "checking"
    /\ \/ Becomes(m, n, IF Duplicate(m) THEN "duplicate" ELSE "resolving") /\ UNCHANGED faults
       \/ Fault /\ Becomes(m, n, "resolving")
       \/ Fault /\ Becomes(m, n, "failed")
    /\ UNCHANGED <<ready, queue, attempts, calling, recorded, sends>>

\* dispatchDelivery before its call: without a provider it throws.
Resolve(m, n) ==
    /\ request[m][n] = "resolving"
    /\ Becomes(m, n, IF ready THEN "sending" ELSE "failed")
    /\ UNCHANGED <<ready, queue, attempts, calling, recorded, sends, faults>>

\* The call of the provider: an error, or the deadline, may hide a message that
\* was taken.
Dispatch(m, n) ==
    /\ request[m][n] = "sending"
    /\ \/ /\ sends' = [sends EXCEPT ![m] = @ + 1]
          /\ \/ Becomes(m, n, "marking") /\ UNCHANGED faults
             \/ Becomes(m, n, "failed") /\ Fault
       \/ Fault /\ Becomes(m, n, "failed") /\ UNCHANGED sends
    /\ UNCHANGED <<ready, queue, attempts, calling, recorded>>

\* markDelivered, and the answer of handleDelivery.
MarkDelivered(m, n) ==
    /\ request[m][n] = "marking"
    /\ \/ recorded' = recorded \cup {m} /\ Becomes(m, n, "done") /\ UNCHANGED faults
       \/ Fault /\ Becomes(m, n, "failed") /\ UNCHANGED recorded
    /\ UNCHANGED <<ready, queue, attempts, calling, sends>>

\* The worker dies, or is cancelled with the request: no answer.
Vanish(m, n) ==
    /\ request[m][n] \in Running
    /\ Fault
    /\ Becomes(m, n, "gone")
    /\ UNCHANGED <<ready, queue, attempts, calling, recorded, sends>>

Ack(m) ==
    /\ queue[m] = "held"
    /\ request[m][attempts[m]] \in {"done", "duplicate"}
    /\ queue' = [queue EXCEPT ![m] = "acked"]
    /\ UNCHANGED <<ready, attempts, calling, request, recorded, sends, faults>>

Exhausted(m) == attempts[m] > MaxRetries

\* Slip: a request without an answer is waited for.
RefusedOnly(m) == request[m][attempts[m]] = "failed"

\* Slip: the consumer does not await the answer.
RefusedUnanswered(m) == request[m][attempts[m]] \notin {"done", "duplicate"}

\* deliverToWebhook throws: an error status, or the connection is lost.
Refused(m) == request[m][attempts[m]] \in {"failed", "gone"}

\* message.retry() with its delay, which starts now; or the last try was made.
PutBack(m) ==
    /\ queue' = [queue EXCEPT ![m] = IF Exhausted(m) THEN "dead" ELSE "delayed"]
    /\ calling' = [calling EXCEPT ![m] = {n \in Tries : request[m][n] = "sending"}]
    /\ UNCHANGED <<ready, attempts, request, recorded, sends>>

Retry(m) == queue[m] = "held" /\ Refused(m) /\ PutBack(m) /\ UNCHANGED faults

\* AbortSignal.timeout: no answer in ten seconds; the request goes on.
TimeOut(m) ==
    /\ queue[m] = "held" /\ request[m][attempts[m]] \in Running
    /\ Fault /\ PutBack(m)

\* The consumer dies; the queue tries again after its own retry_delay.
Abandon(m) == queue[m] = "held" /\ Fault /\ PutBack(m)

\* The delay, never shorter than the deadline of a provider call, is over.
Due(m) ==
    /\ queue[m] = "delayed"
    /\ \A n \in calling[m] : request[m][n] # "sending"
    /\ queue' = [queue EXCEPT ![m] = "waiting"]
    /\ UNCHANGED <<ready, attempts, calling, request, recorded, sends, faults>>

Next ==
    \/ Reconfigure
    \/ \E m \in Messages :
        \/ Enqueue(m) \/ Post(m) \/ Ack(m) \/ Retry(m) \/ TimeOut(m)
        \/ Abandon(m) \/ Due(m)
        \/ \E n \in Tries :
             Check(m, n) \/ Resolve(m, n) \/ Dispatch(m, n) \/ MarkDelivered(m, n) \/ Vanish(m, n)

Spec == Init /\ [][Next]_vars

\* The queue delivers what it holds, its delays end, and a request runs until it
\* ends.
Fairness ==
    \A m \in Messages :
        /\ WF_vars(Post(m)) /\ WF_vars(Ack(m)) /\ WF_vars(Retry(m)) /\ WF_vars(Due(m))
        /\ \A n \in Tries :
             /\ WF_vars(Check(m, n)) /\ WF_vars(Resolve(m, n))
             /\ WF_vars(Dispatch(m, n)) /\ WF_vars(MarkDelivered(m, n))

FairSpec == Spec /\ Fairness

-----------------------------------------------------------------------------
\* Every variable stays in its domain; no message is tried more often than the
\* queue allows.
TypeOK ==
    /\ ready \in BOOLEAN
    /\ queue \in [Messages -> {"none", "waiting", "held", "delayed", "acked", "dead"}]
    /\ attempts \in [Messages -> 0..(MaxRetries + 1)]
    /\ calling \in [Messages -> SUBSET Tries]
    /\ request \in [Messages -> [Tries -> Running \cup {"none", "duplicate", "done", "failed", "gone"}]]
    /\ recorded \subseteq Messages
    /\ sends \in [Messages -> Nat]
    /\ faults \in 0..MaxFaults

\* A message the queue drops as delivered was taken by its provider, whichever
\* attempt did it and whatever overlapped: no login code is acknowledged away.
AckedWasSent == \A m \in Messages : queue[m] = "acked" => sends[m] > 0

\* A provider takes a message again only after something went wrong (a deadline,
\* a crash, a lost answer, a stale or failed KV call): copies never outnumber the
\* faults, and retries for want of a configured provider make none.
CopiesCostFaults == \A m \in Messages : sends[m] <= faults + 1

\* "Replay is still prevented by the KV dedupe on deliveryId in the delivery
\* worker" (delivery.ts:215): no message is sent twice. A send whose answer or
\* record is lost is sent again; what holds is OnceWithoutFaults.
SentOnce == \A m \in Messages : sends[m] <= 1

\* Every message accepted by enqueueDelivery is acknowledged or ends in the dead
\* letter queue, however often its provider comes and goes.
EventuallySettled == \A m \in Messages : queue[m] = "waiting" ~> queue[m] \in {"acked", "dead"}
=============================================================================
