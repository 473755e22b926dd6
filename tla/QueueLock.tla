------------------------------- MODULE QueueLock -------------------------------
(***************************************************************************)
(* workers/auth-api/src/super-admin-governance.ts and entitlement-lock.ts: *)
(* requests that run their handler under an advisory lock.  The lock is    *)
(* held by a transaction on a connection of its own, opened for the wait;  *)
(* the handler works through other connections.  When the first is lost,   *)
(* PostgreSQL frees the lock and the handler does not notice before the    *)
(* COMMIT that ends it.                                                    *)
(*                                                                         *)
(* pc[q] is the step request q is at.  "arrived", "queued" (waiting for    *)
(* the lock), "leaving" (the handler has answered) and "answered" are      *)
(* common to all requests; what lies between is in the extending modules.  *)
(***************************************************************************)
EXTENDS Integers, FiniteSets

CONSTANTS
    Requests,
    NoRequest,
    Users,
    Workloads,      \* what the requests of a run ask for
    MaxLost         \* bound on the queue connections that are lost

AccountRoutes == {"set-role", "remove-user", "delete-user"}
SeatRoutes == {"accept-invitation", "add-member", "provision"}
Roles == {"super", "user"}
Locks == {"governance", "seats"}

ASSUME NoRequestAssumption == NoRequest \notin Requests
ASSUME WorkloadsTyped ==
    Workloads \subseteq
        [Requests -> [route : AccountRoutes \cup SeatRoutes, user : Users, to : Roles]]

VARIABLES
    job,        \* what each request asks for
    pc,
    holder,     \* who holds each advisory lock
    cut,        \* requests whose queue connection was lost under them
    answer      \* what each request was, or is about to be, answered: "refused"
                \* stands for every documented error, a 503 included

queueVars == <<job, pc, holder, cut, answer>>

QueueInit ==
    /\ job \in Workloads
    /\ pc = [q \in Requests |-> "arrived"]
    /\ holder = [k \in Locks |-> NoRequest]
    /\ cut = {}
    /\ answer = [q \in Requests |-> "none"]

QueueSteps == {"arrived", "queued", "locked", "leaving", "answered"}
Answers == {"none", "refused", "done", "deleted", "rejected", "aborted"}

-----------------------------------------------------------------------------
At(q, s) == pc[q] = s

Goto(q, s) == pc' = [pc EXCEPT ![q] = s]

\* A handler's step that touches none of the queue's other variables.
Step(q, from, to) ==
    /\ At(q, from)
    /\ Goto(q, to)
    /\ UNCHANGED <<job, holder, cut, answer>>

\* The handler is through, and a is its response.
Respond(q, a) ==
    /\ Goto(q, "leaving")
    /\ answer' = [answer EXCEPT ![q] = a]
    /\ UNCHANGED <<job, holder, cut>>

\* Slip: the provisioning path derives another key than the middleware.
LockByPath(q) == IF job[q].route \in SeatRoutes \ {"provision"} THEN "seats" ELSE "governance"

\* The governed routes share one key, the member mutations of the organization
\* another: getEntitlementCapacityLockKey is given the same parts on both paths.
LockOf(q) == IF job[q].route \in SeatRoutes THEN "seats" ELSE "governance"

Freed(q) == [k \in Locks |-> IF holder[k] = q THEN NoRequest ELSE holder[k]]

\* pg_advisory_xact_lock is granted.
TakeLock(q) ==
    /\ At(q, "queued")
    /\ holder[LockOf(q)] = NoRequest
    /\ holder' = [holder EXCEPT ![LockOf(q)] = q]
    /\ Goto(q, "locked")
    /\ UNCHANGED <<job, cut, answer>>

\* statement_timeout ends the wait, or the database cannot be reached: 503.
GiveUp(q) ==
    /\ At(q, "queued")
    /\ Goto(q, "answered")
    /\ answer' = [answer EXCEPT ![q] = "refused"]
    /\ UNCHANGED <<job, holder, cut>>

\* The queue connection is lost while the handler is at work elsewhere.
LoseQueue(q) ==
    /\ Cardinality(cut) < MaxLost
    /\ \E k \in Locks : holder[k] = q
    /\ holder' = Freed(q)
    /\ cut' = cut \cup {q}
    /\ UNCHANGED <<job, pc, answer>>

\* The COMMIT that frees the lock.  On a lost connection it throws, and the
\* response is 503 whatever the handler has done.
Leave(q) ==
    /\ At(q, "leaving")
    /\ Goto(q, "answered")
    /\ holder' = Freed(q)
    /\ answer' = IF q \in cut THEN [answer EXCEPT ![q] = "refused"] ELSE answer
    /\ UNCHANGED <<job, cut>>

\* The isolate dies and PostgreSQL rolls back what it had open.  A commit that
\* outlives the queue connection is LoseQueue followed by that commit.
Die(q) ==
    /\ pc[q] \notin {"arrived", "answered"}
    /\ Goto(q, "answered")
    /\ holder' = Freed(q)
    /\ answer' = [answer EXCEPT ![q] = "none"]
    /\ UNCHANGED <<job, cut>>

QueueStep(q) == TakeLock(q) \/ GiveUp(q) \/ Leave(q)
=============================================================================
