------------------------------ MODULE MemberSeats ------------------------------
(***************************************************************************)
(* The member seats of one organization.  Accepting an invitation and      *)
(* adding a member go through the entitlement middleware of auth-api's     *)
(* index.ts: it reads the plan, takes the capacity lock if the plan is     *)
(* finite, counts, and calls the organization plugin, which counts again.  *)
(* SSO and SCIM provisioning take the same lock in entitlement-runtime.ts  *)
(* and read the plan under it.  Steps: "counting" to "admitted" (or        *)
(* "provisioning" to "planned") on the worker's side, "tallying",          *)
(* "limiting", "claiming" and "inserting" in the plugins.                  *)
(***************************************************************************)
EXTENDS QueueLock

CONSTANTS
    Plans,          \* member limits of the plans
    Unlimited,      \* above every count
    FirstPlan,
    Founders        \* the members there are at first

Rows == [user : Users, by : Requests \cup {NoRequest}]

ASSUME FiniteAssumption == IsFiniteSet(Rows)
ASSUME PlansAssumption ==
    /\ Unlimited \in Nat /\ Cardinality(Rows) < Unlimited
    /\ Plans \subseteq 0..Unlimited /\ FirstPlan \in Plans
ASSUME FoundersAssumption == Founders \subseteq Users

VARIABLES
    members,        \* rows [user, by]: by is the request that inserted it
    invited,        \* user -> status of the invitation sent to them
    plan,           \* the limit of the organization's plan
    limit,          \* the lowest limit each open request has read
    tally,          \* the count each request has read
    unlocked        \* requests the middleware let through without the lock

seatVars == <<members, invited, plan, limit, tally, unlocked>>

SeatSteps == {"planned", "admitted", "tallying", "limiting", "claiming", "inserting"}

SeatsInit ==
    /\ members = [user : Founders, by : {NoRequest}]
    /\ invited = [u \in Users |-> "pending"]
    /\ plan = FirstPlan
    /\ limit = [q \in Requests |-> Unlimited]
    /\ tally = [q \in Requests |-> 0]
    /\ unlocked = {}

-----------------------------------------------------------------------------
Taken == Cardinality(members)
IsMember(u) == \E m \in members : m.user = u
Joins(q) == job[q].route \in {"accept-invitation", "add-member"}

\* The request is answered, and what it read is forgotten.
Reply(q, a) == Respond(q, a) /\ limit' = [limit EXCEPT ![q] = Unlimited]

ReadsLimit(q) ==
    limit' = [limit EXCEPT ![q] = IF plan < @ THEN plan ELSE @]

\* loadEntitlementSnapshot, before the lock: an unlimited plan needs none.
ReadPlan(q) ==
    /\ Joins(q)
    /\ Step(q, "arrived", IF plan = Unlimited THEN "admitted" ELSE "queued")
    /\ ReadsLimit(q)
    /\ unlocked' = IF plan = Unlimited THEN unlocked \cup {q} ELSE unlocked
    /\ UNCHANGED <<members, invited, plan, tally>>

\* getEntitlementUsage and evaluateEntitlementAccess, against the plan as read.
Evaluate(q) ==
    /\ At(q, "locked") /\ Joins(q)
    /\ \/ Taken < limit[q] /\ Step(q, "locked", "admitted") /\ UNCHANGED limit
       \/ Taken >= limit[q] /\ Reply(q, "refused")
    /\ UNCHANGED <<members, invited, plan, tally, unlocked>>

\* The plugin's own checks; an organization's member is not added twice, but
\* may accept an invitation.
Admit(q) ==
    /\ Joins(q)
    /\ \/ /\ job[q].route = "accept-invitation" => invited[job[q].user] = "pending"
          /\ job[q].route = "add-member" => ~IsMember(job[q].user)
          /\ Step(q, "admitted", "tallying")
          /\ UNCHANGED limit
       \/ At(q, "admitted") /\ Reply(q, "refused")
    /\ UNCHANGED <<members, invited, plan, tally, unlocked>>

CountMembers(q) ==
    /\ Joins(q)
    /\ Step(q, "tallying", "limiting")
    /\ tally' = [tally EXCEPT ![q] = Taken]
    /\ UNCHANGED <<members, invited, plan, limit, unlocked>>

\* membershipLimit reads the plan anew.
CheckLimit(q) ==
    /\ At(q, "limiting")
    /\ tally' = [tally EXCEPT ![q] = 0]
    /\ IF tally[q] < plan
       THEN /\ Step(q, "limiting",
                    IF job[q].route = "accept-invitation" THEN "claiming" ELSE "inserting")
            /\ ReadsLimit(q)
       ELSE Reply(q, "refused")
    /\ UNCHANGED <<members, invited, plan, unlocked>>

\* The invitation goes from pending to accepted for one request only.
Claim(q) ==
    /\ At(q, "claiming")
    /\ LET u == job[q].user
       IN IF invited[u] = "pending"
          THEN /\ Step(q, "claiming", "inserting")
               /\ invited' = [invited EXCEPT ![u] = "accepted"]
               /\ UNCHANGED limit
          ELSE Reply(q, "refused") /\ UNCHANGED invited
    /\ UNCHANGED <<members, plan, tally, unlocked>>

-----------------------------------------------------------------------------
ArriveToProvision(q) ==
    /\ job[q].route = "provision"
    /\ Step(q, "arrived", "queued")
    /\ UNCHANGED seatVars

\* withRuntimeOrganizationMemberCapacity under the lock: a member needs no seat,
\* others are held to the plan as it is now, then counted.
ReadPlanLocked(q) ==
    /\ At(q, "locked") /\ job[q].route = "provision"
    /\ IF IsMember(job[q].user)
       THEN Step(q, "locked", "inserting") /\ UNCHANGED limit
       ELSE Step(q, "locked", "planned") /\ ReadsLimit(q)
    /\ UNCHANGED <<members, invited, plan, tally, unlocked>>

\* Of a plan without a limit nothing is counted.
SeatLeft(q) == limit[q] = Unlimited \/ Taken < limit[q]

CountLocked(q) ==
    /\ At(q, "planned")
    /\ IF SeatLeft(q)
       THEN Step(q, "planned", "inserting") /\ UNCHANGED limit
       ELSE Reply(q, "refused")
    /\ UNCHANGED <<members, invited, plan, tally, unlocked>>

\* A session, plan or count that cannot be read lets nobody in.
Unreadable(q) ==
    /\ job[q].route \in SeatRoutes /\ pc[q] \in {"arrived", "locked", "planned", "limiting"}
    /\ Reply(q, "refused")
    /\ UNCHANGED <<members, invited, plan, tally, unlocked>>

\* The member row is created, if the account is still there; provisioning does
\* not create a second one.  When it fails an invitation goes back to pending.
Insert(q, accounts) ==
    /\ At(q, "inserting")
    /\ LET u == job[q].user
           kept == job[q].route = "provision" /\ IsMember(u)
       IN \/ /\ u \in accounts \/ kept
             /\ members' = IF kept THEN members ELSE members \cup {[user |-> u, by |-> q]}
             /\ Reply(q, "done")
             /\ UNCHANGED invited
          \/ /\ UNCHANGED members
             /\ Reply(q, "refused")
             /\ invited' = IF job[q].route = "accept-invitation" /\ invited[u] = "accepted"
                           THEN [invited EXCEPT ![u] = "pending"] ELSE invited
    /\ UNCHANGED <<plan, tally, unlocked>>

\* The subscription changes, or a member leaves: no lock is asked for.  It is of
\* no interest once the requests for seats are answered.
Open == \E q \in Requests : job[q].route \in SeatRoutes /\ pc[q] \notin {"leaving", "answered"}

ChangePlan ==
    /\ Open
    /\ plan' \in Plans \ {plan}
    /\ UNCHANGED <<members, invited, limit, tally, unlocked>>

RemoveMember ==
    /\ Open
    /\ \E m \in members : members' = members \ {m}
    /\ UNCHANGED <<invited, plan, limit, tally, unlocked>>

SeatStep(q, accounts) ==
    \/ ReadPlan(q) \/ Evaluate(q) \/ Admit(q) \/ CountMembers(q) \/ CheckLimit(q)
    \/ Claim(q) \/ ArriveToProvision(q) \/ ReadPlanLocked(q) \/ CountLocked(q)
    \/ Unreadable(q) \/ Insert(q, accounts)

-----------------------------------------------------------------------------
\* A member joins only while there are fewer than every limit the request has
\* read, as long as queue connections stand and nobody was let through without
\* the lock: the two ways in, and their two counts, never add up to one too many.
SeatsKept ==
    [][\A m \in members' \ members :
         cut = {} /\ unlocked = {} => Taken < limit[m.by]]_<<members, cut, unlocked, limit>>
=============================================================================
