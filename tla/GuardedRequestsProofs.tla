------------------------- MODULE GuardedRequestsProofs -------------------------
(***************************************************************************)
(* Proofs about GuardedRequests, for any number of requests and users, any *)
(* workload, any number of processors and of lost connections.             *)
(*                                                                         *)
(* The inductive invariant has seven parts.  Routed ties steps to routes;  *)
(* OneInside is what the queue's lock gives while no connection has been   *)
(* lost; InvariantKept is what rows and the trigger's lock give in any     *)
(* case; Receipted, LastAdminKept and SeatsLeft follow what requests have  *)
(* seen and done.  HolderInside, on top of them, is why waits end.         *)
(***************************************************************************)
EXTENDS GuardedRequests, FiniteSetTheorems, TLAPS

Outside == {"arrived", "queued", "leaving", "answered"}

\* A request is at a step of its own routes.
Routed ==
    \A q \in Requests :
        /\ pc[q] \in AccountSteps => job[q].route \in AccountRoutes
        /\ pc[q] \in SeatSteps => job[q].route \in SeatRoutes
        /\ At(q, "erasing") => job[q].route = "delete-user"
        /\ q \in unlocked => job[q].route \in SeatRoutes

\* Who is inside holds the lock, unless it came in without one.
OneInside ==
    cut = {} =>
        \A q \in Requests \ unlocked : pc[q] \notin Outside => holder[LockOf(q)] = q

\* The trigger's lock and the rows' exclude, and who is about to commit knows
\* that another super admin stays.
InvariantKept ==
    /\ \A p, q \in Requests : pc[p] \in InTrigger /\ pc[q] \in InTrigger => p = q
    /\ \A p, q \in Requests :
         pc[p] \in HasRow /\ pc[q] \in HasRow /\ Target(p) = Target(q) => p = q
    /\ \A q \in Requests :
         /\ pc[q] \in HasRow => Present(q)
         /\ At(q, "writing") => ~LosesSuper(q)
         /\ At(q, "sharing") => spared[q] # Target(q)
         /\ At(q, "committing") => spared[q] \in OthersSuper(q)

\* Who deletes itself has had its data erased by every processor that attested.
Receipted ==
    /\ \A q \in Requests :
         /\ ~At(q, "erasing") => attested[q] = 0
         /\ At(q, "erasing") => 1..attested[q] \subseteq erased[Target(q)]
         /\ job[q].route = "delete-user" /\ pc[q] \in AccountSteps \ {"handling", "erasing"}
              => 1..Processors \subseteq erased[Target(q)]
    /\ ReceiptTrue

\* What the handler and the transaction found out stays true under the lock.
LastAdminKept ==
    /\ StableErrors
    /\ cut = {} =>
         \A q \in Requests :
           /\ job[q].route = "delete-user" /\ pc[q] \in {"handling", "erasing"}
                => Supers # {Target(q)}
           /\ At(q, "rowing") /\ LosesSuper(q) => OthersSuper(q) # {}
           /\ pc[q] \in {"waiting", "choosing", "sharing"} => OthersSuper(q) # {}

\* The seat that was counted is still free, and the count is not too low.
SeatsLeft ==
    /\ \A q \in Requests :
         /\ pc[q] \in {"arrived", "queued", "locked"} /\ job[q].route = "provision"
              => limit[q] = Unlimited
    /\ cut = {} /\ unlocked = {} =>
         \A q \in Requests :
           /\ pc[q] \in {"admitted", "tallying", "limiting", "claiming", "inserting"}
                => Taken < limit[q]
           /\ At(q, "limiting") => Taken <= tally[q]

IInv ==
    /\ TypeOK /\ Routed /\ OneInside /\ InvariantKept /\ SuperAdminRemains
    /\ Receipted /\ LastAdminKept /\ SeatsLeft

-----------------------------------------------------------------------------
\* A step is one request's, or happens to the organization alone.
LEMMA StepCases ==
    ASSUME [Next]_vars
    PROVE  \/ UNCHANGED vars
           \/ Elsewhere
           \/ \E q \in Requests :
                \/ QueueStep(q) /\ UNCHANGED <<accountVars, seatVars>>
                \/ AccountStep(q) /\ Cascade /\ UNCHANGED <<invited, plan, limit, tally, unlocked>>
                \/ SeatStep(q, DOMAIN role) /\ UNCHANGED accountVars
                \/ Fault(q)
BY DEF Next, Progress

\* The queue's own steps, and the worst that can befall a request, keep the types.
LEMMA QueueTyped ==
    ASSUME TypeOK, NEW q \in Requests,
           (QueueStep(q) /\ UNCHANGED <<accountVars, seatVars>>) \/ Fault(q)
    PROVE  TypeOK'
<1> USE NoRequestAssumption DEF TypeOK, At, Goto
<1>1. CASE TakeLock(q) /\ UNCHANGED <<accountVars, seatVars>>
  BY <1>1 DEF TakeLock, LockOf, Locks, QueueSteps, accountVars, seatVars
<1>2. CASE GiveUp(q) /\ UNCHANGED <<accountVars, seatVars>>
  BY <1>2 DEF GiveUp, QueueSteps, Answers, accountVars, seatVars
<1>3. CASE Leave(q) /\ UNCHANGED <<accountVars, seatVars>>
  BY <1>3 DEF Leave, Freed, Locks, QueueSteps, Answers, accountVars, seatVars
<1>4. CASE LoseQueue(q) /\ UNCHANGED <<accountVars, seatVars>>
  BY <1>4 DEF LoseQueue, Freed, Locks, accountVars, seatVars
<1>5. CASE Die(q) /\ Fault(q)
  <2>1. /\ holder' \in [Locks -> Requests \cup {NoRequest}]
        /\ pc' \in [Requests -> QueueSteps \cup AccountSteps \cup SeatSteps]
        /\ answer' \in [Requests -> Answers]
    BY <1>5 DEF Die, Freed, Locks, QueueSteps, Answers
  <2>2. job[q].user \in Users
    BY WorkloadsTyped
  <2>3. spared' \in [Requests -> Users]
    BY <1>5, <2>2 DEF Fault, Forget, Target, LoseQueue, Die
  <2> QED
    BY <1>5, <2>1, <2>3, PlansAssumption, ProcessorsAssumption DEF Fault, Die, LoseQueue
<1> QED
  BY <1>1, <1>2, <1>3, <1>4, <1>5 DEF QueueStep, Fault

LEMMA CascadeTyped ==
    ASSUME members \subseteq Rows, Cascade
    PROVE  members' \subseteq members
BY DEF Cascade

LEMMA AccountTyped ==
    ASSUME TypeOK, NEW q \in Requests, AccountStep(q), Cascade,
           UNCHANGED <<invited, plan, limit, tally, unlocked>>
    PROVE  TypeOK'
<1> USE DEF TypeOK, At, Goto, Step, Respond, accountVars, Target
<1>1. job[q] \in [route : AccountRoutes \cup SeatRoutes, user : Users, to : Roles]
  BY WorkloadsTyped
<1>2. members' \subseteq members
  BY CascadeTyped
<1>3. CASE ArriveAtAccounts(q)
  BY <1>2, <1>3 DEF ArriveAtAccounts, QueueSteps, AccountSteps
<1>4. CASE Screen(q)
  BY <1>2, <1>4 DEF Screen, QueueSteps, AccountSteps, Answers
<1>5. CASE Refuse(q)
  BY <1>2, <1>5 DEF Refuse, QueueSteps, AccountSteps, Answers
<1>6. CASE Enter(q)
  BY <1>2, <1>6 DEF Enter, AccountSteps
<1>7. CASE Ask(q)
  <2>1. attested[q] + 1 \in 1..Processors
    BY <1>7, ProcessorsAssumption DEF Ask
  <2>2. erased' \in [Users -> SUBSET (1..Processors)]
    BY <1>1, <1>7, <2>1 DEF Ask
  <2>3. /\ attested' \in [Requests -> 0..Processors]
        /\ pc' \in [Requests -> QueueSteps \cup AccountSteps \cup SeatSteps]
        /\ answer' \in [Requests -> Answers]
    BY <1>7, <2>1, ProcessorsAssumption DEF Ask, QueueSteps, AccountSteps, Answers
  <2> QED
    BY <1>2, <1>7, <2>2, <2>3 DEF Ask
<1>8. CASE Asked(q)
  BY <1>2, <1>8, ProcessorsAssumption DEF Asked, AccountSteps
<1>9. CASE Vet(q)
  BY <1>2, <1>9 DEF Vet, QueueSteps, AccountSteps, Answers
<1>10. CASE Check(q)
  BY <1>2, <1>10 DEF Check, QueueSteps, AccountSteps, Answers
<1>11. CASE LockRow(q)
  BY <1>2, <1>11 DEF LockRow, QueueSteps, AccountSteps, Answers
<1>12. CASE EnterTrigger(q)
  BY <1>2, <1>12 DEF EnterTrigger, AccountSteps
<1>13. CASE Choose(q)
  BY <1>2, <1>13 DEF Choose, OthersSuper, Supers, QueueSteps, AccountSteps, Answers
<1>14. CASE Share(q)
  BY <1>2, <1>14 DEF Share, AccountSteps
<1>15. CASE Victim(q)
  BY <1>1, <1>2, <1>15 DEF Victim, Forget, QueueSteps, Answers
<1>16. CASE Write(q)
  <2>1. /\ DOMAIN role' \subseteq Users /\ role' \in [DOMAIN role' -> Roles]
    BY <1>1, <1>16 DEF Write
  <2> QED
    BY <1>1, <1>2, <1>16, <2>1 DEF Write, Forget, QueueSteps, Answers
<1> QED
  BY <1>3, <1>4, <1>5, <1>6, <1>7, <1>8, <1>9, <1>10, <1>11, <1>12, <1>13, <1>14,
     <1>15, <1>16 DEF AccountStep

LEMMA SeatTyped ==
    ASSUME TypeOK, NEW q \in Requests, SeatStep(q, DOMAIN role), UNCHANGED accountVars
    PROVE  TypeOK'
<1> USE DEF TypeOK, At, Goto, Step, Respond, Reply, ReadsLimit, accountVars, seatVars
<1>1. job[q] \in [route : AccountRoutes \cup SeatRoutes, user : Users, to : Roles]
  BY WorkloadsTyped
<1>2. /\ Unlimited \in 0..Unlimited /\ plan \in 0..Unlimited
      /\ members \subseteq Rows => Taken \in Nat
  BY PlansAssumption, FiniteAssumption, FS_Subset, FS_CardinalityType DEF Taken
<1>3. CASE ReadPlan(q)
  BY <1>2, <1>3 DEF ReadPlan, QueueSteps, SeatSteps
<1>4. CASE Evaluate(q)
  BY <1>2, <1>4 DEF Evaluate, QueueSteps, SeatSteps, Answers
<1>5. CASE Admit(q)
  BY <1>2, <1>5 DEF Admit, QueueSteps, SeatSteps, Answers
<1>6. CASE CountMembers(q)
  BY <1>2, <1>6 DEF CountMembers, SeatSteps
<1>7. CASE CheckLimit(q)
  BY <1>2, <1>7 DEF CheckLimit, QueueSteps, SeatSteps, Answers
<1>8. CASE Claim(q)
  BY <1>1, <1>2, <1>8 DEF Claim, QueueSteps, SeatSteps, Answers
<1>9. CASE ArriveToProvision(q)
  BY <1>9 DEF ArriveToProvision, QueueSteps
<1>10. CASE ReadPlanLocked(q)
  BY <1>2, <1>10 DEF ReadPlanLocked, SeatSteps
<1>11. CASE CountLocked(q)
  BY <1>2, <1>11 DEF CountLocked, QueueSteps, SeatSteps, Answers
<1>12. CASE Unreadable(q)
  BY <1>2, <1>12 DEF Unreadable, QueueSteps, Answers
<1>13. CASE Insert(q, DOMAIN role)
  <2>1. members' \subseteq Rows
    BY <1>1, <1>13 DEF Insert, Rows
  <2>2. invited' \in [Users -> {"pending", "accepted"}]
    BY <1>1, <1>13 DEF Insert
  <2>3. /\ pc' \in [Requests -> QueueSteps \cup AccountSteps \cup SeatSteps]
        /\ answer' \in [Requests -> Answers]
        /\ limit' \in [Requests -> 0..Unlimited]
    BY <1>2, <1>13 DEF Insert, QueueSteps, Answers
  <2>4. UNCHANGED <<job, holder, cut, plan, tally, unlocked>>
    BY <1>13 DEF Insert
  <2> QED
    BY <2>1, <2>2, <2>3, <2>4
<1> QED
  BY <1>3, <1>4, <1>5, <1>6, <1>7, <1>8, <1>9, <1>10, <1>11, <1>12, <1>13 DEF SeatStep

LEMMA TypeStep ==
    ASSUME TypeOK, [Next]_vars
    PROVE  TypeOK'
<1>1. CASE UNCHANGED vars
  BY <1>1 DEF TypeOK, vars, queueVars, accountVars, seatVars
<1>2. CASE Elsewhere
  BY <1>2 DEF TypeOK, Elsewhere, ChangePlan, RemoveMember, queueVars, accountVars
<1> QED
  BY <1>1, <1>2, StepCases, QueueTyped, AccountTyped, SeatTyped

-----------------------------------------------------------------------------
\* A step of q leaves the others where they are.
LEMMA OthersStay ==
    ASSUME TypeOK, NEW q \in Requests,
           \/ QueueStep(q) /\ UNCHANGED <<accountVars, seatVars>>
           \/ AccountStep(q) /\ Cascade /\ UNCHANGED <<invited, plan, limit, tally, unlocked>>
           \/ SeatStep(q, DOMAIN role) /\ UNCHANGED accountVars
           \/ Fault(q)
    PROVE  /\ job' = job
           /\ \A p \in Requests \ {q} :
                /\ pc'[p] = pc[p] /\ answer'[p] = answer[p]
                /\ attested'[p] = attested[p] /\ spared'[p] = spared[p]
                /\ limit'[p] = limit[p] /\ tally'[p] = tally[p]
                /\ p \in unlocked' <=> p \in unlocked
<1> USE DEF TypeOK, At, Goto, accountVars, seatVars
<1>1. CASE QueueStep(q) /\ UNCHANGED <<accountVars, seatVars>>
  BY <1>1 DEF QueueStep, TakeLock, GiveUp, Leave
<1>2. CASE AccountStep(q) /\ UNCHANGED <<limit, tally, unlocked>>
  BY <1>2 DEF AccountStep, ArriveAtAccounts, Screen, Refuse, Enter, Ask, Asked, Vet, Check,
     LockRow, EnterTrigger, Choose, Share, Victim, Write, Step, Respond, Forget
<1>3. CASE SeatStep(q, DOMAIN role) /\ UNCHANGED accountVars
  BY <1>3 DEF SeatStep, ReadPlan, Evaluate, Admit, CountMembers, CheckLimit, Claim,
     ArriveToProvision, ReadPlanLocked, CountLocked, Unreadable, Insert,
     Step, Respond, Reply, ReadsLimit
<1>4. CASE Fault(q)
  BY <1>4 DEF Fault, LoseQueue, Die, Forget
<1> QED
  BY <1>1, <1>2, <1>3, <1>4

\* What the organization's changes leave alone.
LEMMA ElsewhereStays ==
    ASSUME Elsewhere
    PROVE  UNCHANGED <<queueVars, accountVars, invited, limit, tally, unlocked>>
BY DEF Elsewhere, ChangePlan, RemoveMember

\* An account request takes the step that follows its own.
LEMMA AccountRouted ==
    ASSUME TypeOK, Routed, NEW q \in Requests, AccountStep(q)
    PROVE  /\ job[q].route \in AccountRoutes
           /\ pc[q] \in AccountSteps \cup {"arrived", "locked"}
           /\ pc'[q] \in AccountSteps \cup {"queued", "leaving"}
           /\ pc'[q] = "erasing" => job[q].route = "delete-user"
           /\ pc[q] = "arrived" => pc'[q] \in {"queued", "leaving"}
           /\ pc'[q] = "queued" => pc[q] = "arrived"
           /\ UNCHANGED <<job, holder, cut>>
<1> USE DEF TypeOK, Routed, At, Goto, Step, Respond, AccountSteps
<1>1. CASE ArriveAtAccounts(q)
  BY <1>1 DEF ArriveAtAccounts, AccountRoutes, Governed
<1>2. CASE Screen(q) \/ Refuse(q) \/ Enter(q)
  BY <1>2 DEF Screen, Refuse, Enter
<1>3. CASE Ask(q) \/ Asked(q) \/ Vet(q) \/ Check(q)
  BY <1>3 DEF Ask, Asked, Vet, Check
<1>4. CASE LockRow(q) \/ EnterTrigger(q) \/ Choose(q) \/ Share(q)
  BY <1>4 DEF LockRow, EnterTrigger, Choose, Share
<1>5. CASE Victim(q)
  BY <1>5 DEF Victim, InCircle
<1>6. CASE Write(q)
  BY <1>6 DEF Write
<1> QED
  BY <1>1, <1>2, <1>3, <1>4, <1>5, <1>6 DEF AccountStep

\* And so does a request for a seat.
LEMMA SeatRouted ==
    ASSUME TypeOK, Routed, NEW q \in Requests, SeatStep(q, DOMAIN role)
    PROVE  /\ job[q].route \in SeatRoutes
           /\ pc[q] \in SeatSteps \cup {"arrived", "locked"}
           /\ pc'[q] \in SeatSteps \cup {"queued", "leaving"}
           /\ pc[q] = "arrived" => pc'[q] \in {"queued", "leaving"} \/ q \in unlocked'
           /\ pc'[q] = "queued" => pc[q] = "arrived"
           /\ UNCHANGED <<job, holder, cut>>
           /\ unlocked \subseteq unlocked' /\ unlocked' \subseteq unlocked \cup {q}
<1> USE DEF TypeOK, Routed, At, Goto, Step, Respond, Reply, SeatSteps, SeatRoutes, Joins,
        seatVars
<1>1. CASE ReadPlan(q) \/ Evaluate(q) \/ Admit(q) \/ CountMembers(q)
  BY <1>1 DEF ReadPlan, Evaluate, Admit, CountMembers
<1>2. CASE CheckLimit(q) \/ Claim(q)
  BY <1>2 DEF CheckLimit, Claim
<1>3. CASE ArriveToProvision(q) \/ ReadPlanLocked(q) \/ CountLocked(q) \/ Unreadable(q)
  BY <1>3 DEF ArriveToProvision, ReadPlanLocked, CountLocked, Unreadable
<1>4. CASE Insert(q, DOMAIN role)
  BY <1>4 DEF Insert
<1> QED
  BY <1>1, <1>2, <1>3, <1>4 DEF SeatStep

\* The queue moves a request along, and gives or takes its lock.
LEMMA QueueMoved ==
    ASSUME TypeOK, NEW q \in Requests,
           (QueueStep(q) /\ UNCHANGED <<accountVars, seatVars>>) \/ Fault(q)
    PROVE  /\ pc'[q] \in {"locked", "answered"} \/ pc'[q] = pc[q]
           /\ UNCHANGED <<job, unlocked, role, erased>>
           /\ cut \subseteq cut'
BY DEF TypeOK, QueueStep, TakeLock, GiveUp, Leave, Fault, LoseQueue, Die, Goto, At,
   accountVars, seatVars

LEMMA RoutedStep ==
    ASSUME TypeOK, Routed, [Next]_vars
    PROVE  Routed'
<1>1. CASE UNCHANGED vars
  BY <1>1 DEF Routed, At, vars, queueVars, seatVars
<1>2. CASE Elsewhere
  BY <1>2, ElsewhereStays DEF Routed, At, queueVars
<1>3. ASSUME NEW q \in Requests,
             \/ QueueStep(q) /\ UNCHANGED <<accountVars, seatVars>>
             \/ Fault(q)
      PROVE  Routed'
  BY <1>3, OthersStay, QueueMoved DEF Routed, At, AccountSteps, SeatSteps
<1>4. ASSUME NEW q \in Requests, AccountStep(q), Cascade,
             UNCHANGED <<invited, plan, limit, tally, unlocked>>
      PROVE  Routed'
  BY <1>4, OthersStay, AccountRouted DEF Routed, At, AccountSteps, SeatSteps
<1>5. ASSUME NEW q \in Requests, SeatStep(q, DOMAIN role), UNCHANGED accountVars
      PROVE  Routed'
  BY <1>5, OthersStay, SeatRouted DEF Routed, At, AccountSteps, SeatSteps
<1> QED
  BY <1>1, <1>2, <1>3, <1>4, <1>5, StepCases

LEMMA OneInsideStep ==
    ASSUME TypeOK, Routed, OneInside, [Next]_vars
    PROVE  OneInside'
<1>1. CASE UNCHANGED vars
  BY <1>1 DEF OneInside, LockOf, vars, queueVars, seatVars
<1>2. CASE Elsewhere
  BY <1>2, ElsewhereStays DEF OneInside, LockOf, queueVars
<1>3. ASSUME NEW q \in Requests, QueueStep(q), UNCHANGED <<accountVars, seatVars>>
      PROVE  OneInside'
  <2>1. /\ job' = job /\ unlocked' = unlocked /\ cut \subseteq cut'
        /\ \A p \in Requests \ {q} : pc'[p] = pc[p]
    BY <1>3, OthersStay, QueueMoved
  <2>2. CASE TakeLock(q)
    BY <2>1, <2>2, NoRequestAssumption DEF OneInside, LockOf, Locks, TypeOK, TakeLock, Goto, At
  <2>3. CASE GiveUp(q)
    BY <2>1, <2>3 DEF OneInside, LockOf, TypeOK, GiveUp, Goto, At, Outside
  <2>4. CASE Leave(q)
    BY <2>1, <2>4 DEF OneInside, LockOf, Locks, TypeOK, Leave, Freed, Goto, At, Outside
  <2> QED
    BY <1>3, <2>2, <2>3, <2>4 DEF QueueStep
<1>4. ASSUME NEW q \in Requests, Fault(q)
      PROVE  OneInside'
  <2>1. /\ job' = job /\ unlocked' = unlocked /\ cut \subseteq cut'
        /\ \A p \in Requests \ {q} : pc'[p] = pc[p]
    BY <1>4, OthersStay, QueueMoved
  <2>2. CASE LoseQueue(q)
    BY <2>2 DEF OneInside, LoseQueue
  <2>3. CASE Die(q)
    BY <2>1, <2>3 DEF OneInside, LockOf, Locks, TypeOK, Die, Freed, Goto, At, Outside
  <2> QED
    BY <1>4, <2>2, <2>3 DEF Fault
<1>5. ASSUME NEW q \in Requests, AccountStep(q), Cascade,
             UNCHANGED <<invited, plan, limit, tally, unlocked>>
      PROVE  OneInside'
  BY <1>5, OthersStay, AccountRouted DEF OneInside, LockOf, Outside, AccountSteps
<1>6. ASSUME NEW q \in Requests, SeatStep(q, DOMAIN role), UNCHANGED accountVars
      PROVE  OneInside'
  BY <1>6, OthersStay, SeatRouted DEF OneInside, LockOf, Outside, SeatSteps
<1> QED
  BY <1>1, <1>2, <1>3, <1>4, <1>5, <1>6, StepCases

-----------------------------------------------------------------------------
\* What a step that is not a commit may do to the rows and the trigger's lock.
LEMMA InvariantKeptStep ==
    ASSUME TypeOK, Routed, InvariantKept, SuperAdminRemains, [Next]_vars
    PROVE  InvariantKept' /\ SuperAdminRemains'
<1> USE DEF InvariantKept, SuperAdminRemains, Present, LosesSuper, Deletes, Target, OthersSuper,
        Supers, At, HasRow, InTrigger
<1>1. CASE UNCHANGED vars
  BY <1>1 DEF vars, queueVars, accountVars
<1>2. CASE Elsewhere
  BY <1>2, ElsewhereStays DEF queueVars, accountVars
<1>3. ASSUME NEW q \in Requests,
             (QueueStep(q) /\ UNCHANGED <<accountVars, seatVars>>) \/ Fault(q)
      PROVE  InvariantKept' /\ SuperAdminRemains'
  <2>1. pc'[q] \notin HasRow \cup {"sharing"} \/ pc'[q] = pc[q]
    BY <1>3, QueueMoved
  <2>2. pc'[q] = pc[q] => spared'[q] = spared[q]
    BY <1>3 DEF QueueStep, Fault, LoseQueue, Die, Goto, TypeOK, accountVars, seatVars
  <2> QED
    BY <1>3, <2>1, <2>2, OthersStay, QueueMoved
<1>4. ASSUME NEW q \in Requests, SeatStep(q, DOMAIN role), UNCHANGED accountVars
      PROVE  InvariantKept' /\ SuperAdminRemains'
  <2>1. pc'[q] \notin HasRow \cup {"sharing"}
    BY <1>4, SeatRouted DEF SeatSteps
  <2> QED
    BY <1>4, <2>1, OthersStay DEF accountVars
<1>5. ASSUME NEW q \in Requests, AccountStep(q), Cascade,
             UNCHANGED <<invited, plan, limit, tally, unlocked>>
      PROVE  InvariantKept' /\ SuperAdminRemains'
  <2>1. /\ job' = job
        /\ \A p \in Requests \ {q} : pc'[p] = pc[p] /\ spared'[p] = spared[p]
    BY <1>5, OthersStay
  <2> USE DEF TypeOK, Step, Respond, Goto, accountVars
  <2>2. CASE ArriveAtAccounts(q) \/ Screen(q) \/ Refuse(q) \/ Enter(q)
    BY <2>1, <2>2 DEF ArriveAtAccounts, Screen, Refuse, Enter
  <2>3. CASE Ask(q) \/ Asked(q) \/ Vet(q) \/ Check(q)
    BY <2>1, <2>3 DEF Ask, Asked, Vet, Check
  <2>4. CASE LockRow(q)
    BY <2>1, <2>4 DEF LockRow, RowHeld
  <2>5. CASE EnterTrigger(q)
    BY <2>1, <2>5 DEF EnterTrigger, InvariantFree
  <2>6. CASE Choose(q)
    BY <2>1, <2>6 DEF Choose
  <2>7. CASE Share(q)
    BY <2>1, <2>7 DEF Share
  <2>8. CASE Victim(q)
    BY <2>1, <2>8 DEF Victim, Forget
  <2>9. CASE Write(q)
    BY <2>1, <2>9 DEF Write, Forget
  <2> QED
    BY <1>5, <2>2, <2>3, <2>4, <2>5, <2>6, <2>7, <2>8, <2>9 DEF AccountStep
<1> QED
  BY <1>1, <1>2, <1>3, <1>4, <1>5, StepCases

\* Nobody comes back, and nothing that was erased does.
LEMMA AccountsShrink ==
    ASSUME TypeOK, NEW q \in Requests, AccountStep(q)
    PROVE  /\ DOMAIN role' \subseteq DOMAIN role
           /\ \A u \in Users : erased[u] \subseteq erased'[u]
<1> USE DEF TypeOK, accountVars
<1>1. CASE Ask(q)
  BY <1>1 DEF Ask
<1>2. CASE Write(q)
  BY <1>2 DEF Write
<1> QED
  BY <1>1, <1>2 DEF AccountStep, ArriveAtAccounts, Screen, Refuse, Enter, Asked, Vet, Check,
     LockRow, EnterTrigger, Choose, Share, Victim

\* The steps an account request takes keep what it knows of the processors.
LEMMA OwnReceiptKept ==
    ASSUME TypeOK, Routed, Receipted, NEW q \in Requests, AccountStep(q)
    PROVE  /\ ~At(q, "erasing")' => attested'[q] = 0
           /\ At(q, "erasing")' => 1..attested'[q] \subseteq erased'[Target(q)]
           /\ job[q].route = "delete-user" /\ pc'[q] \in AccountSteps \ {"handling", "erasing"}
                => 1..Processors \subseteq erased'[Target(q)]
           /\ answer'[q] = "deleted" => ~Present(q)' /\ 1..Processors \subseteq erased'[Target(q)]
<1> USE DEF TypeOK, At, Goto, Step, Respond, accountVars, Receipted, ReceiptTrue, AccountSteps,
        AccountRoutes, Target, Present
<1>1. /\ job[q] \in [route : AccountRoutes \cup SeatRoutes, user : Users, to : Roles]
      /\ Processors \in Nat /\ attested[q] \in 0..Processors
      /\ job' = job
  BY WorkloadsTyped, ProcessorsAssumption, AccountRouted
<1>2. CASE ArriveAtAccounts(q) \/ Screen(q) \/ Refuse(q)
  BY <1>1, <1>2 DEF ArriveAtAccounts, Screen, Refuse
<1>3. CASE Enter(q)
  BY <1>1, <1>3 DEF Enter
<1>4. CASE Ask(q)
  <2>1. PICK outcome \in {"completed", "pending", "failed"}, done \in BOOLEAN :
          /\ outcome = "completed" => done
          /\ erased' = IF done
                       THEN [erased EXCEPT ![Target(q)] = @ \cup {attested[q] + 1}]
                       ELSE erased
          /\ IF outcome \in Attests
             THEN /\ Step(q, "erasing", "erasing")
                  /\ attested' = [attested EXCEPT ![q] = @ + 1]
             ELSE Respond(q, "refused") /\ attested' = [attested EXCEPT ![q] = 0]
    BY <1>4 DEF Ask
  <2>2. CASE outcome \in Attests
    <3>1. /\ pc'[q] = "erasing" /\ answer' = answer /\ attested'[q] = attested[q] + 1
          /\ role' = role /\ pc[q] = "erasing"
      BY <1>4, <2>1, <2>2 DEF Ask
    <3>2. erased'[Target(q)] = erased[Target(q)] \cup {attested[q] + 1}
      BY <1>1, <2>1, <2>2 DEF Attests
    <3>3. 1..attested'[q] \subseteq erased'[Target(q)]
      BY <1>1, <3>1, <3>2
    <3>4. answer'[q] = "deleted" => 1..Processors \subseteq erased'[Target(q)]
      BY <1>1, <3>1, <3>2
    <3> QED
      BY <1>1, <3>1, <3>3, <3>4
  <2>3. CASE outcome \notin Attests
    BY <1>1, <2>1, <2>3
  <2> QED
    BY <2>2, <2>3
<1>5. CASE Asked(q)
  BY <1>1, <1>5 DEF Asked
<1>6. CASE Vet(q) \/ Check(q)
  BY <1>1, <1>6 DEF Vet, Check
<1>7. CASE LockRow(q)
  <2>1. UNCHANGED <<role, erased, attested>> /\ pc[q] = "rowing" /\ attested[q] = 0
    BY <1>7 DEF LockRow
  <2>2. \/ pc'[q] \in {"waiting", "writing"} /\ answer'[q] = answer[q] /\ answer[q] # "deleted"
        \/ pc'[q] = "leaving" /\ ~Present(q) /\ answer'[q] = "deleted"
           /\ job[q].route = "delete-user"
        \/ pc'[q] = "leaving" /\ answer'[q] = "done"
    BY <1>1, <1>7 DEF LockRow
  <2> QED
    BY <1>1, <2>1, <2>2
<1>8. CASE EnterTrigger(q) \/ Choose(q) \/ Share(q)
  BY <1>1, <1>8 DEF EnterTrigger, Choose, Share
<1>9. CASE Victim(q)
  BY <1>1, <1>9 DEF Victim, InCircle
<1>10. CASE Write(q)
  BY <1>1, <1>10 DEF Write, Deletes
<1> QED
  BY <1>2, <1>3, <1>4, <1>5, <1>6, <1>7, <1>8, <1>9, <1>10 DEF AccountStep

LEMMA ReceiptedStep ==
    ASSUME TypeOK, Routed, Receipted, [Next]_vars
    PROVE  Receipted'
<1>1. CASE UNCHANGED vars
  BY <1>1 DEF Receipted, ReceiptTrue, Target, Present, At, vars, queueVars, accountVars
<1>2. CASE Elsewhere
  BY <1>2, ElsewhereStays DEF Receipted, ReceiptTrue, Target, Present, At, queueVars, accountVars
<1>3. ASSUME NEW q \in Requests,
             (QueueStep(q) /\ UNCHANGED <<accountVars, seatVars>>) \/ Fault(q)
      PROVE  Receipted'
  <2>1. UNCHANGED <<job, role, erased>>
    BY <1>3, QueueMoved
  <2>2. /\ answer'[q] = "deleted" => answer[q] = "deleted"
        /\ \/ pc'[q] = pc[q] /\ attested'[q] = attested[q]
           \/ pc'[q] \in {"locked", "answered"} /\ attested'[q] = 0
    <3> USE DEF TypeOK, Goto, At, Receipted, accountVars
    <3>1. CASE TakeLock(q) /\ UNCHANGED accountVars
      BY <3>1 DEF TakeLock
    <3>2. CASE GiveUp(q) /\ UNCHANGED accountVars
      BY <3>2 DEF GiveUp
    <3>3. CASE Leave(q) /\ UNCHANGED accountVars
      BY <3>3 DEF Leave
    <3>4. CASE LoseQueue(q) /\ UNCHANGED accountVars
      BY <3>4 DEF LoseQueue
    <3>5. CASE Die(q) /\ attested' = [attested EXCEPT ![q] = 0]
      BY <3>5 DEF Die
    <3> QED
      BY <1>3, <3>1, <3>2, <3>3, <3>4, <3>5 DEF QueueStep, Fault
  <2> QED
    BY <1>3, <2>1, <2>2, OthersStay
    DEF Receipted, ReceiptTrue, Target, Present, At, AccountSteps
<1>4. ASSUME NEW q \in Requests, AccountStep(q), Cascade,
             UNCHANGED <<invited, plan, limit, tally, unlocked>>
      PROVE  Receipted'
  <2>1. job' = job /\ \A p \in Requests : job[p].user \in Users
    BY <1>4, OthersStay, WorkloadsTyped DEF TypeOK
  <2>2. \A u \in Users : erased[u] \subseteq erased'[u] /\ erased'[u] \subseteq 1..Processors
    BY <1>4, AccountsShrink, AccountTyped DEF TypeOK
  <2>3. \A p \in Requests \ {q} : ~Present(p) => ~Present(p)'
    BY <1>4, <2>1, AccountsShrink DEF Present, Target
  <2>4. \A p \in Requests \ {q} :
          /\ ~At(p, "erasing")' => attested'[p] = 0
          /\ At(p, "erasing")' => 1..attested'[p] \subseteq erased'[Target(p)]
          /\ job[p].route = "delete-user" /\ pc'[p] \in AccountSteps \ {"handling", "erasing"}
               => 1..Processors \subseteq erased'[Target(p)]
          /\ answer'[p] = "deleted" => ~Present(p)' /\ 1..Processors \subseteq erased'[Target(p)]
    <3> SUFFICES ASSUME NEW p \in Requests \ {q}
                 PROVE  /\ ~At(p, "erasing")' => attested'[p] = 0
                        /\ At(p, "erasing")' => 1..attested'[p] \subseteq erased'[Target(p)]
                        /\ job[p].route = "delete-user"
                              /\ pc'[p] \in AccountSteps \ {"handling", "erasing"}
                             => 1..Processors \subseteq erased'[Target(p)]
                        /\ answer'[p] = "deleted"
                             => ~Present(p)' /\ 1..Processors \subseteq erased'[Target(p)]
      OBVIOUS
    <3>1. pc'[p] = pc[p] /\ answer'[p] = answer[p] /\ attested'[p] = attested[p]
      BY <1>4, OthersStay
    <3>2. erased[Target(p)] \subseteq erased'[Target(p)]
      BY <2>1, <2>2 DEF Target
    <3>3. answer[p] = "deleted" => ~Present(p) /\ erased[Target(p)] = 1..Processors
      BY DEF Receipted, ReceiptTrue
    <3> QED
      BY <2>3, <3>1, <3>2, <3>3 DEF Receipted, At
  <2>5. \A p \in Requests :
          /\ ~At(p, "erasing")' => attested'[p] = 0
          /\ At(p, "erasing")' => 1..attested'[p] \subseteq erased'[Target(p)]
          /\ job[p].route = "delete-user" /\ pc'[p] \in AccountSteps \ {"handling", "erasing"}
               => 1..Processors \subseteq erased'[Target(p)]
          /\ answer'[p] = "deleted" => ~Present(p)' /\ 1..Processors \subseteq erased'[Target(p)]
    BY <1>4, <2>4, OwnReceiptKept
  <2> QED
    BY <2>1, <2>2, <2>5 DEF Receipted, ReceiptTrue, Target, At
<1>5. ASSUME NEW q \in Requests, SeatStep(q, DOMAIN role), UNCHANGED accountVars
      PROVE  Receipted'
  <2>1. /\ pc[q] # "erasing" /\ pc'[q] \notin AccountSteps
        /\ UNCHANGED <<job, role, erased, attested>>
    BY <1>5, SeatRouted DEF SeatSteps, AccountSteps, accountVars
  <2>2. answer'[q] = "deleted" => answer[q] = "deleted"
    BY <1>5 DEF TypeOK, SeatStep, ReadPlan, Evaluate, Admit, CountMembers, CheckLimit, Claim,
       ArriveToProvision, ReadPlanLocked, CountLocked, Unreadable, Insert, Step, Respond, Reply
  <2> QED
    BY <1>5, <2>1, <2>2, OthersStay
    DEF Receipted, ReceiptTrue, Target, Present, At, AccountSteps
<1> QED
  BY <1>1, <1>2, <1>3, <1>4, <1>5, StepCases

-----------------------------------------------------------------------------
\* While every connection stands, one account request is inside at a time.
LEMMA AccountAlone ==
    ASSUME Routed, OneInside, cut = {}, NEW p \in Requests, NEW q \in Requests,
           pc[p] \in AccountSteps, pc[q] \in AccountSteps \cup {"locked"},
           job[q].route \in AccountRoutes
    PROVE  p = q
BY DEF Routed, OneInside, Outside, LockOf, AccountSteps, AccountRoutes, SeatRoutes

\* The governed operation does not let the last super admin delete itself.
LEMMA LastIsRejected ==
    ASSUME NEW q \in Requests, Supers = {Target(q)}
    PROVE  SelfDeletionRejected(q)
<1>1. Cardinality({Target(q)}) = 1
  BY FS_Singleton
<1> QED
  BY <1>1 DEF SelfDeletionRejected

LEMMA OwnLastAdminKept ==
    ASSUME TypeOK, Routed, OneInside, InvariantKept, LastAdminKept, NEW q \in Requests,
           AccountStep(q), cut = {}
    PROVE  /\ answer'[q] \notin {"rejected", "aborted"}
           /\ job[q].route = "delete-user" /\ pc'[q] \in {"handling", "erasing"}
                => Supers' # {Target(q)}
           /\ At(q, "rowing")' /\ LosesSuper(q)' => OthersSuper(q)' # {}
           /\ pc'[q] \in {"waiting", "choosing", "sharing"} => OthersSuper(q)' # {}
<1> USE DEF TypeOK, At, Goto, Step, Respond, accountVars, LastAdminKept, StableErrors,
        Target, Supers, OthersSuper, LosesSuper, Deletes, AccountRoutes
<1>1. job' = job /\ job[q].route \in AccountRoutes
  BY AccountRouted
<1>2. CASE ArriveAtAccounts(q)
  BY <1>1, <1>2 DEF ArriveAtAccounts, Governed
<1>3. CASE Screen(q)
  <2>1. job[q].route = "delete-user" /\ pc'[q] = "handling" => Supers # {Target(q)}
    BY <1>3, LastIsRejected DEF Screen
  <2> QED
    BY <1>1, <1>3, <2>1 DEF Screen
<1>4. CASE Refuse(q) \/ Enter(q)
  BY <1>1, <1>4 DEF Refuse, Enter
<1>5. CASE Ask(q) \/ Asked(q)
  <2>1. role' = role /\ pc[q] = "erasing" /\ job[q].route = "delete-user"
    BY <1>5 DEF Ask, Asked, Routed
  <2>2. /\ pc'[q] \in {"erasing", "vetting", "leaving"}
        /\ answer'[q] \notin {"rejected", "aborted"}
    BY <1>5 DEF Ask, Asked
  <2> QED
    BY <1>1, <2>1, <2>2
<1>6. CASE Vet(q) \/ Check(q)
  BY <1>1, <1>6 DEF Vet, Check
<1>7. CASE LockRow(q)
  BY <1>1, <1>7 DEF LockRow
<1>8. CASE EnterTrigger(q) \/ Share(q)
  BY <1>1, <1>8 DEF EnterTrigger, Share
<1>9. CASE Choose(q)
  BY <1>1, <1>9 DEF Choose
<1>10. CASE Victim(q)
  <2>1. PICK p \in Requests :
          \/ At(q, "sharing") /\ At(p, "waiting")
          \/ At(p, "sharing") /\ At(q, "waiting")
    BY <1>10 DEF Victim, InCircle
  <2>2. p = q
    BY <1>1, <2>1, AccountAlone DEF AccountSteps
  <2> QED
    BY <2>1, <2>2
<1>11. CASE Write(q)
  BY <1>1, <1>11 DEF Write
<1> QED
  BY <1>2, <1>3, <1>4, <1>5, <1>6, <1>7, <1>8, <1>9, <1>10, <1>11 DEF AccountStep

LEMMA LastAdminKeptStep ==
    ASSUME TypeOK, Routed, OneInside, InvariantKept, LastAdminKept, [Next]_vars
    PROVE  LastAdminKept'
<1> DEFINE Kept(p) ==
      /\ answer[p] \notin {"rejected", "aborted"}
      /\ job[p].route = "delete-user" /\ pc[p] \in {"handling", "erasing"} => Supers # {Target(p)}
      /\ At(p, "rowing") /\ LosesSuper(p) => OthersSuper(p) # {}
      /\ pc[p] \in {"waiting", "choosing", "sharing"} => OthersSuper(p) # {}
<1>1. LastAdminKept <=> (cut = {} => \A p \in Requests : Kept(p))
  BY DEF LastAdminKept, StableErrors
<1>2. (LastAdminKept <=> (cut = {} => \A p \in Requests : Kept(p)))'
  BY DEF LastAdminKept, StableErrors
<1>3. CASE UNCHANGED vars
  BY <1>1, <1>2, <1>3 DEF vars, queueVars, accountVars, At, Target, Supers, OthersSuper,
     LosesSuper, Deletes
<1>4. CASE Elsewhere
  BY <1>1, <1>2, <1>4, ElsewhereStays DEF queueVars, accountVars, At, Target, Supers,
     OthersSuper, LosesSuper, Deletes
<1>5. ASSUME NEW q \in Requests,
             \/ QueueStep(q) /\ UNCHANGED <<accountVars, seatVars>>
             \/ Fault(q)
             \/ SeatStep(q, DOMAIN role) /\ UNCHANGED accountVars
      PROVE  LastAdminKept'
  <2>1. UNCHANGED <<job, role>> /\ cut \subseteq cut'
    BY <1>5, QueueMoved, SeatRouted, OthersStay DEF accountVars
  <2>2. pc'[q] = pc[q] \/ pc'[q] \notin AccountSteps
    BY <1>5, QueueMoved, SeatRouted DEF AccountSteps, SeatSteps
  <2>3. answer'[q] = answer[q] \/ answer'[q] \notin {"rejected", "aborted"}
    BY <1>5 DEF TypeOK, QueueStep, TakeLock, GiveUp, Leave, Fault, LoseQueue, Die, Goto, At,
       SeatStep, ReadPlan, Evaluate, Admit, CountMembers, CheckLimit, Claim,
       ArriveToProvision, ReadPlanLocked, CountLocked, Unreadable, Insert, Step, Respond, Reply
  <2>4. \A p \in Requests \ {q} : pc'[p] = pc[p] /\ answer'[p] = answer[p]
    BY <1>5, OthersStay
  <2>5. \A p \in Requests : Kept(p) => Kept(p)'
    BY <2>1, <2>2, <2>3, <2>4 DEF At, Target, Supers, OthersSuper, LosesSuper, Deletes, AccountSteps
  <2> QED
    BY <1>1, <1>2, <2>1, <2>5
<1>6. ASSUME NEW q \in Requests, AccountStep(q), Cascade,
             UNCHANGED <<invited, plan, limit, tally, unlocked>>
      PROVE  LastAdminKept'
  <2> SUFFICES ASSUME cut = {}, NEW p \in Requests
               PROVE  Kept(p)'
    BY <1>2, <1>6, AccountRouted
  <2>1. CASE p = q
    BY <1>6, <2>1, OwnLastAdminKept, OthersStay DEF Target
  <2>2. CASE p # q
    <3>1. job' = job /\ pc'[p] = pc[p] /\ answer'[p] = answer[p]
      BY <1>6, <2>2, OthersStay
    <3>2. CASE Write(q)
      <4>1. pc[p] \notin AccountSteps
        BY <2>2, <3>2, AccountAlone, AccountRouted, <1>6 DEF Write, AccountSteps
      <4> QED
        BY <1>1, <3>1, <4>1 DEF At, AccountSteps
    <3>3. CASE ~Write(q)
      <4>1. role' = role
        BY <1>6, <3>3 DEF AccountStep, ArriveAtAccounts, Screen, Refuse, Enter, Ask, Asked,
           Vet, Check, LockRow, EnterTrigger, Choose, Share, Victim, accountVars
      <4> QED
        BY <1>1, <3>1, <4>1 DEF At, Target, Supers, OthersSuper, LosesSuper, Deletes
    <3> QED
      BY <3>2, <3>3
  <2> QED
    BY <2>1, <2>2
<1> QED
  BY <1>3, <1>4, <1>5, <1>6, StepCases

-----------------------------------------------------------------------------
\* While every connection stands and the plan was never unlimited, one request
\* for a seat is inside at a time.
LEMMA SeatAlone ==
    ASSUME Routed, OneInside, cut = {}, unlocked = {}, NEW p \in Requests, NEW q \in Requests,
           pc[p] \in SeatSteps, pc[q] \in SeatSteps
    PROVE  p = q
BY DEF Routed, OneInside, Outside, LockOf, SeatSteps

LEMMA Counted ==
    ASSUME TypeOK
    PROVE  Taken \in Nat /\ Taken < Unlimited
<1>1. /\ IsFiniteSet(members) /\ Cardinality(members) <= Cardinality(Rows)
      /\ Cardinality(members) \in Nat /\ Cardinality(Rows) \in Nat
  BY FiniteAssumption, FS_Subset, FS_CardinalityType DEF TypeOK
<1> QED
  BY <1>1, PlansAssumption DEF Taken

\* When no member joins the count does not rise.
LEMMA CountFalls ==
    ASSUME TypeOK, members' \subseteq members
    PROVE  Taken' \in Nat /\ Taken' <= Taken
<1>1. IsFiniteSet(members)
  BY FiniteAssumption, FS_Subset DEF TypeOK
<1>2. /\ IsFiniteSet(members') /\ Cardinality(members') <= Cardinality(members)
  BY <1>1, FS_Subset
<1> QED
  BY <1>2, FS_CardinalityType DEF Taken

LEMMA OwnSeatLeft ==
    ASSUME TypeOK, Routed, OneInside, SeatsLeft, NEW q \in Requests,
           SeatStep(q, DOMAIN role)
    PROVE  /\ pc'[q] \in {"arrived", "queued", "locked"} /\ job[q].route = "provision"
                => limit'[q] = Unlimited
           /\ cut = {} /\ unlocked' = {} =>
                /\ pc'[q] \in {"admitted", "tallying", "limiting", "claiming", "inserting"}
                     => Taken' < limit'[q]
                /\ At(q, "limiting")' => Taken' <= tally'[q]
<1> USE DEF TypeOK, At, Goto, Step, Respond, Reply, ReadsLimit, seatVars
<1>1. /\ Taken \in Nat /\ Taken < Unlimited
      /\ Unlimited \in Nat /\ plan \in 0..Unlimited /\ limit[q] \in 0..Unlimited
      /\ tally[q] \in Nat
  BY Counted, PlansAssumption
<1>2. members' = members => Taken' = Taken
  BY DEF Taken
<1>3. CASE ReadPlan(q)
  BY <1>1, <1>2, <1>3 DEF ReadPlan, Joins
<1>4. CASE Evaluate(q)
  BY <1>1, <1>2, <1>4 DEF Evaluate, SeatsLeft
<1>5. CASE Admit(q)
  BY <1>1, <1>2, <1>5 DEF Admit, SeatsLeft
<1>6. CASE CountMembers(q)
  BY <1>1, <1>2, <1>6 DEF CountMembers, SeatsLeft
<1>7. CASE CheckLimit(q)
  BY <1>1, <1>2, <1>7 DEF CheckLimit, SeatsLeft
<1>8. CASE Claim(q)
  BY <1>1, <1>2, <1>8 DEF Claim, SeatsLeft
<1>9. CASE ArriveToProvision(q)
  BY <1>1, <1>2, <1>9 DEF ArriveToProvision, SeatsLeft
<1>10. CASE ReadPlanLocked(q)
  BY <1>1, <1>2, <1>10 DEF ReadPlanLocked, SeatsLeft
<1>11. CASE CountLocked(q)
  BY <1>1, <1>2, <1>11 DEF CountLocked, SeatLeft, SeatsLeft
<1>12. CASE Unreadable(q)
  BY <1>12 DEF Unreadable
<1>13. CASE Insert(q, DOMAIN role)
  BY <1>13 DEF Insert
<1> QED
  BY <1>3, <1>4, <1>5, <1>6, <1>7, <1>8, <1>9, <1>10, <1>11, <1>12, <1>13 DEF SeatStep

\* Only the last step of a request for a seat makes a member.
LEMMA OnlyInsertJoins ==
    ASSUME TypeOK, NEW q \in Requests, SeatStep(q, DOMAIN role)
    PROVE  \/ members' = members
           \/ /\ Insert(q, DOMAIN role)
              /\ members' = members \cup {[user |-> job[q].user, by |-> q]}
<1>1. CASE Insert(q, DOMAIN role)
  BY <1>1 DEF Insert
<1> QED
  BY <1>1 DEF SeatStep, ReadPlan, Evaluate, Admit, CountMembers, CheckLimit, Claim,
     ArriveToProvision, ReadPlanLocked, CountLocked, Unreadable, seatVars

LEMMA SeatsLeftStep ==
    ASSUME TypeOK, Routed, OneInside, SeatsLeft, [Next]_vars
    PROVE  SeatsLeft'
<1> DEFINE Fresh(p) == pc[p] \in {"arrived", "queued", "locked"} /\ job[p].route = "provision"
                         => limit[p] = Unlimited
           Left(p) ==
             /\ pc[p] \in {"admitted", "tallying", "limiting", "claiming", "inserting"}
                  => Taken < limit[p]
             /\ At(p, "limiting") => Taken <= tally[p]
<1>1. /\ SeatsLeft <=> /\ \A p \in Requests : Fresh(p)
                       /\ cut = {} /\ unlocked = {} => \A p \in Requests : Left(p)
      /\ (SeatsLeft <=> /\ \A p \in Requests : Fresh(p)
                        /\ cut = {} /\ unlocked = {} => \A p \in Requests : Left(p))'
  BY DEF SeatsLeft
<1>2. Taken \in Nat /\ \A p \in Requests : limit[p] \in Nat /\ tally[p] \in Nat
  BY Counted, PlansAssumption DEF TypeOK
<1>3. CASE UNCHANGED vars
  BY <1>1, <1>3 DEF vars, queueVars, seatVars, At, Taken
<1>4. CASE Elsewhere
  <2>1. members' \subseteq members
    BY <1>4 DEF Elsewhere, ChangePlan, RemoveMember
  <2>2. Taken' \in Nat /\ Taken' <= Taken
    BY <2>1, CountFalls
  <2>3. \A p \in Requests : (Fresh(p) => Fresh(p)') /\ (Left(p) => Left(p)')
    BY <1>2, <1>4, <2>2, ElsewhereStays DEF queueVars, At
  <2> QED
    BY <1>1, <1>4, <2>3, ElsewhereStays DEF queueVars
<1>5. ASSUME NEW q \in Requests,
             (QueueStep(q) /\ UNCHANGED <<accountVars, seatVars>>) \/ Fault(q)
      PROVE  SeatsLeft'
  <2>1. Taken' = Taken
    BY <1>5 DEF Fault, LoseQueue, seatVars, Taken
  <2>2. \/ limit'[q] = limit[q] /\ (pc'[q] = pc[q] /\ tally'[q] = tally[q])
        \/ limit'[q] = limit[q] /\ pc[q] = "queued" /\ pc'[q] = "locked"
        \/ pc'[q] = "answered"
    BY <1>5 DEF TypeOK, QueueStep, TakeLock, GiveUp, Leave, Fault, LoseQueue, Die, Goto, At,
       seatVars
  <2>3. \A p \in Requests : (Fresh(p) => Fresh(p)') /\ (Left(p) => Left(p)')
    BY <1>5, <2>1, <2>2, OthersStay DEF At
  <2> QED
    BY <1>1, <1>5, <2>3, QueueMoved
<1>6. ASSUME NEW q \in Requests, AccountStep(q), Cascade,
             UNCHANGED <<invited, plan, limit, tally, unlocked>>
      PROVE  SeatsLeft'
  <2>1. Taken' \in Nat /\ Taken' <= Taken
    BY <1>6, CascadeTyped, CountFalls DEF TypeOK
  <2>2. /\ pc'[q] \in AccountSteps \cup {"queued", "leaving"}
        /\ job' = job /\ cut' = cut /\ job[q].route \in AccountRoutes
    BY <1>6, AccountRouted
  <2>3. \A p \in Requests : (Fresh(p) => Fresh(p)') /\ (Left(p) => Left(p)')
    BY <1>2, <1>6, <2>1, <2>2, OthersStay DEF At, AccountSteps, AccountRoutes
  <2> QED
    BY <1>1, <1>6, <2>2, <2>3
<1>7. ASSUME NEW q \in Requests, SeatStep(q, DOMAIN role), UNCHANGED accountVars
      PROVE  SeatsLeft'
  <2>1. /\ job' = job /\ cut' = cut /\ unlocked \subseteq unlocked'
        /\ \A p \in Requests \ {q} : pc'[p] = pc[p] /\ limit'[p] = limit[p] /\ tally'[p] = tally[p]
    BY <1>7, SeatRouted, OthersStay
  <2>2. /\ Fresh(q)'
        /\ cut' = {} /\ unlocked' = {} => Left(q)'
    BY <1>7, <2>1, OwnSeatLeft
  <2>3. \A p \in Requests \ {q} : Fresh(p) => Fresh(p)'
    BY <2>1
  <2>4. ASSUME cut' = {}, unlocked' = {}, NEW p \in Requests \ {q}
        PROVE  Left(p)'
    <3>1. CASE members' = members
      BY <1>1, <2>1, <2>4, <3>1 DEF At, Taken
    <3>2. CASE Insert(q, DOMAIN role)
      <4>1. pc[p] \notin SeatSteps
        BY <2>1, <2>4, <3>2, SeatAlone DEF Insert, Step, At, SeatSteps
      <4> QED
        BY <2>1, <4>1 DEF At, SeatSteps
    <3> QED
      BY <1>7, <3>1, <3>2, OnlyInsertJoins
  <2> QED
    BY <1>1, <2>2, <2>3, <2>4
<1> QED
  BY <1>3, <1>4, <1>5, <1>6, <1>7, StepCases

-----------------------------------------------------------------------------
LEMMA InvariantInit ==
    ASSUME Init
    PROVE  IInv
<1> USE DEF Init, QueueInit, AccountInit, SeatsInit
<1>1. /\ \A q \in Requests : job[q].user \in Users
      /\ DOMAIN role = Users
  BY WorkloadsTyped
<1>2. TypeOK
  <2>1. members \subseteq Rows
    BY FoundersAssumption DEF Rows
  <2>2. plan \in Plans /\ Unlimited \in 0..Unlimited /\ 0 \in 0..Processors
    BY PlansAssumption, ProcessorsAssumption
  <2> QED
    BY <1>1, <2>1, <2>2 DEF TypeOK, QueueSteps, Answers, Target
<1>3. Routed /\ OneInside
  BY DEF Routed, OneInside, Outside, At, AccountSteps, SeatSteps
<1>4. InvariantKept /\ SuperAdminRemains
  BY DEF InvariantKept, SuperAdminRemains, At, HasRow, InTrigger
<1>5. Receipted
  BY DEF Receipted, ReceiptTrue, At, AccountSteps
<1>6. LastAdminKept
  BY DEF LastAdminKept, StableErrors, At
<1>7. SeatsLeft
  BY DEF SeatsLeft, At
<1> QED
  BY <1>2, <1>3, <1>4, <1>5, <1>6, <1>7 DEF IInv

LEMMA InvariantStep ==
    ASSUME IInv, [Next]_vars
    PROVE  IInv'
BY TypeStep, RoutedStep, OneInsideStep, InvariantKeptStep, ReceiptedStep, LastAdminKeptStep,
   SeatsLeftStep DEF IInv

\* The seven parts together are an invariant of guarded requests.
THEOREM InvariantHolds == Spec => []IInv
<1>1. Init => IInv
  BY InvariantInit
<1>2. IInv /\ [Next]_vars => IInv'
  BY InvariantStep
<1> QED
  BY <1>1, <1>2, PTL DEF Spec

\* Accounts, locks, members, plans and answers keep their types.
THEOREM TypeCorrect == Spec => []TypeOK
<1>1. IInv => TypeOK
  BY DEF IInv
<1> QED
  BY <1>1, InvariantHolds, PTL

\* Whatever demotions and deletions run at once, and whichever connections and
\* isolates are lost, the trigger leaves a super admin.
THEOREM SuperAdminAlwaysRemains == Spec => []SuperAdminRemains
<1>1. IInv => SuperAdminRemains
  BY DEF IInv
<1> QED
  BY <1>1, InvariantHolds, PTL

\* A request is answered "deleted" only when the account is gone and every
\* processor has erased its data.
THEOREM ReceiptsAlwaysTrue == Spec => []ReceiptTrue
<1>1. IInv => ReceiptTrue
  BY DEF IInv, Receipted
<1> QED
  BY <1>1, InvariantHolds, PTL

\* With the queue's connections in place nobody sees the trigger's exception or
\* a deadlock: the governance lock spares the routes both.
THEOREM ErrorsStayStable == Spec => []StableErrors
<1>1. IInv => StableErrors
  BY DEF IInv, LastAdminKept
<1> QED
  BY <1>1, InvariantHolds, PTL

\* With the queue's connections in place no processor is asked to erase the
\* last super admin.
THEOREM LastAdminAlwaysSpared == Spec => LastAdminSpared
<1>1. ASSUME IInv, [Next]_vars
      PROVE  [\A u \in Users : erased'[u] # erased[u] /\ cut = {}
                => Supers # {u}]_<<erased, role, cut>>
  <2> SUFFICES ASSUME NEW u \in Users, erased'[u] # erased[u], cut = {}
               PROVE  Supers # {u}
    OBVIOUS
  <2>1. erased' # erased
    OBVIOUS
  <2>2. PICK q \in Requests : AccountStep(q)
    BY <1>1, <2>1, StepCases, ElsewhereStays, QueueMoved
    DEF IInv, vars, accountVars
  <2>3. Ask(q)
    BY <2>1, <2>2 DEF AccountStep, ArriveAtAccounts, Screen, Refuse, Enter, Asked, Vet,
       Check, LockRow, EnterTrigger, Choose, Share, Victim, Write, accountVars
  <2>4. u = Target(q)
    BY <1>1, <2>3 DEF Ask, IInv, TypeOK
  <2>5. At(q, "erasing") /\ job[q].route = "delete-user"
    BY <1>1, <2>3 DEF Ask, IInv, Routed
  <2> QED
    BY <1>1, <2>4, <2>5 DEF IInv, LastAdminKept, At
<1> QED
  BY <1>1, InvariantHolds, PTL DEF Spec, LastAdminSpared

\* While the lock holds and nobody passed it by, members never exceed a limit
\* that the request which adds one has read.
THEOREM SeatsAlwaysKept == Spec => SeatsKept
<1>1. ASSUME IInv, [Next]_vars
      PROVE  [\A m \in members' \ members :
                cut = {} /\ unlocked = {} => Taken < limit[m.by]]_<<members, cut, unlocked, limit>>
  <2> SUFFICES ASSUME NEW m \in members' \ members, cut = {}, unlocked = {}
               PROVE  Taken < limit[m.by]
    OBVIOUS
  <2>1. PICK q \in Requests : SeatStep(q, DOMAIN role)
    BY <1>1, StepCases, CascadeTyped DEF IInv, TypeOK, vars, seatVars, Elsewhere, ChangePlan,
       RemoveMember, Fault, LoseQueue
  <2>2. Insert(q, DOMAIN role) /\ m = [user |-> job[q].user, by |-> q]
    BY <1>1, <2>1, OnlyInsertJoins DEF IInv
  <2> QED
    BY <1>1, <2>2 DEF IInv, SeatsLeft, Insert, At
<1> QED
  BY <1>1, InvariantHolds, PTL DEF Spec, SeatsKept

-----------------------------------------------------------------------------
\* Who holds a lock of the queue has left it, and is not through.
HolderInside ==
    \A k \in Locks : \A q \in Requests :
        holder[k] = q => pc[q] \notin {"arrived", "queued", "answered"}

LEMMA HolderInsideStep ==
    ASSUME TypeOK, Routed, HolderInside, [Next]_vars
    PROVE  HolderInside'
<1>1. CASE UNCHANGED vars \/ Elsewhere
  BY <1>1, ElsewhereStays DEF HolderInside, vars, queueVars
<1>2. ASSUME NEW q \in Requests, QueueStep(q), UNCHANGED <<accountVars, seatVars>>
      PROVE  HolderInside'
  <2>1. \A p \in Requests \ {q} : pc'[p] = pc[p]
    BY <1>2, OthersStay
  <2>2. CASE TakeLock(q)
    BY <2>1, <2>2 DEF HolderInside, TakeLock, Goto, TypeOK
  <2>3. CASE GiveUp(q)
    BY <2>1, <2>3 DEF HolderInside, GiveUp, At
  <2>4. CASE Leave(q)
    BY <2>1, <2>4, NoRequestAssumption DEF HolderInside, Leave, Freed
  <2> QED
    BY <1>2, <2>2, <2>3, <2>4 DEF QueueStep
<1>3. ASSUME NEW q \in Requests, Fault(q)
      PROVE  HolderInside'
  <2>1. \A p \in Requests \ {q} : pc'[p] = pc[p]
    BY <1>3, OthersStay
  <2>2. holder' = Freed(q)
    BY <1>3 DEF Fault, LoseQueue, Die
  <2> QED
    BY <2>1, <2>2, NoRequestAssumption DEF HolderInside, Freed
<1>4. ASSUME NEW q \in Requests, AccountStep(q), Cascade,
             UNCHANGED <<invited, plan, limit, tally, unlocked>>
      PROVE  HolderInside'
  <2>1. \A p \in Requests \ {q} : pc'[p] = pc[p]
    BY <1>4, OthersStay
  <2> QED
    BY <1>4, <2>1, AccountRouted DEF HolderInside, AccountSteps
<1>5. ASSUME NEW q \in Requests, SeatStep(q, DOMAIN role), UNCHANGED accountVars
      PROVE  HolderInside'
  <2>1. \A p \in Requests \ {q} : pc'[p] = pc[p]
    BY <1>5, OthersStay
  <2> QED
    BY <1>5, <2>1, SeatRouted DEF HolderInside, SeatSteps
<1> QED
  BY <1>1, <1>2, <1>3, <1>4, <1>5, StepCases

\* Waits go up the order of the locks: from the queue to the rows, to the
\* trigger's lock, to the row it shares; and only from there back, in a circle.
LEMMA SomebodyMoves ==
    ASSUME TypeOK, InvariantKept, HolderInside
    PROVE  NoStandstill
<1> SUFFICES ASSUME \A q \in Requests : ~At(q, "answered") => Blocked(q) /\ ~InCircle(q)
             PROVE  \A q \in Requests : At(q, "answered")
  BY DEF NoStandstill
<1>1. \A q \in Requests : pc[q] \in {"queued", "rowing", "waiting", "sharing", "answered"}
  BY DEF Blocked, At
<1>2. \A q \in Requests : ~At(q, "sharing")
  <2> SUFFICES ASSUME NEW q \in Requests, At(q, "sharing") PROVE FALSE
    OBVIOUS
  <2>1. PICK p \in Requests : HeldAgainst(q, p)
    BY DEF Blocked, At
  <2>2. pc[p] \in {"waiting", "sharing"}
    BY <1>1, <2>1 DEF HeldAgainst, HasRow, InTrigger
  <2>3. ~At(p, "waiting")
    BY <2>1 DEF InCircle, At
  <2>4. p = q
    BY <2>2, <2>3 DEF InvariantKept, InTrigger, At
  <2> QED
    BY <2>1, <2>4 DEF InvariantKept, HeldAgainst
<1>3. \A q \in Requests : ~At(q, "waiting")
  BY <1>1, <1>2 DEF Blocked, InvariantFree, InTrigger, At
<1>4. \A q \in Requests : ~At(q, "rowing")
  BY <1>1, <1>2, <1>3 DEF Blocked, RowHeld, RowShared, HasRow, InTrigger, At
<1>5. \A q \in Requests : ~At(q, "queued")
  <2> SUFFICES ASSUME NEW q \in Requests, At(q, "queued") PROVE FALSE
    OBVIOUS
  <2>1. LockOf(q) \in Locks /\ holder[LockOf(q)] \in Requests
    BY DEF Blocked, LockOf, Locks, TypeOK, At
  <2>2. pc[holder[LockOf(q)]] \notin {"queued", "answered"}
    BY <2>1 DEF HolderInside
  <2> QED
    BY <1>1, <1>2, <1>3, <1>4, <2>1, <2>2 DEF At
<1> QED
  BY <1>1, <1>2, <1>3, <1>4, <1>5 DEF At

\* For any number of requests, and whatever is lost: never does everybody wait.
THEOREM NeverStandsStill == Spec => []NoStandstill
<1>1. Init => HolderInside
  BY NoRequestAssumption DEF Init, QueueInit, HolderInside
<1>2. IInv /\ HolderInside /\ [Next]_vars => HolderInside'
  BY HolderInsideStep DEF IInv
<1>3. IInv /\ HolderInside => NoStandstill
  BY SomebodyMoves DEF IInv
<1> QED
  BY <1>1, <1>2, <1>3, InvariantHolds, PTL DEF Spec
=============================================================================
