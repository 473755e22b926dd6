---------------------------- MODULE GuardedRequests ----------------------------
(***************************************************************************)
(* Requests of both kinds at once: those that change accounts under the    *)
(* governance lock, those that take seats under the organization's.  They  *)
(* meet in the database: a deleted account takes its memberships along,    *)
(* and none is created for an account that is gone.                        *)
(***************************************************************************)
EXTENDS AccountGovernance, MemberSeats

vars == <<queueVars, accountVars, seatVars>>

Init == QueueInit /\ AccountInit /\ SeatsInit

\* ON DELETE CASCADE of member.userId.
Cascade == members' = {m \in members : m.user \in DOMAIN role'}

\* What request q does on its own, and what may befall it.
Progress(q) ==
    \/ QueueStep(q) /\ UNCHANGED <<accountVars, seatVars>>
    \/ AccountStep(q) /\ Cascade /\ UNCHANGED <<invited, plan, limit, tally, unlocked>>
    \/ SeatStep(q, DOMAIN role) /\ UNCHANGED accountVars

Fault(q) ==
    \/ LoseQueue(q) /\ UNCHANGED <<accountVars, seatVars>>
    \/ /\ Die(q)
       /\ Forget(q)
       /\ attested' = [attested EXCEPT ![q] = 0]
       /\ limit' = [limit EXCEPT ![q] = Unlimited]
       /\ tally' = [tally EXCEPT ![q] = 0]
       /\ UNCHANGED <<role, erased, members, invited, plan, unlocked>>

Elsewhere == (ChangePlan \/ RemoveMember) /\ UNCHANGED <<queueVars, accountVars>>

Next == (\E q \in Requests : Progress(q) \/ Fault(q)) \/ Elsewhere

Fairness == \A q \in Requests : WF_vars(Progress(q))

Spec == Init /\ [][Next]_vars /\ Fairness

-----------------------------------------------------------------------------
TypeOK ==
    /\ job \in Workloads
    /\ pc \in [Requests -> QueueSteps \cup AccountSteps \cup SeatSteps]
    /\ holder \in [Locks -> Requests \cup {NoRequest}]
    /\ cut \subseteq Requests
    /\ answer \in [Requests -> Answers]
    /\ DOMAIN role \subseteq Users /\ role \in [DOMAIN role -> Roles]
    /\ erased \in [Users -> SUBSET (1..Processors)]
    /\ attested \in [Requests -> 0..Processors]
    /\ spared \in [Requests -> Users]
    /\ members \subseteq Rows
    /\ invited \in [Users -> {"pending", "accepted"}]
    /\ plan \in Plans
    /\ limit \in [Requests -> 0..Unlimited]
    /\ tally \in [Requests -> Nat]
    /\ unlocked \subseteq Requests

\* A request at one of the four waits, in whose way somebody stands.
Blocked(q) ==
    \/ At(q, "queued") /\ holder[LockOf(q)] # NoRequest
    \/ At(q, "rowing") /\ (RowHeld(q) \/ (Deletes(q) /\ RowShared(q)))
    \/ At(q, "waiting") /\ ~InvariantFree(q)
    \/ At(q, "sharing") /\ \E p \in Requests : HeldAgainst(q, p)

\* Never does everybody wait: of the requests that are not answered one is not
\* blocked, or is in a circle PostgreSQL breaks.  The queue's lock, the rows, the
\* trigger's lock and the rows it shares are taken in this order, over two
\* connections of which the database knows no more than that both are there; no
\* statement_timeout is needed to go on.
NoStandstill ==
    (\E q \in Requests : ~At(q, "answered")) =>
        \E q \in Requests : ~At(q, "answered") /\ (~Blocked(q) \/ InCircle(q))

\* Every request is answered, although requests wait for each other's locks on
\* connections that know nothing of each other: the two locks have keys of their
\* own for that, and a victim is found where deletions wait in a circle.
EventuallyAnswered == \A q \in Requests : <>At(q, "answered")
=============================================================================
