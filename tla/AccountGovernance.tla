--------------------------- MODULE AccountGovernance ---------------------------
(***************************************************************************)
(* The routes that can take the super-admin role from an account, as the   *)
(* API worker runs them: under the governance lock, with the deletion      *)
(* hooks of the privacy center before the admin plugin's own check, and    *)
(* with the database trigger of super-admin-database-invariant.ts inside   *)
(* the transaction that writes.                                            *)
(*                                                                         *)
(* A request that writes walks through "handling" (delete-user: "erasing"  *)
(* and "vetting" first), "checking" (its transaction's own check),         *)
(* "rowing" (waits for the row), "waiting" (has the row, waits for the     *)
(* trigger's lock), "choosing", "sharing" (waits for the row of another    *)
(* super admin) and "committing"; or from "rowing" to "writing" when the   *)
(* trigger has nothing to ask.  Row and trigger locks are read off pc:     *)
(* they last until the transaction ends.                                   *)
(***************************************************************************)
EXTENDS QueueLock

CONSTANT Processors     \* how many processors must erase, asked in order

ASSUME ProcessorsAssumption == Processors \in Nat

VARIABLES
    role,       \* account -> role; its domain is the accounts there are
    erased,     \* processors that have erased a user's data
    attested,   \* how many processors have attested to a request
    spared      \* the other super admin a trigger has picked

accountVars == <<role, erased, attested, spared>>

Supers == {u \in DOMAIN role : role[u] = "super"}

AccountSteps == {"handling", "erasing", "vetting", "checking", "rowing", "waiting",
                 "choosing", "sharing", "committing", "writing"}

AccountInit ==
    /\ role \in [Users -> Roles]
    /\ Supers # {}
    /\ erased = [u \in Users |-> {}]
    /\ attested = [q \in Requests |-> 0]
    /\ spared = [q \in Requests |-> job[q].user]

-----------------------------------------------------------------------------
Target(q) == job[q].user
Deletes(q) == job[q].route \in {"remove-user", "delete-user"}
Present(q) == Target(q) \in DOMAIN role
OthersSuper(q) == Supers \ {Target(q)}

\* What the trigger and the plugin's check ask about.
LosesSuper(q) ==
    /\ Target(q) \in Supers
    /\ Deletes(q) \/ job[q].to # "super"

\* Slip: a route is left out of ADMIN_GOVERNANCE_PATHS.
GovernedButRemoval == {"set-role", "delete-user"}

\* requiresSuperAdminGovernance; remove-user stands for the SCIM DELETE, too.
Governed == {"set-role", "remove-user", "delete-user"}

ArriveAtAccounts(q) ==
    /\ job[q].route \in AccountRoutes
    /\ Step(q, "arrived", IF job[q].route \in Governed THEN "queued" ELSE "handling")
    /\ UNCHANGED accountVars

\* Slip: the count is left to the admin plugin's hook.
RejectedIfGone(q) == ~Present(q)

\* getSelfDeletionRejection, and the session that is gone with the account.
SelfDeletionRejected(q) ==
    \/ ~Present(q)
    \/ Target(q) \in Supers /\ Cardinality(Supers) <= 1

\* The governed operation before it calls the handler.
Screen(q) ==
    /\ At(q, "locked") /\ job[q].route \in AccountRoutes
    /\ \/ /\ job[q].route = "delete-user" => ~SelfDeletionRejected(q)
          /\ Step(q, "locked", "handling")
       \/ /\ job[q].route = "delete-user" /\ SelfDeletionRejected(q)
          /\ Respond(q, "refused")
    /\ UNCHANGED accountVars

\* Session, permission, rate limit, freshness, retention hold or password are not
\* in order; the password of delete-user is looked at only after the processors.
Refuse(q) ==
    /\ job[q].route \in AccountRoutes /\ pc[q] \in {"arrived", "handling", "vetting"}
    /\ Respond(q, "refused")
    /\ UNCHANGED accountVars

Enter(q) ==
    /\ job[q].route \in AccountRoutes
    /\ Step(q, "handling", IF job[q].route = "delete-user" THEN "erasing" ELSE "checking")
    /\ UNCHANGED accountVars

\* Slip: a processor that is still at work counts as done.
AttestsWhilePending == {"completed", "pending"}

\* parseProcessorResult: the outcomes eraseProcessorData goes on after; "completed"
\* stands for "not-applicable" as well, of a processor that holds no data.
Attests == {"completed"}

\* A processor is asked.  It attests after it has erased; it may also have
\* erased when its call fails.
Ask(q) ==
    /\ At(q, "erasing") /\ attested[q] < Processors
    /\ \E outcome \in {"completed", "pending", "failed"}, done \in BOOLEAN :
         /\ outcome = "completed" => done
         /\ outcome = "pending" => ~done
         /\ erased' = IF done
                      THEN [erased EXCEPT ![Target(q)] = @ \cup {attested[q] + 1}]
                      ELSE erased
         /\ IF outcome \in Attests
            THEN /\ Step(q, "erasing", "erasing")
                 /\ attested' = [attested EXCEPT ![q] = @ + 1]
            ELSE Respond(q, "refused") /\ attested' = [attested EXCEPT ![q] = 0]
    /\ UNCHANGED <<role, spared>>

Asked(q) ==
    /\ attested[q] = Processors
    /\ Step(q, "erasing", "vetting")
    /\ attested' = [attested EXCEPT ![q] = 0]
    /\ UNCHANGED <<role, erased, spared>>

\* The admin plugin's hook and the endpoint's session.
Vet(q) ==
    /\ At(q, "vetting")
    /\ IF Present(q) /\ (LosesSuper(q) => OthersSuper(q) # {})
       THEN Step(q, "vetting", "checking")
       ELSE Respond(q, "refused")
    /\ UNCHANGED accountVars

\* assertSuperAdminRemains inside the transaction, on what it reads there.  An
\* account already gone is not found, or leaves deleteUser nothing to delete.
Check(q) ==
    /\ At(q, "checking")
    /\ IF ~Present(q)
       THEN Respond(q, IF job[q].route = "delete-user" THEN "deleted" ELSE "refused")
       ELSE IF LosesSuper(q) /\ OthersSuper(q) = {}
            THEN Respond(q, "refused")
            ELSE Step(q, "checking", "rowing")
    /\ UNCHANGED accountVars

-----------------------------------------------------------------------------
InTrigger == {"choosing", "sharing", "committing"}
HasRow == InTrigger \cup {"waiting", "writing"}

RowHeld(q) == \E p \in Requests \ {q} : pc[p] \in HasRow /\ Target(p) = Target(q)

\* FOR KEY SHARE stands in the way of a DELETE, not of an UPDATE of the role.
RowShared(q) == \E p \in Requests : At(p, "committing") /\ spared[p] = Target(q)

\* The row is locked before the trigger is called, with what is then its role.
LockRow(q) ==
    /\ At(q, "rowing")
    /\ ~RowHeld(q) /\ (Deletes(q) => ~RowShared(q))
    /\ IF Present(q)
       THEN Step(q, "rowing", IF LosesSuper(q) THEN "waiting" ELSE "writing")
       ELSE Respond(q, IF job[q].route = "delete-user" THEN "deleted" ELSE "done")
    /\ UNCHANGED accountVars

\* Slip: the trigger does not serialize.
InvariantUnlocked(q) == At(q, "waiting")

\* Slip: the trigger uses the key of the queue.
InvariantOnQueueKey(q) ==
    holder["governance"] = NoRequest /\ \A p \in Requests : pc[p] \notin InTrigger

\* pg_advisory_xact_lock under the invariant's own key.
InvariantFree(q) == \A p \in Requests : pc[p] \notin InTrigger

EnterTrigger(q) ==
    /\ InvariantFree(q)
    /\ Step(q, "waiting", "choosing")
    /\ UNCHANGED accountVars

\* SELECT ... LIMIT 1 on a snapshot taken under the lock: any other super admin.
Choose(q) ==
    /\ At(q, "choosing")
    /\ \/ OthersSuper(q) = {} /\ Respond(q, "rejected") /\ UNCHANGED spared
       \/ /\ \E u \in OthersSuper(q) : spared' = [spared EXCEPT ![q] = u]
          /\ Step(q, "choosing", "sharing")
    /\ UNCHANGED <<role, erased, attested>>

\* The picked row is about to be deleted by p.
HeldAgainst(q, p) == pc[p] \in HasRow /\ Deletes(p) /\ Target(p) = spared[q]

\* FOR KEY SHARE waits for a transaction that is deleting the row it picked.
Share(q) ==
    /\ \A p \in Requests : ~HeldAgainst(q, p)
    /\ Step(q, "sharing", IF spared[q] \in Supers THEN "committing" ELSE "choosing")
    /\ UNCHANGED accountVars

\* What a transaction has picked is gone with it.
Forget(q) == spared' = [spared EXCEPT ![q] = Target(q)]

\* Two deletions wait for each other, one for the row, one for the trigger's lock.
InCircle(q) ==
    \E p \in Requests :
       \/ At(q, "sharing") /\ HeldAgainst(q, p) /\ At(p, "waiting")
       \/ At(p, "sharing") /\ HeldAgainst(p, q) /\ At(q, "waiting")

\* PostgreSQL aborts one of them.
Victim(q) ==
    /\ InCircle(q)
    /\ Respond(q, "aborted")
    /\ Forget(q)
    /\ UNCHANGED <<role, erased, attested>>

Write(q) ==
    /\ pc[q] \in {"committing", "writing"}
    /\ role' = IF Deletes(q) THEN [u \in DOMAIN role \ {Target(q)} |-> role[u]]
               ELSE [role EXCEPT ![Target(q)] = job[q].to]
    /\ Respond(q, IF job[q].route = "delete-user" THEN "deleted" ELSE "done")
    /\ Forget(q)
    /\ UNCHANGED <<erased, attested>>

AccountStep(q) ==
    \/ ArriveAtAccounts(q) \/ Screen(q) \/ Refuse(q) \/ Enter(q)
    \/ Ask(q) \/ Asked(q) \/ Vet(q) \/ Check(q)
    \/ LockRow(q) \/ EnterTrigger(q) \/ Choose(q) \/ Share(q) \/ Victim(q) \/ Write(q)

-----------------------------------------------------------------------------
\* There is a super admin, whatever runs at once and whatever is lost: the
\* trigger's promise in super-admin-database-invariant.ts.
SuperAdminRemains == Supers # {}

\* While every queue connection stands, no request comes as far as the trigger's
\* exception or a deadlock: the lock is there for the stable API errors.
StableErrors ==
    cut = {} => \A q \in Requests : answer[q] \notin {"rejected", "aborted"}

\* A processor is never asked to erase the last super admin, though the privacy
\* center's hook runs before the admin plugin's check.
LastAdminSpared ==
    [][\A u \in Users : erased'[u] # erased[u] /\ cut = {} => Supers # {u}]_<<erased, role, cut>>

\* A deletion receipt is only given for an account that is gone and whose data
\* every processor has erased, over any number of failed attempts.
ReceiptTrue ==
    \A q \in Requests :
        answer[q] = "deleted" => ~Present(q) /\ erased[Target(q)] = 1..Processors
=============================================================================
