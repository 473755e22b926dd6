--------------------------- MODULE MCGuardedRequests ---------------------------
(* Instance of GuardedRequests for TLC.                                    *)
EXTENDS GuardedRequests, TLC

CONSTANTS a, b, c, q1, q2, q3

Job(rt, u, r) == [route |-> rt, user |-> u, to |-> r]
Set(u, r) == Job("set-role", u, r)
Remove(u) == Job("remove-user", u, "user")
Delete(u) == Job("delete-user", u, "user")
Accept(u) == Job("accept-invitation", u, "user")
Add(u) == Job("add-member", u, "user")
Provision(u) == Job("provision", u, "user")

Three(x, y, z) == q1 :> x @@ q2 :> y @@ q3 :> z

\* What the requests of a run ask for, and who are super admins when they come:
\* deletions that can wait in a circle, demotions of all super admins at once, a
\* deletion retried, the ways into the organization, and both kinds together.
Starts == {
    <<Three(Delete(a), Delete(b), Set(c, "super")), {a, b}>>,
    <<Three(Delete(a), Remove(b), Set(c, "user")), {a, b, c}>>,
    <<Three(Delete(a), Delete(a), Set(b, "user")), {a, b}>>,
    <<Three(Delete(a), Remove(b), Set(c, "super")), {a}>>,
    <<Three(Set(a, "user"), Set(b, "user"), Remove(c)), {a, b, c}>>,
    <<Three(Add(b), Provision(b), Set(b, "super")), {a}>>,
    <<Three(Accept(b), Provision(c), Remove(b)), {a}>>}

Mixed == {start[1] : start \in Starts}

MCInit == Init /\ <<job, Supers>> \in Starts

MCSpec == MCInit /\ [][Next]_vars /\ Fairness
=============================================================================
