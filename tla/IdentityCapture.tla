---------------------------- MODULE IdentityCapture ----------------------------
(***************************************************************************)
(* workers/auth-api/src/organization-identity-outbox-invariant.ts: the     *)
(* PostgreSQL triggers that append an identity event for every change of   *)
(* an organization, a membership or a member's email to the outbox, in the *)
(* transaction of the change itself.                                       *)
(*                                                                         *)
(* A backend runs one transaction at a time at READ COMMITTED: it reads    *)
(* what is committed when it reads, its writes hold their rows until it    *)
(* commits, and a waiting statement is one that is not enabled.            *)
(*                                                                         *)
(* A row of "organization" is <<org>>, one of "member" <<org, user, id>>:  *)
(* nothing keeps a user from being a member twice.  Events are about an    *)
(* aggregate, <<org>> or <<org, user>>, which both memberships share.      *)
(***************************************************************************)
EXTENDS Integers, FiniteSets

CONSTANTS
    Orgs,       \* numbers: their order is that of organizationId
    Users,
    MemberIds,  \* the memberships one user may have of one organization
    Values,     \* organization names and normalised, non-empty roles
    Gone,       \* the value of a row that does not exist
    Emails,
    NoEmail,
    NoUser,
    Backends,
    MaxTime     \* bound on the logical clocks

ASSUME OrgsOrdered == Orgs \subseteq Nat
ASSUME GoneAssumption == Gone \notin Values
ASSUME NobodyAssumption == NoUser \notin Users /\ NoEmail \notin Emails
ASSUME TimeAssumption == MaxTime \in Nat \ {0}
ASSUME IdsFinite == IsFiniteSet(MemberIds)

OrgRows == {<<o>> : o \in Orgs}
MemberRows == Orgs \X Users \X MemberIds
Rows == OrgRows \cup MemberRows

MemberKeys == Orgs \X Users
Keys == OrgRows \cup MemberKeys

\* identity_aggregate_key
KeyOf(r) == IF r \in MemberRows THEN <<r[1], r[2]>> ELSE r

RowsOf(k) == {r \in Rows : KeyOf(r) = k}

VARIABLES
    rows,       \* tables organization and member
    email,      \* "user"."email"
    clock,      \* cinaauth_cinatoken_identity_clock; 0 is no row
    outbox,     \* committed events; seed marks a backfill dedupe_key
    pc,
    writes,     \* the rows a transaction has written, with their new values
    changing,   \* the user whose email it has written, and the new one
    todo,       \* written rows whose trigger has still to fire
    projected,  \* projections handed to the append function
    appended,   \* uncommitted events
    clocked,    \* clock rows it has written; 0 is none
    advisory,   \* organizations whose advisory lock it holds
    doubled     \* history: the aggregates that ever had two memberships

db == <<rows, email, clock, outbox, doubled>>
tx == <<pc, writes, changing, todo, projected, appended, clocked, advisory>>
vars == <<db, tx>>

NoWrites == [r \in {} |-> Gone]
NoChange == [user |-> NoUser, email |-> NoEmail]

Event(k, at, value, mail, seed) ==
    [key |-> k, at |-> at, value |-> value, email |-> mail, seed |-> seed]

MailOf(k) == IF k \in MemberKeys THEN email[k[2]] ELSE NoEmail

LiveRows(k) == {r \in RowsOf(k) : rows[r] # Gone}

\* What the rows of an aggregate hold.
Live(k) == {rows[r] : r \in LiveRows(k)}

\* The aggregates with two memberships in a table.
Twice(table) ==
    {k \in MemberKeys : \E r, s \in RowsOf(k) : r # s /\ table[r] # Gone /\ table[s] # Gone}

\* A backfill calls the append function for every row; the rows of an aggregate
\* share a dedupe_key, and only the first of them, whichever it is, is described.
First(K) == {f \in [K -> Values] : \A k \in K : f[k] \in Live(k)}

Seeds(f, time) == {Event(k, time[k] + 1, f[k], MailOf(k), TRUE) : k \in DOMAIN f}

\* The invariant is installed over a database that may already hold rows, and
\* its first backfill describes them all.
Init ==
    /\ rows \in [Rows -> Values \cup {Gone}]
    /\ \A r \in MemberRows : rows[r] # Gone => rows[<<r[1]>>] # Gone
    /\ email \in [Users -> Emails]
    /\ clock = [k \in Keys |-> Cardinality(LiveRows(k))]
    /\ \A k \in Keys : clock[k] <= MaxTime
    /\ \E f \in First({k \in Keys : Live(k) # {}}) :
         outbox = Seeds(f, [k \in Keys |-> 0])
    /\ doubled = Twice(rows)
    /\ pc = [b \in Backends |-> "idle"]
    /\ writes = [b \in Backends |-> NoWrites]
    /\ changing = [b \in Backends |-> NoChange]
    /\ todo = [b \in Backends |-> {}]
    /\ projected = [b \in Backends |-> {}]
    /\ appended = [b \in Backends |-> {}]
    /\ clocked = [b \in Backends |-> [k \in Keys |-> 0]]
    /\ advisory = [b \in Backends |-> {}]

-----------------------------------------------------------------------------
Locked(r) == \E c \in Backends : r \in DOMAIN writes[c]
Inserting(c, r) == r \in DOMAIN writes[c] /\ rows[r] = Gone
Deleting(c, r) == r \in DOMAIN writes[c] /\ writes[c][r] = Gone
EmailLocked(u) == \E c \in Backends : changing[c].user = u

\* Slip: the user's row is not referenced.
ReferencedLoosely(r) ==
    r \in MemberRows =>
        /\ rows[<<r[1]>>] # Gone
        /\ \A c \in Backends : ~Deleting(c, <<r[1]>>)

\* The foreign keys of an inserted membership: its organization is there to
\* stay, and its user's row, whose unique email is part of a key, is not being
\* changed.
Referenced(r) ==
    r \in MemberRows =>
        /\ rows[<<r[1]>>] # Gone
        /\ \A c \in Backends : ~Deleting(c, <<r[1]>>)
        /\ ~EmailLocked(r[2])

Write(b, W) ==
    /\ writes' = [writes EXCEPT ![b] = W]
    /\ todo' = [todo EXCEPT ![b] = DOMAIN W]
    /\ pc' = [pc EXCEPT ![b] = "capturing"]
    /\ UNCHANGED <<db, changing, projected, appended, clocked, advisory>>

\* INSERT or UPDATE of one row; an INSERT takes an id of its own, whoever is a
\* member already.
Save(b, r, v) ==
    /\ pc[b] = "idle"
    /\ ~Locked(r)
    /\ rows[r] = Gone => Referenced(r)
    /\ Write(b, [s \in {r} |-> v])

\* DELETE: an organization takes its memberships with it (ON DELETE CASCADE).
Cascade(r) ==
    {r} \cup {s \in MemberRows : r \in OrgRows /\ s[1] = r[1] /\ rows[s] # Gone}

Delete(b, r) ==
    /\ pc[b] = "idle"
    /\ rows[r] # Gone
    /\ \A s \in Cascade(r) : ~Locked(s)
    /\ r \in OrgRows =>
         \A c \in Backends : \A s \in MemberRows : s[1] = r[1] => ~Inserting(c, s)
    /\ Write(b, [s \in Cascade(r) |-> Gone])

\* UPDATE "user" SET "email": the row is exclusively its own.
ChangeEmail(b, u, e) ==
    /\ pc[b] = "idle"
    /\ e # email[u]
    /\ ~EmailLocked(u)
    /\ \A c \in Backends : \A r \in MemberRows : r[2] = u => ~Inserting(c, r)
    /\ changing' = [changing EXCEPT ![b] = [user |-> u, email |-> e]]
    /\ pc' = [pc EXCEPT ![b] = "scanning"]
    /\ UNCHANGED <<db, writes, todo, projected, appended, clocked, advisory>>

\* The trigger of a written row builds its projection, the email included,
\* before it calls the append function.
Project(b, r) ==
    /\ pc[b] = "capturing" /\ r \in todo[b]
    /\ r \in OrgRows => todo[b] = {r}
    /\ todo' = [todo EXCEPT ![b] = @ \ {r}]
    /\ projected' = [projected EXCEPT ![b] =
         {[row |-> r, value |-> writes[b][r], email |-> MailOf(KeyOf(r))]}]
    /\ pc' = [pc EXCEPT ![b] = "locking"]
    /\ UNCHANGED <<db, writes, changing, appended, clocked, advisory>>

\* The trigger of an email reads the memberships of the user, which are not
\* locked, and builds a projection for each.
Scan(b) ==
    /\ pc[b] = "scanning"
    /\ LET found == {r \in MemberRows : r[2] = changing[b].user /\ rows[r] # Gone} IN
         /\ projected' = [projected EXCEPT ![b] =
              {[row |-> r, value |-> rows[r], email |-> changing[b].email] : r \in found}]
         /\ pc' = [pc EXCEPT ![b] = IF found = {} THEN "committing" ELSE "locking"]
    /\ UNCHANGED <<db, writes, changing, todo, appended, clocked, advisory>>

\* The clock row as a transaction sees it: its own, or the committed one.
Clock(b, k) == IF clocked[b][k] = 0 THEN clock[k] ELSE clocked[b][k]

\* Slip: two events of one millisecond share it.
TickedLazily(b, k, now) == IF Clock(b, k) > now THEN Clock(b, k) + 1 ELSE now

\* The clock of an aggregate never stands still and never goes back.
Ticked(b, k, now) == IF Clock(b, k) >= now THEN Clock(b, k) + 1 ELSE now

\* Slip: every writer of the organization may append at once.
LockableAlways(b, o) == b \in Backends /\ o \in Orgs

\* pg_advisory_xact_lock
Lockable(b, o) == \A c \in Backends \ {b} : o \notin advisory[c]

\* cinaauth_append_cinatoken_identity_event_v1, organizations in order.
Append(b, p, now) ==
    LET k == KeyOf(p.row)
        at == Ticked(b, k, now)
    IN /\ pc[b] = "locking" /\ p \in projected[b]
       /\ \A q \in projected[b] : p.row[1] <= q.row[1]
       /\ Lockable(b, p.row[1])
       /\ at <= MaxTime
       /\ advisory' = [advisory EXCEPT ![b] = @ \cup {p.row[1]}]
       /\ clocked' = [clocked EXCEPT ![b][k] = at]
       /\ appended' = [appended EXCEPT ![b] = @ \cup {Event(k, at, p.value, p.email, FALSE)}]
       /\ projected' = [projected EXCEPT ![b] = @ \ {p}]
       /\ pc' = [pc EXCEPT ![b] = IF projected[b] # {p} THEN "locking"
                                  ELSE IF todo[b] # {} THEN "capturing" ELSE "committing"]
       /\ UNCHANGED <<db, writes, changing, todo>>

End(b) ==
    /\ pc' = [pc EXCEPT ![b] = "idle"]
    /\ writes' = [writes EXCEPT ![b] = NoWrites]
    /\ changing' = [changing EXCEPT ![b] = NoChange]
    /\ todo' = [todo EXCEPT ![b] = {}]
    /\ projected' = [projected EXCEPT ![b] = {}]
    /\ appended' = [appended EXCEPT ![b] = {}]
    /\ clocked' = [clocked EXCEPT ![b] = [k \in Keys |-> 0]]
    /\ advisory' = [advisory EXCEPT ![b] = {}]

Commit(b) ==
    /\ pc[b] = "committing"
    /\ rows' = [r \in Rows |-> IF r \in DOMAIN writes[b] THEN writes[b][r] ELSE rows[r]]
    /\ email' = [u \in Users |-> IF changing[b].user = u THEN changing[b].email ELSE email[u]]
    /\ clock' = [k \in Keys |-> Clock(b, k)]
    /\ outbox' = outbox \cup appended[b]
    /\ doubled' = doubled \cup Twice(rows')
    /\ End(b)

\* ROLLBACK, a lost connection, or the deadlock detector's choice.
Abort(b) ==
    /\ pc[b] # "idle"
    /\ End(b)
    /\ UNCHANGED db

\* The migration runs again: its locks wait for every writer, every row advances
\* the clock of its aggregate, and an aggregate backfilled before is not described
\* again.
Backfill ==
    /\ \A b \in Backends : pc[b] = "idle"
    /\ clock' = [k \in Keys |-> clock[k] + Cardinality(LiveRows(k))]
    /\ \A k \in Keys : clock'[k] <= MaxTime
    /\ \E f \in First({k \in Keys : Live(k) # {} /\ \A e \in outbox : e.key = k => ~e.seed}) :
         outbox' = outbox \cup Seeds(f, clock)
    /\ UNCHANGED <<rows, email, doubled, tx>>

Next ==
    \/ \E b \in Backends :
        \/ \E r \in Rows : Delete(b, r) \/ Project(b, r)
        \/ \E r \in Rows, v \in Values : Save(b, r, v)
        \/ \E u \in Users, e \in Emails : ChangeEmail(b, u, e)
        \/ Scan(b)
        \/ \E p \in projected[b], now \in 1..MaxTime : Append(b, p, now)
        \/ Commit(b) \/ Abort(b)
    \/ Backfill

Spec == Init /\ [][Next]_vars

-----------------------------------------------------------------------------
Projections == [row : Rows, value : Values \cup {Gone}, email : Emails \cup {NoEmail}]
Events == [key : Keys, at : 1..MaxTime, value : Values \cup {Gone},
           email : Emails \cup {NoEmail}, seed : BOOLEAN]

\* Every variable stays in its domain.
TypeOK ==
    /\ rows \in [Rows -> Values \cup {Gone}]
    /\ email \in [Users -> Emails]
    /\ clock \in [Keys -> 0..MaxTime]
    /\ outbox \subseteq Events
    /\ pc \in [Backends -> {"idle", "capturing", "scanning", "locking", "committing"}]
    /\ changing \in [Backends -> {NoChange} \cup [user : Users, email : Emails]]
    /\ todo \in [Backends -> SUBSET Rows]
    /\ projected \in [Backends -> SUBSET Projections]
    /\ appended \in [Backends -> SUBSET Events]
    /\ clocked \in [Backends -> [Keys -> 0..MaxTime]]
    /\ advisory \in [Backends -> SUBSET Orgs]
    /\ doubled \subseteq MemberKeys
    /\ \A b \in Backends :
         /\ todo[b] \subseteq DOMAIN writes[b] /\ DOMAIN writes[b] \subseteq Rows
         /\ \A r \in DOMAIN writes[b] : writes[b][r] \in Values \cup {Gone}

\* Commit order is clock order: what commits is later than everything already
\* committed about the same aggregate, so that a receiver which lets the latest
\* occurredAt win ends with the last event committed, in whatever order the
\* queue delivers them.
ClockFollowsCommits ==
    [][\A e \in outbox' \ outbox : \A f \in outbox : f.key = e.key => f.at < e.at]_vars

\* A membership always has an event that carries its user's present email: an
\* email change never overlooks a membership that is being added.
EmailReachesMembers ==
    \A r \in MemberRows :
        rows[r] # Gone => \E e \in outbox : e.key = KeyOf(r) /\ e.email = email[r[2]]

Latest(k) == {e \in outbox : e.key = k /\ \A f \in outbox : f.key = k => f.at <= e.at}

\* What the receiver takes to be there is there, with its role and its email.
NothingRevived(k) ==
    \A e \in Latest(k) : e.value # Gone => e.value \in Live(k) /\ e.email = MailOf(k)

\* And what is there the receiver takes to be there.
DescribesRow(k) ==
    /\ NothingRevived(k)
    /\ Live(k) # {} => Latest(k) # {} /\ \A e \in Latest(k) : e.value # Gone

AllIdle == \A b \in Backends : pc[b] = "idle"

\* Last write wins, as far as the code gets: while no transaction is open, and
\* where the user's email never changed, the latest event of an aggregate revives
\* nothing, and it describes the row of one that never had two.  (Of two
\* memberships the removal of one is the last word on both.)
QuietLatestDescribesRow ==
    AllIdle => \A k \in Keys :
        (\A e \in outbox : e.key = k => e.email = MailOf(k)) =>
            NothingRevived(k) /\ (k \notin doubled => DescribesRow(k))

\* Last write wins, as the comment of the append function has it: whatever
\* changes, the latest event describes the row.
LatestDescribesRow == AllIdle => \A k \in Keys : DescribesRow(k)
=============================================================================
