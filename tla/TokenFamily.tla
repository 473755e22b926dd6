------------------------------ MODULE TokenFamily ------------------------------
(***************************************************************************)
(* packages/oauth-provider/src/token.ts and revoke.ts: the tokens one      *)
(* client holds for one user.  An authorization code is redeemed once; a   *)
(* refresh token is rotated once, by a compare-and-swap, and its holder    *)
(* may for a while repeat the request and get the same answer; a reused    *)
(* token takes its family down.                                            *)
(*                                                                         *)
(* Request q is parked at pc[q] between two calls of the database adapter, *)
(* and acts on what it read before them.  Nothing spans a transaction.     *)
(* The tables are those of a SQL adapter, whose foreign key from an access *)
(* token to its refresh token cascades deletes.  Grants that mint no       *)
(* refresh token are left out.                                             *)
(***************************************************************************)
EXTENDS Integers

CONSTANTS
    Codes,          \* authorization codes issued to the client for the user
    Requests,       \* HTTP requests in progress
    Reuse,          \* refreshTokenReuseInterval > 0
    MaxRows,        \* bound on the refresh tokens ever minted
    MaxFaults       \* bound on crashes and failing adapter calls

ASSUME CodesAssumption == Codes # {}
ASSUME ReuseAssumption == Reuse \in BOOLEAN
ASSUME BoundsAssumption == MaxRows \in Nat /\ MaxFaults \in Nat

VARIABLES
    codes,      \* verification values not yet consumed
    rows,       \* oauthRefreshToken: id -> [code, revoked, window, answer]
    access,     \* ids whose mint has its row in oauthAccessToken
    fresh,      \* ids up to fresh have been used
    known,      \* refresh tokens the client has been given
    pc,
    job,        \* what a request is about: [code, row, seen, child, found]
    minted,     \* history: <<row, child>>
    answers,    \* history: <<row, child>> answered to a refresh of row
    killed,     \* history: rows whose revocation the endpoint has answered
    faults

tables == <<codes, rows, access, fresh>>
history == <<minted, answers, killed>>
vars == <<tables, known, pc, job, history, faults>>

NewRow(c) == [code |-> c, revoked |-> FALSE, window |-> "none", answer |-> 0]

JobOf(c, r, seen) == [code |-> c, row |-> r, seen |-> seen, child |-> 0, found |-> {}]

NoJob == LET c == CHOOSE c \in Codes : TRUE IN JobOf(c, 0, NewRow(c))

Init ==
    /\ codes = Codes
    /\ rows = [r \in {} |-> 0]
    /\ access = {} /\ fresh = 0 /\ known = {}
    /\ pc = [q \in Requests |-> "idle"]
    /\ job = [q \in Requests |-> NoJob]
    /\ minted = {} /\ answers = {} /\ killed = {}
    /\ faults = 0

-----------------------------------------------------------------------------
Fault == faults < MaxFaults /\ faults' = faults + 1

Go(q, at) == pc' = [pc EXCEPT ![q] = at]

Take(q, c, r, seen) == job' = [job EXCEPT ![q] = JobOf(c, r, seen)]

\* Slip: the code is looked up, and deleted when the tokens are there.
UnusedAndKept(c) == c \in Codes

\* consumeVerificationValue returns a row to one caller only.
Unused(c) == c \in codes

\* checkVerificationValue: a code that has expired is consumed all the same, and
\* whoever comes second cleans up after the first.
Redeem(q, c) ==
    /\ pc[q] = "idle"
    /\ codes' = codes \ {c}
    /\ \/ Unused(c) /\ Go(q, "issuing")
       \/ Go(q, "unissueAccess")
    /\ Take(q, c, 0, NewRow(c))
    /\ UNCHANGED <<rows, access, fresh, known, history, faults>>

\* handleRefreshTokenGrant finds the token.
Present(q, r) ==
    /\ pc[q] = "idle"
    /\ r \in DOMAIN rows
    /\ Go(q, "checking")
    /\ Take(q, rows[r].code, r, rows[r])
    /\ UNCHANGED <<tables, known, history, faults>>

\* A request is turned down by a check that has no effect on the tables: the
\* client, its scopes and resources, PKCE, the user, the session.
Refuse(q) ==
    /\ pc[q] \in {"issuing", "checking"}
    /\ Go(q, "idle")
    /\ UNCHANGED <<tables, known, job, history, faults>>

\* Slip: the update does not ask whether the row is still unrevoked.
LiveIfPresent(r) == r \in DOMAIN rows

\* incrementOne ... WHERE id = r AND revoked = null
Live(r) == r \in DOMAIN rows /\ ~rows[r].revoked

\* createRefreshToken of a rotation, up to its compare-and-swap.
Rotate(q) ==
    LET r == job[q].row
    IN /\ pc[q] = "checking" /\ ~job[q].seen.revoked
       /\ IF Live(r)
          THEN /\ rows' = [rows EXCEPT ![r].revoked = TRUE,
                                       ![r].window = IF Reuse THEN "open" ELSE "none"]
               /\ Go(q, "minting")
          ELSE Go(q, "idle") /\ UNCHANGED rows
       /\ UNCHANGED <<codes, access, fresh, known, job, history, faults>>

\* Slip: the newest token is answered, not the one this token was rotated to.
CachedNewest(q) == IF job[q].seen.answer = 0 THEN 0 ELSE fresh

Cached(q) == job[q].seen.answer

\* isWithinRefreshTokenReuseInterval, of the row as it was read and the time it
\* is now; of a row deleted since, the time is anyone's guess.
MayBeOpen(q) ==
    /\ job[q].seen.window = "open"
    /\ job[q].row \in DOMAIN rows => rows[job[q].row].window = "open"

\* A revoked token presented within its interval is answered again, if the
\* answer had been stored and the request is the same, else refused.
Replay(q) ==
    /\ pc[q] = "checking" /\ job[q].seen.revoked
    /\ MayBeOpen(q)
    /\ \/ /\ Cached(q) # 0
          /\ answers' = answers \cup {<<job[q].row, Cached(q)>>}
          /\ known' = known \cup {Cached(q)}
       \/ UNCHANGED <<answers, known>>
    /\ Go(q, "idle")
    /\ UNCHANGED <<tables, job, minted, killed, faults>>

\* Outside it, the family goes.
Reused(q) ==
    /\ pc[q] = "checking" /\ job[q].seen.revoked
    /\ ~MayBeOpen(q) \/ job[q].row \notin DOMAIN rows
    /\ Go(q, "finding")
    /\ UNCHANGED <<tables, known, job, history, faults>>

\* createRefreshToken: the insert, of a first token or of a rotated one's child.
Mint(q) ==
    /\ pc[q] \in {"issuing", "minting"} /\ fresh < MaxRows
    /\ fresh' = fresh + 1
    /\ rows' = [r \in DOMAIN rows \cup {fresh + 1} |->
                  IF r = fresh + 1 THEN NewRow(job[q].code) ELSE rows[r]]
    /\ job' = [job EXCEPT ![q].child = fresh + 1]
    /\ minted' = minted \cup {<<job[q].row, fresh + 1>>}
    /\ Go(q, "granting")
    /\ UNCHANGED <<codes, access, known, answers, killed, faults>>

\* createOpaqueAccessToken, refused by its foreign key when the family went; a
\* JWT access token leaves no row.
Grant(q) ==
    /\ pc[q] = "granting"
    /\ \/ job[q].child \in DOMAIN rows /\ access' = access \cup {job[q].child} /\ Go(q, "storing")
       \/ UNCHANGED access /\ Go(q, "storing")
       \/ job[q].child \notin DOMAIN rows /\ UNCHANGED access /\ Go(q, "idle")
    /\ UNCHANGED <<codes, rows, fresh, known, job, history, faults>>

\* storeRefreshTokenRotationReplay, whose failure is only logged.
Store(q) ==
    LET r == job[q].row
    IN /\ pc[q] = "storing"
       /\ \/ /\ Reuse /\ r \in DOMAIN rows
             /\ rows' = [rows EXCEPT ![r].answer = job[q].child]
             /\ UNCHANGED faults
          \/ UNCHANGED rows /\ IF Reuse /\ r # 0 THEN Fault ELSE UNCHANGED faults
       /\ Go(q, "answering")
       /\ UNCHANGED <<codes, access, fresh, known, job, history>>

Answer(q) ==
    /\ pc[q] = "answering"
    /\ known' = known \cup {job[q].child}
    /\ answers' = IF job[q].row = 0 THEN answers
                  ELSE answers \cup {<<job[q].row, job[q].child>>}
    /\ Go(q, "idle")
    /\ UNCHANGED <<tables, job, minted, killed, faults>>

-----------------------------------------------------------------------------
\* Slip: a schema without the foreign key.
DeleteRowsOnly(R) ==
    /\ rows' = [r \in DOMAIN rows \ R |-> rows[r]]
    /\ UNCHANGED access

\* Rows and, by the foreign key, their access tokens.
DeleteRows(R) ==
    /\ rows' = [r \in DOMAIN rows \ R |-> rows[r]]
    /\ access' = access \ R

\* revokeRefreshToken finds the token.
Revoke(q, r) ==
    /\ pc[q] = "idle"
    /\ r \in DOMAIN rows
    /\ Go(q, IF rows[r].revoked THEN "finding" ELSE "revoking")
    /\ Take(q, rows[r].code, r, rows[r])
    /\ UNCHANGED <<tables, known, history, faults>>

RevokeSwap(q) ==
    LET r == job[q].row
    IN /\ pc[q] = "revoking"
       /\ IF Live(r)
          THEN /\ rows' = [rows EXCEPT ![r].revoked = TRUE]
               /\ Go(q, "ungranting")
          ELSE Go(q, "finding") /\ UNCHANGED rows
       /\ UNCHANGED <<codes, access, fresh, known, job, history, faults>>

\* Slip: the access tokens of the whole code but this one go.
MintedWithOthers(r) == {s \in access : s # r}

MintedWith(r) == {r}

Ungrant(q) ==
    /\ pc[q] = "ungranting"
    /\ access' = access \ MintedWith(job[q].row)
    /\ killed' = killed \cup {job[q].row}
    /\ Go(q, "idle")
    /\ UNCHANGED <<codes, rows, fresh, known, job, minted, answers, faults>>

\* invalidateRefreshFamily: find the rows; delete the access tokens of what was
\* found; delete whatever rows there are by then.
FamilyFind(q) ==
    /\ pc[q] = "finding"
    /\ job' = [job EXCEPT ![q].found = DOMAIN rows]
    /\ Go(q, IF DOMAIN rows = {} THEN "dropping" ELSE "ungrantFamily")
    /\ UNCHANGED <<tables, known, history, faults>>

FamilyAccess(q) ==
    /\ pc[q] = "ungrantFamily"
    /\ access' = access \ job[q].found
    /\ Go(q, "dropping")
    /\ UNCHANGED <<codes, rows, fresh, known, job, history, faults>>

FamilyRows(q) ==
    /\ pc[q] = "dropping"
    /\ DeleteRows(DOMAIN rows)
    /\ Go(q, "idle")
    /\ UNCHANGED <<codes, fresh, known, job, history, faults>>

IssuedFor(c) == {r \in DOMAIN rows : rows[r].code = c}

\* revokeTokensIssuedForAuthorizationCode: two deletes, each of which may fail.
UnissueAccess(q) ==
    /\ pc[q] = "unissueAccess"
    /\ \/ access' = access \ IssuedFor(job[q].code) /\ UNCHANGED faults
       \/ Fault /\ UNCHANGED access
    /\ Go(q, "unissueRows")
    /\ UNCHANGED <<codes, rows, fresh, known, job, history>>

UnissueRows(q) ==
    /\ pc[q] = "unissueRows"
    /\ \/ DeleteRows(IssuedFor(job[q].code)) /\ UNCHANGED faults
       \/ Fault /\ UNCHANGED <<rows, access>>
    /\ Go(q, "idle")
    /\ UNCHANGED <<codes, fresh, known, job, history>>

\* The reuse interval of a rotated token is over.
Close(r) ==
    /\ r \in DOMAIN rows /\ rows[r].window = "open"
    /\ rows' = [rows EXCEPT ![r].window = "closed"]
    /\ UNCHANGED <<codes, access, fresh, known, pc, job, history, faults>>

\* The process dies, or an adapter call throws, in the middle of a request.
Crash(q) ==
    /\ pc[q] # "idle"
    /\ Fault
    /\ Go(q, "idle")
    /\ UNCHANGED <<tables, known, job, history>>

Next ==
    \/ \E q \in Requests :
        \/ \E c \in Codes : Redeem(q, c)
        \/ \E r \in known : Present(q, r) \/ Revoke(q, r)
        \/ Refuse(q) \/ Rotate(q) \/ Replay(q) \/ Reused(q)
        \/ Mint(q) \/ Grant(q) \/ Store(q) \/ Answer(q)
        \/ RevokeSwap(q) \/ Ungrant(q)
        \/ FamilyFind(q) \/ FamilyAccess(q) \/ FamilyRows(q)
        \/ UnissueAccess(q) \/ UnissueRows(q)
        \/ Crash(q)
    \/ \E r \in known : Close(r)

Spec == Init /\ [][Next]_vars

-----------------------------------------------------------------------------
Ids == 1..MaxRows
RowType == [code : Codes, revoked : BOOLEAN, window : {"none", "open", "closed"},
            answer : 0..MaxRows]

\* Every variable stays in its domain.
TypeOK ==
    /\ codes \subseteq Codes
    /\ fresh \in 0..MaxRows
    /\ DOMAIN rows \subseteq 1..fresh
    /\ \A r \in DOMAIN rows : rows[r] \in RowType
    /\ access \subseteq DOMAIN rows
    /\ known \subseteq 1..fresh
    /\ pc \in [Requests -> {"idle", "issuing", "checking", "minting", "granting", "storing",
                            "answering", "revoking", "ungranting", "finding", "ungrantFamily",
                            "dropping", "unissueAccess", "unissueRows"}]
    /\ job \in [Requests -> [code : Codes, row : 0..MaxRows, seen : RowType,
                             child : 0..MaxRows, found : SUBSET Ids]]
    /\ minted \subseteq (0..MaxRows) \X Ids
    /\ answers \subseteq Ids \X Ids
    /\ killed \subseteq Ids
    /\ faults \in 0..MaxFaults

\* A grant never forks: of the tokens that descend from one authorization code,
\* at most one can still be rotated, however its requests interleave and crash.
OneLiveToken ==
    \A r, s \in DOMAIN rows :
        rows[r].code = rows[s].code /\ ~rows[r].revoked /\ ~rows[s].revoked => r = s

\* Whoever refreshes a token, first or again, is answered the same new token.
SameAnswer == \A a, b \in answers : a[1] = b[1] => a[2] = b[2]

\* A token the revoke endpoint revoked is never rotated, not even by a refresh
\* that had read it before.
RevokedMintsNothing == \A r \in killed : \A m \in minted : m[1] # r

\* Once the revoke endpoint has answered, the access token minted with the
\* refresh token is gone for good: no token is out before its access token is in.
RevokedGrantsNothing == killed \cap access = {}
=============================================================================
