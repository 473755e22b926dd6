------------------------- MODULE IdentityCaptureProofs -------------------------
(***************************************************************************)
(* Proofs about IdentityCapture, for any organizations, users, memberships *)
(* and backends.  An event that a transaction holds back is later than the *)
(* clock of its aggregate, and the advisory lock keeps everyone else from  *)
(* moving that clock until the transaction ends.                           *)
(***************************************************************************)
EXTENDS IdentityCapture, FiniteSetTheorems, TLAPS

\* The clock has passed every committed event.
OutboxBelowClock == \A e \in outbox : e.at <= clock[e.key]

\* An uncommitted event is ahead of the clock, under its organization's lock,
\* and not ahead of the clock row of its own transaction.
AppendedAhead ==
    \A b \in Backends : \A e \in appended[b] :
        /\ e.key[1] \in advisory[b]
        /\ clock[e.key] < e.at /\ e.at <= clocked[b][e.key]

\* A transaction has an event of the time its clock row shows.
ClockedTold ==
    \A b \in Backends : \A k \in Keys :
        clocked[b][k] # 0 => \E e \in appended[b] : e.key = k /\ e.at = clocked[b][k]

LocksExclusive ==
    \A b, c \in Backends : b # c => advisory[b] \cap advisory[c] = {}

\* Nothing is captured before a write, nor before an email's scan.
FreshStart ==
    \A b \in Backends :
        pc[b] \in {"idle", "scanning"} =>
            appended[b] = {} /\ projected[b] = {} /\ todo[b] = {}

WritesDomain == DOMAIN writes = Backends

IInv ==
    /\ TypeOK /\ WritesDomain /\ OutboxBelowClock /\ AppendedAhead
    /\ ClockedTold /\ LocksExclusive /\ FreshStart

-----------------------------------------------------------------------------
LEMMA KeyOrg == \A k \in Keys : k[1] \in Orgs
BY DEF Keys, OrgRows, MemberKeys

\* A membership is a row of the aggregate of its organization and its user.
LEMMA MemberShape ==
    ASSUME NEW r \in MemberRows
    PROVE  /\ r \in Rows /\ r[1] \in Orgs /\ r[2] \in Users /\ r[3] \in MemberIds
           /\ r = <<r[1], r[2], r[3]>>
           /\ KeyOf(r) = <<r[1], r[2]>> /\ KeyOf(r) \in MemberKeys
           /\ KeyOf(r)[1] = r[1] /\ KeyOf(r)[2] = r[2]
BY DEF MemberRows, MemberKeys, Rows, KeyOf

\* An organization is the only row of its aggregate.
LEMMA OrgShape ==
    ASSUME NEW r \in OrgRows
    PROVE  r \notin MemberRows /\ r \notin MemberKeys /\ KeyOf(r) = r /\ r[1] \in Orgs
<1>1. PICK o \in Orgs : r = <<o>>
  BY DEF OrgRows
<1>2. \A x, y : <<o>> # <<x, y>>
  OBVIOUS
<1>3. \A x, y, z : <<o>> # <<x, y, z>>
  OBVIOUS
<1>4. r \notin MemberRows
  BY <1>1, <1>3 DEF MemberRows
<1>5. r \notin MemberKeys
  BY <1>1, <1>2 DEF MemberKeys
<1> QED
  BY <1>1, <1>4, <1>5 DEF KeyOf

LEMMA KeyTyped ==
    ASSUME NEW r \in Rows
    PROVE  KeyOf(r) \in Keys /\ KeyOf(r)[1] = r[1]
<1>1. CASE r \in MemberRows
  BY <1>1, MemberShape DEF Keys
<1>2. CASE r \in OrgRows
  BY <1>2, OrgShape DEF Keys
<1> QED
  BY <1>1, <1>2 DEF Rows

LEMMA OnlyRow ==
    ASSUME NEW r \in Rows, NEW s \in Rows, KeyOf(r) = KeyOf(s), r # s
    PROVE  KeyOf(r) \in MemberKeys
<1>1. CASE r \in MemberRows
  BY <1>1, MemberShape
<1>2. CASE r \in OrgRows /\ s \in MemberRows
  BY <1>2, OrgShape, MemberShape
<1>3. CASE r \in OrgRows /\ s \in OrgRows
  BY <1>3, OrgShape
<1> QED
  BY <1>1, <1>2, <1>3 DEF Rows

\* An aggregate has finitely many rows, and something to describe when it has one.
LEMMA RowsCounted ==
    ASSUME NEW k \in Keys
    PROVE  /\ Cardinality(LiveRows(k)) \in Nat
           /\ Live(k) # {} => Cardinality(LiveRows(k)) >= 1
<1>1. IsFiniteSet(RowsOf(k))
  <2>1. CASE k \in OrgRows
    <3>1. RowsOf(k) \subseteq {k}
      <4> SUFFICES ASSUME NEW r \in RowsOf(k) PROVE r = k
        OBVIOUS
      <4>1. r \in Rows /\ KeyOf(r) = k
        BY DEF RowsOf
      <4>2. r \notin MemberRows
        BY <2>1, <4>1, OrgShape, MemberShape
      <4> QED
        BY <4>1, <4>2 DEF KeyOf
    <3> QED
      BY <3>1, FS_Singleton, FS_Subset
  <2>2. CASE k \in MemberKeys
    <3> DEFINE f == [r \in RowsOf(k) |-> r[3]]
    <3>1. \A r \in RowsOf(k) : r = <<k[1], k[2], r[3]>> /\ r[3] \in MemberIds
      <4> TAKE r \in RowsOf(k)
      <4>1. r \in Rows /\ KeyOf(r) = k
        BY DEF RowsOf
      <4>2. r \in MemberRows
        BY <2>2, <4>1, OrgShape DEF Rows
      <4> QED
        BY <4>1, <4>2, MemberShape
    <3>2. f \in Injection(RowsOf(k), MemberIds)
      BY <3>1 DEF Injection, IsInjective
    <3> QED
      BY <3>2, IdsFinite, FS_Injection
  <2> QED
    BY <2>1, <2>2 DEF Keys
<1>2. LiveRows(k) \subseteq RowsOf(k)
  BY DEF LiveRows
<1>3. IsFiniteSet(LiveRows(k))
  BY <1>1, <1>2, FS_Subset
<1>4. Live(k) # {} => LiveRows(k) # {}
  BY DEF Live
<1> QED
  BY <1>3, <1>4, FS_CardinalityType, FS_EmptySet

LEMMA LiveTyped ==
    ASSUME rows \in [Rows -> Values \cup {Gone}], NEW k
    PROVE  Live(k) \subseteq Values
BY DEF Live, LiveRows, RowsOf

LEMMA MailTyped ==
    ASSUME email \in [Users -> Emails], NEW k \in Keys
    PROVE  MailOf(k) \in Emails \cup {NoEmail}
BY DEF MailOf, MemberKeys

\* An aggregate's next time is beyond its clock, as its transaction sees it.
LEMMA TickedLater ==
    ASSUME IInv, NEW b \in Backends, NEW k \in Keys, NEW now \in 1..MaxTime
    PROVE  /\ Clock(b, k) \in Nat /\ clock[k] <= Clock(b, k)
           /\ Ticked(b, k, now) \in Nat /\ Clock(b, k) < Ticked(b, k, now)
<1>1. clock[k] \in Nat /\ clocked[b][k] \in Nat
  BY TimeAssumption DEF IInv, TypeOK
<1>2. clock[k] <= Clock(b, k) /\ Clock(b, k) \in Nat
  <2>1. CASE clocked[b][k] = 0
    BY <1>1, <2>1 DEF Clock
  <2>2. CASE clocked[b][k] # 0
    <3>1. PICK e \in appended[b] : e.key = k /\ e.at = clocked[b][k]
      BY <2>2 DEF IInv, ClockedTold
    <3>2. clock[k] < clocked[b][k]
      BY <3>1 DEF IInv, AppendedAhead
    <3> QED
      BY <1>1, <2>2, <3>2 DEF Clock
  <2> QED
    BY <2>1, <2>2
<1> QED
  BY <1>2, TimeAssumption DEF Ticked

\* What a backfill describes, it describes as the next of its aggregate.
LEMMA SeedsTyped ==
    ASSUME rows \in [Rows -> Values \cup {Gone}], email \in [Users -> Emails],
           NEW time \in [Keys -> Nat],
           NEW K \in SUBSET {k \in Keys : Live(k) # {}},
           \A k \in K : time[k] + 1 <= MaxTime,
           NEW f \in First(K), NEW e \in Seeds(f, time)
    PROVE  /\ e \in Events /\ e.key \in K /\ e.seed
           /\ e.at = time[e.key] + 1
           /\ e.value = f[e.key] /\ e.value \in Live(e.key)
           /\ e.email = MailOf(e.key)
<1>1. PICK k \in K : e = Event(k, time[k] + 1, f[k], MailOf(k), TRUE)
  BY DEF Seeds, First
<1>2. k \in Keys /\ time[k] \in Nat /\ f[k] \in Live(k) /\ f[k] \in Values
  BY DEF First
<1>3. MailOf(k) \in Emails \cup {NoEmail}
  BY <1>2, MailTyped
<1> QED
  BY <1>1, <1>2, <1>3, TimeAssumption DEF Event, Events

\* Every aggregate it is to describe is described.
LEMMA SeedsAll ==
    ASSUME NEW K, NEW f \in First(K), NEW time, NEW k \in K
    PROVE  \E e \in Seeds(f, time) : e.key = k /\ e.value \in Live(k) /\ e.email = MailOf(k)
<1>1. Event(k, time[k] + 1, f[k], MailOf(k), TRUE) \in Seeds(f, time) /\ f[k] \in Live(k)
  BY DEF Seeds, First
<1> QED
  BY <1>1 DEF Event

LEMMA InitInv == Init => IInv
<1> SUFFICES ASSUME Init PROVE IInv
  OBVIOUS
<1> DEFINE K == {k \in Keys : Live(k) # {}}
           zero == [k \in Keys |-> 0]
<1>1. clock \in [Keys -> 0..MaxTime] /\ \A k \in K : clock[k] >= 1
  <2>1. \A k \in Keys : clock[k] = Cardinality(LiveRows(k)) /\ clock[k] <= MaxTime
    BY DEF Init
  <2>2. clock = [k \in Keys |-> Cardinality(LiveRows(k))]
    BY DEF Init
  <2> QED
    BY <2>1, <2>2, RowsCounted, TimeAssumption
<1>2. PICK f \in First(K) : outbox = Seeds(f, zero)
  BY DEF Init
<1>3. zero \in [Keys -> Nat] /\ \A k \in K : zero[k] = 0 /\ zero[k] + 1 <= MaxTime
  BY TimeAssumption
<1>4. rows \in [Rows -> Values \cup {Gone}] /\ email \in [Users -> Emails]
  BY DEF Init
<1>5. K \in SUBSET {k \in Keys : Live(k) # {}}
  OBVIOUS
<1> HIDE DEF K, zero
<1>6. \A e \in outbox : e \in Events /\ e.key \in K /\ e.at = 1
  BY <1>2, <1>3, <1>4, <1>5, SeedsTyped
<1>7. TypeOK
  <2>1. \A b \in Backends : writes[b] = NoWrites /\ DOMAIN NoWrites = {} /\ todo[b] = {}
    BY DEF Init, NoWrites
  <2>2. doubled \subseteq MemberKeys
    BY DEF Init, Twice
  <2>3. clocked \in [Backends -> [Keys -> 0..MaxTime]]
    BY TimeAssumption DEF Init
  <2> QED
    BY <1>1, <1>4, <1>6, <2>1, <2>2, <2>3 DEF Init, TypeOK
<1>8. OutboxBelowClock
  BY <1>1, <1>6 DEF OutboxBelowClock
<1>9. ClockedTold
  BY DEF Init, ClockedTold
<1> QED
  BY <1>7, <1>8, <1>9
  DEF Init, IInv, WritesDomain, AppendedAhead, LocksExclusive, FreshStart

-----------------------------------------------------------------------------
\* A step that leaves the tables alone keeps what is known of the outbox.
LEMMA WriteInv ==
    ASSUME IInv, NEW b \in Backends, NEW W, pc[b] = "idle", Write(b, W),
           DOMAIN W \subseteq Rows, \A r \in DOMAIN W : W[r] \in Values \cup {Gone}
    PROVE  IInv'
<1>1. TypeOK'
  <2>1. UNCHANGED <<db, changing, projected, appended, clocked, advisory>>
    BY DEF Write
  <2>2. todo' \in [Backends -> SUBSET Rows]
    BY DEF IInv, TypeOK, Write
  <2>3. pc' \in [Backends -> {"idle", "capturing", "scanning", "locking", "committing"}]
    BY DEF IInv, TypeOK, Write
  <2>4. ASSUME NEW c \in Backends
        PROVE  /\ todo'[c] \subseteq DOMAIN writes'[c] /\ DOMAIN writes'[c] \subseteq Rows
               /\ \A r \in DOMAIN writes'[c] : writes'[c][r] \in Values \cup {Gone}
    <3>1. CASE c = b
      BY <3>1 DEF IInv, TypeOK, Write, WritesDomain
    <3>2. CASE c # b
      BY <3>2 DEF IInv, TypeOK, Write, WritesDomain
    <3> QED
      BY <3>1, <3>2
  <2> QED
    BY <2>1, <2>2, <2>3, <2>4 DEF IInv, TypeOK, db, Projections, Events
<1>2. /\ WritesDomain' /\ OutboxBelowClock' /\ AppendedAhead' /\ ClockedTold'
      /\ LocksExclusive'
  BY DEF IInv, Write, WritesDomain, OutboxBelowClock, AppendedAhead, ClockedTold,
         LocksExclusive, db
<1>3. FreshStart'
  BY DEF IInv, TypeOK, Write, FreshStart
<1> QED
  BY <1>1, <1>2, <1>3 DEF IInv

\* The end of a transaction clears what it held, and nothing else.
LEMMA EndClears ==
    ASSUME IInv, NEW b \in Backends, End(b)
    PROVE  /\ pc' \in [Backends -> {"idle", "capturing", "scanning", "locking", "committing"}]
           /\ changing' \in [Backends -> {NoChange} \cup [user : Users, email : Emails]]
           /\ todo' \in [Backends -> SUBSET Rows]
           /\ projected' \in [Backends -> SUBSET Projections]
           /\ appended' \in [Backends -> SUBSET Events]
           /\ clocked' \in [Backends -> [Keys -> 0..MaxTime]]
           /\ advisory' \in [Backends -> SUBSET Orgs]
           /\ WritesDomain' /\ LocksExclusive' /\ ClockedTold' /\ FreshStart'
           /\ \A c \in Backends :
                /\ todo'[c] \subseteq DOMAIN writes'[c] /\ DOMAIN writes'[c] \subseteq Rows
                /\ \A r \in DOMAIN writes'[c] : writes'[c][r] \in Values \cup {Gone}
           /\ appended'[b] = {}
           /\ \A c \in Backends \ {b} :
                /\ appended'[c] = appended[c] /\ clocked'[c] = clocked[c]
                /\ advisory'[c] = advisory[c]
<1>1. /\ pc' \in [Backends -> {"idle", "capturing", "scanning", "locking", "committing"}]
      /\ changing' \in [Backends -> {NoChange} \cup [user : Users, email : Emails]]
      /\ todo' \in [Backends -> SUBSET Rows]
      /\ projected' \in [Backends -> SUBSET Projections]
      /\ appended' \in [Backends -> SUBSET Events]
      /\ advisory' \in [Backends -> SUBSET Orgs]
  BY DEF IInv, TypeOK, End
<1>2. \A c \in Backends :
        /\ todo'[c] \subseteq DOMAIN writes'[c] /\ DOMAIN writes'[c] \subseteq Rows
        /\ \A r \in DOMAIN writes'[c] : writes'[c][r] \in Values \cup {Gone}
  <2> TAKE c \in Backends
  <2>1. CASE c = b
    BY <2>1 DEF IInv, TypeOK, End, NoWrites, WritesDomain
  <2>2. CASE c # b
    BY <2>2 DEF IInv, TypeOK, End, WritesDomain
  <2> QED
    BY <2>1, <2>2
<1>3. WritesDomain' /\ LocksExclusive' /\ FreshStart'
  BY DEF IInv, TypeOK, End, WritesDomain, LocksExclusive, FreshStart
<1>4. /\ appended'[b] = {} /\ clocked'[b] = [k \in Keys |-> 0]
      /\ \A c \in Backends \ {b} :
           /\ appended'[c] = appended[c] /\ clocked'[c] = clocked[c]
           /\ advisory'[c] = advisory[c]
  BY DEF IInv, TypeOK, End
<1>5. clocked' \in [Backends -> [Keys -> 0..MaxTime]]
  <2>1. [k \in Keys |-> 0] \in [Keys -> 0..MaxTime]
    BY TimeAssumption
  <2> QED
    BY <2>1 DEF IInv, TypeOK, End
<1>6. ClockedTold'
  BY <1>4 DEF IInv, ClockedTold
<1> QED
  BY <1>1, <1>2, <1>3, <1>4, <1>5, <1>6

LEMMA ProjectInv ==
    ASSUME IInv, NEW b \in Backends, NEW r \in Rows, Project(b, r)
    PROVE  IInv'
<1> DEFINE p == [row |-> r, value |-> writes[b][r], email |-> MailOf(KeyOf(r))]
<1>0. r \in DOMAIN writes[b] /\ writes[b][r] \in Values \cup {Gone}
  BY DEF IInv, TypeOK, Project
<1>1. p \in Projections
  BY <1>0, KeyTyped, MailTyped DEF IInv, TypeOK, Projections
<1>2. TypeOK'
  <2>1. projected' \in [Backends -> SUBSET Projections]
    BY <1>1 DEF IInv, TypeOK, Project
  <2>2. todo' \in [Backends -> SUBSET Rows]
        /\ \A c \in Backends : todo'[c] \subseteq todo[c]
    BY DEF IInv, TypeOK, Project
  <2>3. pc' \in [Backends -> {"idle", "capturing", "scanning", "locking", "committing"}]
    BY DEF IInv, TypeOK, Project
  <2> QED
    BY <2>1, <2>2, <2>3 DEF IInv, TypeOK, Project, db, Projections, Events
<1>3. FreshStart'
  BY DEF IInv, TypeOK, Project, FreshStart
<1> QED
  BY <1>2, <1>3
  DEF IInv, Project, WritesDomain, OutboxBelowClock, AppendedAhead, ClockedTold,
      LocksExclusive, db

LEMMA ScanInv ==
    ASSUME IInv, NEW b \in Backends, Scan(b)
    PROVE  IInv'
<1> DEFINE found == {r \in MemberRows : r[2] = changing[b].user /\ rows[r] # Gone}
           ps == {[row |-> r, value |-> rows[r], email |-> changing[b].email] : r \in found}
<1>1. projected' = [projected EXCEPT ![b] = ps]
  BY DEF Scan
<1>2. ps \subseteq Projections
  <2>1. changing[b].email \in Emails \cup {NoEmail}
    BY DEF IInv, TypeOK, NoChange
  <2>2. \A r \in found : r \in Rows /\ rows[r] \in Values \cup {Gone}
    BY DEF IInv, TypeOK, Rows
  <2> QED
    BY <2>1, <2>2 DEF Projections
<1>3. pc' \in [Backends -> {"idle", "capturing", "scanning", "locking", "committing"}]
      /\ pc'[b] \in {"committing", "locking"} /\ \A c \in Backends \ {b} : pc'[c] = pc[c]
  BY DEF IInv, TypeOK, Scan
<1> HIDE DEF ps, found
<1>4. TypeOK'
  BY <1>1, <1>2, <1>3 DEF IInv, TypeOK, Scan, db, Projections, Events
<1>5. FreshStart'
  BY <1>1, <1>3 DEF IInv, TypeOK, Scan, FreshStart
<1> QED
  BY <1>4, <1>5
  DEF IInv, Scan, WritesDomain, OutboxBelowClock, AppendedAhead, ClockedTold,
      LocksExclusive, db

LEMMA AppendInv ==
    ASSUME IInv, NEW b \in Backends, NEW p \in projected[b], NEW now \in 1..MaxTime,
           Append(b, p, now)
    PROVE  IInv'
<1> DEFINE k == KeyOf(p.row)
           at == Ticked(b, k, now)
           e == Event(k, at, p.value, p.email, FALSE)
<1>1. p \in Projections /\ k \in Keys /\ k[1] = p.row[1] /\ p.row[1] \in Orgs
  <2>1. p \in Projections /\ p.row \in Rows
    BY DEF IInv, TypeOK, Projections
  <2> QED
    BY <2>1, KeyTyped, KeyOrg
<1>2. /\ at \in Nat /\ Clock(b, k) < at /\ clock[k] <= Clock(b, k) /\ Clock(b, k) \in Nat
      /\ at <= MaxTime /\ clock[k] \in Nat /\ at \in 1..MaxTime
  BY <1>1, TickedLater, TimeAssumption DEF IInv, TypeOK, Append
<1>3. e \in Events /\ e.key = k /\ e.at = at
  BY <1>1, <1>2 DEF Event, Events, Projections
<1>4. appended' = [appended EXCEPT ![b] = @ \cup {e}]
      /\ clocked' = [clocked EXCEPT ![b][k] = at]
      /\ advisory' = [advisory EXCEPT ![b] = @ \cup {p.row[1]}]
  BY DEF Append
<1> HIDE DEF e, at, k
<1>5. clocked'[b][k] = at
      /\ \A c \in Backends : \A j \in Keys : c # b \/ j # k => clocked'[c][j] = clocked[c][j]
  BY <1>1, <1>4 DEF IInv, TypeOK
<1>6. TypeOK'
  <2>1. appended' \in [Backends -> SUBSET Events]
    BY <1>3, <1>4 DEF IInv, TypeOK
  <2>2. advisory' \in [Backends -> SUBSET Orgs]
    BY <1>1, <1>4 DEF IInv, TypeOK
  <2>3. projected' \in [Backends -> SUBSET Projections]
    BY DEF IInv, TypeOK, Append
  <2>4. pc' \in [Backends -> {"idle", "capturing", "scanning", "locking", "committing"}]
    BY DEF IInv, TypeOK, Append
  <2>5. clocked' \in [Backends -> [Keys -> 0..MaxTime]]
    BY <1>1, <1>2, <1>4 DEF IInv, TypeOK
  <2> QED
    BY <2>1, <2>2, <2>3, <2>4, <2>5 DEF IInv, TypeOK, Append, db, Projections, Events
<1>7. AppendedAhead'
  <2> SUFFICES ASSUME NEW c \in Backends, NEW f \in appended'[c]
               PROVE  /\ f.key[1] \in advisory'[c]
                      /\ clock[f.key] < f.at /\ f.at <= clocked'[c][f.key]
    BY DEF AppendedAhead, Append, db
  <2>1. CASE f \in appended[c]
    <3>1. f.key \in Keys /\ f.at \in Nat
      BY <2>1, TimeAssumption DEF IInv, TypeOK, Events
    <3>2. f.key[1] \in advisory[c] /\ clock[f.key] < f.at /\ f.at <= clocked[c][f.key]
      BY <2>1 DEF IInv, AppendedAhead
    <3>3. f.key[1] \in advisory'[c]
      BY <1>4, <3>2 DEF IInv, TypeOK
    <3>4. CASE c = b /\ f.key = k
      <4>1. f.at <= clocked[b][k] /\ clock[k] < f.at
        BY <3>2, <3>4
      <4>2. clocked[b][k] \in Nat /\ Clock(b, k) = clocked[b][k]
        BY <1>1, <1>2, <3>1, <4>1, TimeAssumption DEF IInv, TypeOK, Clock
      <4> QED
        BY <1>2, <1>5, <3>1, <3>3, <3>4, <4>1, <4>2
    <3>5. CASE ~(c = b /\ f.key = k)
      BY <1>5, <3>1, <3>2, <3>3, <3>5
    <3> QED
      BY <3>4, <3>5
  <2>2. CASE f \notin appended[c]
    <3>1. c = b /\ f = e
      BY <1>4, <2>2 DEF IInv, TypeOK
    <3>2. k[1] \in advisory'[b]
      BY <1>1, <1>4 DEF IInv, TypeOK
    <3> QED
      BY <3>1, <3>2, <1>2, <1>3, <1>5
  <2> QED
    BY <2>1, <2>2
<1>8. ClockedTold'
  <2> SUFFICES ASSUME NEW c \in Backends, NEW j \in Keys, clocked'[c][j] # 0
               PROVE  \E f \in appended'[c] : f.key = j /\ f.at = clocked'[c][j]
    BY DEF ClockedTold
  <2>1. CASE c = b /\ j = k
    <3>1. e \in appended'[c]
      BY <1>4, <2>1 DEF IInv, TypeOK
    <3> QED
      BY <1>3, <1>5, <2>1, <3>1
  <2>2. CASE c # b \/ j # k
    <3>1. clocked'[c][j] = clocked[c][j]
      BY <1>5, <2>2
    <3>2. appended[c] \subseteq appended'[c]
      BY <1>4 DEF IInv, TypeOK
    <3> QED
      BY <3>1, <3>2 DEF IInv, ClockedTold
  <2> QED
    BY <2>1, <2>2
<1>9. LocksExclusive'
  BY DEF IInv, TypeOK, LocksExclusive, Append, Lockable
<1>10. FreshStart'
  BY DEF IInv, TypeOK, FreshStart, Append
<1> QED
  BY <1>6, <1>7, <1>8, <1>9, <1>10 DEF IInv, Append, WritesDomain, OutboxBelowClock, db

\* What a transaction commits is ahead of everything committed before.
LEMMA CommitAhead ==
    ASSUME IInv, NEW b \in Backends, Commit(b)
    PROVE  /\ clock' \in [Keys -> 0..MaxTime]
           /\ \A e \in appended[b] : e.key \in Keys /\ clock[e.key] < e.at /\ e.at <= clock'[e.key]
           /\ \A k \in Keys : clock[k] <= clock'[k]
           /\ \A k \in Keys :
                (\A e \in appended[b] : e.key # k) => clock'[k] = clock[k]
<1>1. \A k \in Keys : clock[k] \in Nat /\ clocked[b][k] \in Nat /\ clocked[b][k] <= MaxTime
                      /\ clock[k] <= MaxTime
  BY TimeAssumption DEF IInv, TypeOK
<1>2. \A k \in Keys : clock'[k] = IF clocked[b][k] = 0 THEN clock[k] ELSE clocked[b][k]
  BY DEF Commit, Clock
<1>3. ASSUME NEW e \in appended[b]
      PROVE  e.key \in Keys /\ clock[e.key] < e.at /\ e.at <= clock'[e.key]
  <2>1. e.key \in Keys /\ e.at \in Nat
    BY TimeAssumption DEF IInv, TypeOK, Events
  <2>2. clock[e.key] < e.at /\ e.at <= clocked[b][e.key]
    BY DEF IInv, AppendedAhead
  <2> QED
    BY <1>1, <1>2, <2>1, <2>2
<1>4. clock' \in [Keys -> 0..MaxTime]
  <2>1. clock' = [k \in Keys |-> Clock(b, k)]
    BY DEF Commit
  <2>2. \A k \in Keys : Clock(b, k) \in 0..MaxTime
    BY <1>1, TimeAssumption DEF Clock
  <2> QED
    BY <2>1, <2>2
<1>5. ASSUME NEW k \in Keys
      PROVE  /\ clock[k] <= clock'[k]
             /\ (\A e \in appended[b] : e.key # k) => clock'[k] = clock[k]
  <2>1. CASE clocked[b][k] = 0
    BY <1>1, <1>2, <2>1
  <2>2. CASE clocked[b][k] # 0
    <3>1. PICK e \in appended[b] : e.key = k /\ e.at = clocked[b][k]
      BY <2>2 DEF IInv, ClockedTold
    <3>2. clock[k] < clocked[b][k]
      BY <3>1 DEF IInv, AppendedAhead
    <3> QED
      BY <1>1, <1>2, <2>2, <3>1, <3>2
  <2> QED
    BY <2>1, <2>2
<1> QED
  BY <1>3, <1>4, <1>5

LEMMA CommitInv ==
    ASSUME IInv, NEW b \in Backends, Commit(b)
    PROVE  IInv'
<1>0. End(b)
  BY DEF Commit
<1>1. outbox' = outbox \cup appended[b] /\ appended[b] \subseteq Events
  BY DEF Commit, IInv, TypeOK
<1>2. rows' \in [Rows -> Values \cup {Gone}]
  BY DEF Commit, IInv, TypeOK
<1>3. email' \in [Users -> Emails]
  <2> SUFFICES ASSUME NEW u \in Users, changing[b].user = u
               PROVE  changing[b].email \in Emails
    BY DEF Commit, IInv, TypeOK
  <2> QED
    BY NobodyAssumption DEF IInv, TypeOK, NoChange
<1>4. doubled' \subseteq MemberKeys
  BY DEF Commit, IInv, TypeOK, Twice
<1>5. TypeOK'
  BY <1>0, <1>1, <1>2, <1>3, <1>4, CommitAhead, EndClears
  DEF IInv, TypeOK, Events, Projections
<1>6. OutboxBelowClock'
  <2> SUFFICES ASSUME NEW e \in outbox' PROVE e.at <= clock'[e.key]
    BY DEF OutboxBelowClock
  <2>1. e \in Events /\ e.key \in Keys /\ e.at \in Nat
    BY <1>1, TimeAssumption DEF IInv, TypeOK, Events
  <2>2. CASE e \in outbox
    <3>1. e.at <= clock[e.key] /\ clock[e.key] \in Nat
      BY <2>1, <2>2, TimeAssumption DEF IInv, TypeOK, OutboxBelowClock
    <3>2. clock[e.key] <= clock'[e.key] /\ clock'[e.key] \in Nat
      BY <2>1, CommitAhead, TimeAssumption
    <3> QED
      BY <2>1, <3>1, <3>2
  <2>3. CASE e \in appended[b]
    BY <2>1, <2>3, CommitAhead
  <2> QED
    BY <1>1, <2>2, <2>3
<1>7. AppendedAhead'
  <2> SUFFICES ASSUME NEW c \in Backends, NEW e \in appended'[c]
               PROVE  /\ e.key[1] \in advisory'[c]
                      /\ clock'[e.key] < e.at /\ e.at <= clocked'[c][e.key]
    BY DEF AppendedAhead
  <2>1. /\ c # b /\ e \in appended[c] /\ advisory'[c] = advisory[c]
        /\ clocked'[c] = clocked[c]
    BY <1>0, EndClears
  <2>2. /\ e.key \in Keys /\ e.key[1] \in advisory[c]
        /\ clock[e.key] < e.at /\ e.at <= clocked[c][e.key]
    BY <2>1 DEF IInv, TypeOK, AppendedAhead, Events
  <2>3. \A f \in appended[b] : f.key # e.key
    BY <2>1, <2>2 DEF IInv, AppendedAhead, LocksExclusive
  <2> QED
    BY <2>1, <2>2, <2>3, CommitAhead
<1> QED
  BY <1>0, <1>5, <1>6, <1>7, EndClears DEF IInv

\* A repeated backfill: what it says, and how the clocks move.
LEMMA BackfillSays ==
    ASSUME IInv, Backfill
    PROVE  /\ UNCHANGED <<rows, email, doubled, tx>> /\ outbox \subseteq outbox'
           /\ clock' \in [Keys -> 0..MaxTime]
           /\ \A k \in Keys : clock[k] <= clock'[k]
           /\ \A e \in outbox' \ outbox :
                /\ e \in Events /\ e.key \in Keys
                /\ e.at = clock[e.key] + 1 /\ e.at <= clock'[e.key]
                /\ e.value \in Live(e.key) /\ e.email = MailOf(e.key)
           /\ \A e, f \in outbox' \ outbox : e.key = f.key => e = f
<1> DEFINE K == {k \in Keys : Live(k) # {} /\ \A e \in outbox : e.key = k => ~e.seed}
<1>1. clock' = [k \in Keys |-> clock[k] + Cardinality(LiveRows(k))]
      /\ \A k \in Keys : clock'[k] <= MaxTime
  BY DEF Backfill
<1>2. clock \in [Keys -> Nat] /\ \A k \in Keys : clock[k] \in Nat
  BY TimeAssumption DEF IInv, TypeOK
<1>3. clock' \in [Keys -> 0..MaxTime] /\ \A k \in Keys : clock[k] <= clock'[k]
  BY <1>1, <1>2, RowsCounted, TimeAssumption
<1>4. PICK f \in First(K) : outbox' = outbox \cup Seeds(f, clock)
  BY DEF Backfill
<1>5. K \in SUBSET {k \in Keys : Live(k) # {}}
  OBVIOUS
<1>6. \A k \in K : clock[k] + 1 <= clock'[k] /\ clock[k] + 1 <= MaxTime
  BY <1>1, <1>2, <1>5, RowsCounted, TimeAssumption
<1>7. rows \in [Rows -> Values \cup {Gone}] /\ email \in [Users -> Emails]
  BY DEF IInv, TypeOK
<1> HIDE DEF K
<1>8. ASSUME NEW e \in Seeds(f, clock)
      PROVE  /\ e \in Events /\ e.key \in K /\ e.at = clock[e.key] + 1
             /\ e.value = f[e.key] /\ e.value \in Live(e.key) /\ e.email = MailOf(e.key)
             /\ e.seed
  BY <1>2, <1>5, <1>6, <1>7, SeedsTyped
<1>9. ASSUME NEW e \in Seeds(f, clock), NEW g \in Seeds(f, clock), e.key = g.key
      PROVE  e = g
  <2>1. PICK k \in K : e = Event(k, clock[k] + 1, f[k], MailOf(k), TRUE)
    BY DEF Seeds, First
  <2>2. PICK j \in K : g = Event(j, clock[j] + 1, f[j], MailOf(j), TRUE)
    BY DEF Seeds, First
  <2>3. e.key = k /\ g.key = j
    BY <2>1, <2>2 DEF Event
  <2> QED
    BY <1>9, <2>1, <2>2, <2>3
<1> QED
  BY <1>3, <1>4, <1>5, <1>6, <1>8, <1>9 DEF Backfill

LEMMA BackfillInv ==
    ASSUME IInv, Backfill
    PROVE  /\ IInv'
           /\ \A e \in outbox' \ outbox : e.key \in Keys /\ clock[e.key] < e.at
<1>1. \A k \in Keys : clock[k] \in Nat /\ clock'[k] \in Nat
  BY BackfillSays, TimeAssumption DEF IInv, TypeOK
<1>2. TypeOK'
  <2>1. outbox' \subseteq Events
    BY BackfillSays DEF IInv, TypeOK
  <2> QED
    BY <2>1, BackfillSays DEF IInv, TypeOK, tx, Projections, Events
<1>3. OutboxBelowClock'
  <2> SUFFICES ASSUME NEW e \in outbox' PROVE e.at <= clock'[e.key]
    BY DEF OutboxBelowClock
  <2>1. CASE e \in outbox
    <3>1. e.key \in Keys /\ e.at \in Nat /\ e.at <= clock[e.key]
      BY <2>1, TimeAssumption DEF IInv, TypeOK, Events, OutboxBelowClock
    <3> QED
      BY <1>1, <3>1, BackfillSays
  <2>2. CASE e \notin outbox
    BY <2>2, BackfillSays
  <2> QED
    BY <2>1, <2>2
<1>4. \A b \in Backends : appended'[b] = {}
  BY BackfillSays DEF Backfill, IInv, FreshStart, tx
<1>5. \A e \in outbox' \ outbox : e.key \in Keys /\ clock[e.key] < e.at
  BY <1>1, BackfillSays
<1>6. WritesDomain' /\ LocksExclusive' /\ ClockedTold' /\ FreshStart'
  BY BackfillSays DEF IInv, tx, WritesDomain, LocksExclusive, ClockedTold, FreshStart
<1> QED
  BY <1>2, <1>3, <1>4, <1>5, <1>6 DEF IInv, AppendedAhead

-----------------------------------------------------------------------------
\* One step per action: the invariant, and the order of what is committed.
LEMMA NextInv ==
    ASSUME IInv, [Next]_vars
    PROVE  /\ IInv'
           /\ \A e \in outbox' \ outbox : e.key \in Keys /\ clock[e.key] < e.at
<1>1. ASSUME NEW b \in Backends, NEW r \in Rows, NEW v \in Values, Save(b, r, v)
      PROVE  IInv' /\ outbox' = outbox
  <2> DEFINE W == [s \in {r} |-> v]
  <2>1. pc[b] = "idle" /\ Write(b, W)
    BY <1>1 DEF Save
  <2>2. DOMAIN W \subseteq Rows /\ \A s \in DOMAIN W : W[s] \in Values \cup {Gone}
    OBVIOUS
  <2> HIDE DEF W
  <2> QED
    BY <2>1, <2>2, WriteInv DEF Write, db
<1>2. ASSUME NEW b \in Backends, NEW r \in Rows, Delete(b, r)
      PROVE  IInv' /\ outbox' = outbox
  <2> DEFINE W == [s \in Cascade(r) |-> Gone]
  <2>1. pc[b] = "idle" /\ Write(b, W)
    BY <1>2 DEF Delete
  <2>2. DOMAIN W \subseteq Rows /\ \A s \in DOMAIN W : W[s] \in Values \cup {Gone}
    BY DEF Cascade, Rows
  <2> HIDE DEF W
  <2> QED
    BY <2>1, <2>2, WriteInv DEF Write, db
<1>3. ASSUME NEW b \in Backends, NEW u \in Users, NEW e \in Emails, ChangeEmail(b, u, e)
      PROVE  IInv' /\ outbox' = outbox
  <2>1. changing' \in [Backends -> {NoChange} \cup [user : Users, email : Emails]]
        /\ pc' \in [Backends -> {"idle", "capturing", "scanning", "locking", "committing"}]
    BY <1>3 DEF IInv, TypeOK, ChangeEmail
  <2>2. TypeOK'
    BY <1>3, <2>1 DEF IInv, TypeOK, ChangeEmail, db, Projections, Events
  <2>3. FreshStart'
    BY <1>3 DEF IInv, TypeOK, FreshStart, ChangeEmail
  <2> QED
    BY <1>3, <2>2, <2>3
    DEF IInv, ChangeEmail, db, WritesDomain, OutboxBelowClock, AppendedAhead, ClockedTold,
        LocksExclusive
<1>4. ASSUME NEW b \in Backends, NEW r \in Rows, Project(b, r)
      PROVE  IInv' /\ outbox' = outbox
  BY <1>4, ProjectInv DEF Project, db
<1>5. ASSUME NEW b \in Backends, Scan(b)
      PROVE  IInv' /\ outbox' = outbox
  BY <1>5, ScanInv DEF Scan, db
<1>6. ASSUME NEW b \in Backends, NEW p \in projected[b], NEW now \in 1..MaxTime,
             Append(b, p, now)
      PROVE  IInv' /\ outbox' = outbox
  BY <1>6, AppendInv DEF Append, db
<1>7. ASSUME NEW b \in Backends, Commit(b)
      PROVE  IInv' /\ \A e \in outbox' \ outbox : e.key \in Keys /\ clock[e.key] < e.at
  <2>1. \A e \in outbox' \ outbox : e \in appended[b]
    BY <1>7 DEF Commit
  <2> QED
    BY <1>7, <2>1, CommitInv, CommitAhead
<1>8. ASSUME NEW b \in Backends, Abort(b)
      PROVE  IInv' /\ outbox' = outbox
  <2>1. End(b) /\ UNCHANGED db
    BY <1>8 DEF Abort
  <2>2. TypeOK'
    BY <2>1, EndClears DEF IInv, TypeOK, db, Events, Projections
  <2>3. AppendedAhead'
    BY <2>1, EndClears DEF IInv, AppendedAhead, db
  <2> QED
    BY <2>1, <2>2, <2>3, EndClears DEF IInv, OutboxBelowClock, db
<1>9. CASE Backfill
  BY <1>9, BackfillInv
<1>10. CASE UNCHANGED vars
  BY <1>10
  DEF vars, db, tx, IInv, TypeOK, WritesDomain, OutboxBelowClock, AppendedAhead, ClockedTold,
      LocksExclusive, FreshStart, Projections, Events
<1> QED
  BY <1>1, <1>2, <1>3, <1>4, <1>5, <1>6, <1>7, <1>8, <1>9, <1>10 DEF Next

\* The type invariant holds in every reachable state.
THEOREM TypeCorrect == Spec => []TypeOK
<1>1. IInv /\ [Next]_vars => IInv'
  BY NextInv
<1>2. IInv => TypeOK
  BY DEF IInv
<1> QED
  BY InitInv, <1>1, <1>2, PTL DEF Spec

\* Commit order is clock order for every aggregate, whatever the transactions,
\* the rollbacks, the repeated migrations and the database clock do: a receiver
\* that lets the latest occurredAt win ends with the last event committed.
THEOREM CommitsInClockOrder == Spec => ClockFollowsCommits
<1>1. IInv /\ [Next]_vars => IInv'
  BY NextInv
<1>2. IInv /\ [Next]_vars =>
        \A e \in outbox' \ outbox : \A f \in outbox : f.key = e.key => f.at < e.at
  <2> SUFFICES ASSUME IInv, [Next]_vars, NEW e \in outbox' \ outbox, NEW f \in outbox,
                      f.key = e.key
               PROVE  f.at < e.at
    OBVIOUS
  <2>1. e.key \in Keys /\ clock[e.key] < e.at
    BY NextInv
  <2>2. f.at <= clock[e.key] /\ clock[e.key] \in Nat /\ f.at \in Nat
    BY <2>1, TimeAssumption DEF IInv, TypeOK, OutboxBelowClock, Events
  <2>3. e.at \in Nat
    BY NextInv, TimeAssumption DEF IInv, TypeOK, Events
  <2> QED
    BY <2>1, <2>2, <2>3
<1>3. IInv /\ [Next]_vars =>
        [\A e \in outbox' \ outbox : \A f \in outbox : f.key = e.key => f.at < e.at]_vars
  BY <1>2
<1> QED
  BY InitInv, <1>1, <1>3, PTL DEF Spec, ClockFollowsCommits

-----------------------------------------------------------------------------
\* What transaction b has to say: what it has projected and what it has appended.
Told(p) == Event(KeyOf(p.row), 0, p.value, p.email, FALSE)

Said(b) == {Told(p) : p \in projected[b]} \cup appended[b]

Changes(b) == changing[b].user # NoUser

\* How far a transaction is says what it may hold.
Stage(b) ==
    /\ pc[b] = "idle" => DOMAIN writes[b] = {} /\ ~Changes(b)
    /\ pc[b] = "scanning" => Changes(b)
    /\ pc[b] \in {"capturing", "committing"} => projected[b] = {}
    /\ pc[b] = "committing" => todo[b] = {}
    /\ Changes(b) => DOMAIN writes[b] = {} /\ todo[b] = {}

\* It writes one value, and removes what is there.
Writing(b) ==
    /\ \A r, s \in DOMAIN writes[b] : writes[b][r] = writes[b][s]
    /\ \A r \in DOMAIN writes[b] : writes[b][r] = Gone => rows[r] # Gone

\* Every row b has written is yet to be captured or is described as written, a
\* new membership with the email its user still has.
Captured(b) ==
    \A r \in DOMAIN writes[b] :
        \/ r \in todo[b]
        \/ \E p \in Said(b) : /\ p.key = KeyOf(r) /\ p.value = writes[b][r]
                              /\ rows[r] = Gone => p.email = MailOf(KeyOf(r))

\* A transaction that changes no email speaks of the rows it has written only.
OnlyWritten(b) ==
    ~Changes(b) => \A p \in Said(b) :
        \E r \in DOMAIN writes[b] : p.key = KeyOf(r) /\ p.value = writes[b][r]

\* A change of email speaks of every membership of the user, with the new email.
Scanned(b) ==
    Changes(b) /\ pc[b] # "scanning" =>
        \A r \in MemberRows : r[2] = changing[b].user /\ rows[r] # Gone =>
            \E p \in Said(b) : p.key = KeyOf(r) /\ p.email = changing[b].email

\* It changes the email, and each membership it speaks of has been announced
\* with another before.
Announced(b) ==
    Changes(b) =>
        /\ changing[b].email # email[changing[b].user]
        /\ \A p \in Said(b) : /\ p.email = changing[b].email
                              /\ \E f \in outbox : f.key = p.key /\ f.email # p.email

Own(b) ==
    Stage(b) /\ Writing(b) /\ Captured(b) /\ OnlyWritten(b) /\ Scanned(b) /\ Announced(b)

\* The row locks, and the lock on the user that an inserted membership takes.
RowsExclusive ==
    \A b, c \in Backends : b # c =>
        /\ DOMAIN writes[b] \cap DOMAIN writes[c] = {}
        /\ Changes(b) => changing[b].user # changing[c].user

MembersLockUser ==
    \A b, c \in Backends : Changes(b) =>
        \A r \in MemberRows : r[2] = changing[b].user => ~Inserting(c, r)

DoublesKnown == Twice(rows) \subseteq doubled

\* Whatever transactions are open, an aggregate that was announced under one
\* email only is told what one of its rows holds, or that it is gone; and that
\* it is gone only when it is, unless it had two rows.
OneEmail(k) == \A e, f \in outbox : e.key = k /\ f.key = k => e.email = f.email

TellsValue(k) ==
    /\ \A e \in Latest(k) : e.value # Gone => e.value \in Live(k)
    /\ k \notin doubled /\ Live(k) # {} =>
         Latest(k) # {} /\ \A e \in Latest(k) : e.value # Gone

LatestTellsValue == \A k \in Keys : OneEmail(k) => TellsValue(k)

\* The inductive invariant behind EmailReachesMembers and QuietLatestDescribesRow.
CInv ==
    /\ \A b \in Backends : Own(b)
    /\ RowsExclusive /\ MembersLockUser /\ DoublesKnown
    /\ EmailReachesMembers /\ LatestTellsValue

-----------------------------------------------------------------------------
LEMMA ToldSays == \A p : /\ Told(p).key = KeyOf(p.row) /\ Told(p).value = p.value
                         /\ Told(p).email = p.email
BY DEF Told, Event

\* A step of b that touches none of the other transactions.
LeavesOthers(b) ==
    \A c \in Backends \ {b} :
        /\ pc'[c] = pc[c] /\ writes'[c] = writes[c] /\ changing'[c] = changing[c]
        /\ todo'[c] = todo[c] /\ projected'[c] = projected[c] /\ appended'[c] = appended[c]

\* A step inside b's transaction: the others' and the tables' part stays.
LEMMA InsideStep ==
    ASSUME CInv, NEW b \in Backends, UNCHANGED db, LeavesOthers(b),
           Own(b)', RowsExclusive', MembersLockUser'
    PROVE  CInv'
<1>1. ASSUME NEW c \in Backends \ {b} PROVE Own(c)'
  <2>1. Own(c)
    BY DEF CInv
  <2> QED
    BY <2>1
    DEF LeavesOthers, Own, Stage, Writing, Captured, OnlyWritten, Scanned, Announced, Said,
        Changes, MailOf, db
<1>2. EmailReachesMembers' /\ DoublesKnown'
  BY DEF CInv, EmailReachesMembers, DoublesKnown, Twice, db
<1>3. LatestTellsValue'
  <2> SUFFICES ASSUME NEW k \in Keys, OneEmail(k) PROVE TellsValue(k)'
    BY DEF LatestTellsValue, OneEmail, db
  <2>1. Latest(k)' = Latest(k) /\ Live(k)' = Live(k) /\ UNCHANGED doubled
    BY DEF Latest, Live, LiveRows, db
  <2> QED
    BY <2>1 DEF CInv, LatestTellsValue, TellsValue
<1> QED
  BY <1>1, <1>2, <1>3 DEF CInv

\* The locks stay with a step that neither writes nor changes an email.
LEMMA LocksKept ==
    ASSUME CInv, NEW b \in Backends, UNCHANGED rows, LeavesOthers(b),
           writes'[b] = writes[b], changing'[b] = changing[b]
    PROVE  RowsExclusive' /\ MembersLockUser'
<1>1. \A c \in Backends : writes'[c] = writes[c] /\ changing'[c] = changing[c]
  BY DEF LeavesOthers
<1> QED
  BY <1>1 DEF CInv, RowsExclusive, MembersLockUser, Changes, Inserting

\* The end of a transaction lets go of everything.
LEMMA EndOwn ==
    ASSUME IInv, NEW b \in Backends, End(b)
    PROVE  /\ LeavesOthers(b) /\ Own(b)' /\ Said(b)' = {}
           /\ DOMAIN writes'[b] = {} /\ ~Changes(b)'
<1>1. LeavesOthers(b)
  BY DEF LeavesOthers, End, IInv, TypeOK, WritesDomain
<1>2. /\ pc'[b] = "idle" /\ writes'[b] = NoWrites /\ changing'[b] = NoChange
      /\ todo'[b] = {} /\ projected'[b] = {} /\ appended'[b] = {}
  BY DEF End, IInv, TypeOK, WritesDomain
<1>3. DOMAIN writes'[b] = {} /\ ~Changes(b)' /\ Said(b)' = {}
  BY <1>2 DEF NoWrites, NoChange, Changes, Said
<1>4. Own(b)'
  BY <1>2, <1>3 DEF Own, Stage, Writing, Captured, OnlyWritten, Scanned, Announced
<1> QED
  BY <1>1, <1>3, <1>4

\* With b holding nothing, what its locks exclude is only what others hold.
LEMMA EndLocks ==
    ASSUME CInv, NEW b \in Backends, LeavesOthers(b),
           DOMAIN writes'[b] = {}, ~Changes(b)',
           \A c \in Backends \ {b} : \A r \in MemberRows :
              Inserting(c, r)' => Inserting(c, r)
    PROVE  RowsExclusive' /\ MembersLockUser'
<1>1. RowsExclusive'
  BY DEF CInv, RowsExclusive, LeavesOthers, Changes
<1>2. \A r \in MemberRows : ~Inserting(b, r)'
  BY DEF Inserting
<1>3. MembersLockUser'
  BY <1>2 DEF CInv, MembersLockUser, LeavesOthers, Changes
<1> QED
  BY <1>1, <1>3

\* Rows are written under their locks; an inserted membership locks its user.
LEMMA WriteCInv ==
    ASSUME IInv, CInv, NEW b \in Backends, NEW W, pc[b] = "idle", Write(b, W),
           \A r \in DOMAIN W : ~Locked(r),
           \A r, s \in DOMAIN W : W[r] = W[s],
           \A r \in DOMAIN W : W[r] = Gone => rows[r] # Gone,
           \A r \in DOMAIN W : rows[r] = Gone /\ r \in MemberRows => ~EmailLocked(r[2])
    PROVE  CInv'
<1>1. UNCHANGED db /\ LeavesOthers(b)
  BY DEF Write, LeavesOthers, IInv, TypeOK, WritesDomain
<1>2. /\ pc'[b] = "capturing" /\ writes'[b] = W /\ changing'[b] = changing[b]
      /\ todo'[b] = DOMAIN W /\ projected'[b] = {} /\ appended'[b] = {}
  BY DEF Write, IInv, TypeOK, WritesDomain, FreshStart
<1>3. ~Changes(b) /\ ~Changes(b)' /\ Said(b)' = {}
  BY <1>2 DEF CInv, Own, Stage, Changes, Said
<1>4. Own(b)'
  BY <1>1, <1>2, <1>3
  DEF Own, Stage, Writing, Captured, OnlyWritten, Scanned, Announced, db
<1>5. RowsExclusive'
  BY <1>1, <1>2, <1>3 DEF CInv, RowsExclusive, LeavesOthers, Changes, Locked
<1>6. MembersLockUser'
  <2> SUFFICES ASSUME NEW c \in Backends, NEW d \in Backends, Changes(c)',
                      NEW r \in MemberRows, r[2] = changing'[c].user
               PROVE  ~Inserting(d, r)'
    BY DEF MembersLockUser
  <2>1. c # b /\ Changes(c) /\ changing'[c] = changing[c]
    BY <1>1, <1>3 DEF LeavesOthers, Changes
  <2>2. CASE d = b
    <3>1. EmailLocked(r[2])
      BY <2>1 DEF EmailLocked
    <3> QED
      BY <1>1, <1>2, <2>2, <3>1 DEF Inserting, db
  <2>3. CASE d # b
    BY <1>1, <2>1, <2>3 DEF CInv, MembersLockUser, LeavesOthers, Inserting, db
  <2> QED
    BY <2>2, <2>3
<1> QED
  BY <1>1, <1>4, <1>5, <1>6, InsideStep

LEMMA ChangeEmailCInv ==
    ASSUME IInv, CInv, NEW b \in Backends, NEW u \in Users, NEW e \in Emails,
           ChangeEmail(b, u, e)
    PROVE  CInv'
<1>1. UNCHANGED <<db, writes>> /\ LeavesOthers(b)
  BY DEF ChangeEmail, LeavesOthers, IInv, TypeOK
<1>2. /\ pc'[b] = "scanning" /\ DOMAIN writes'[b] = {} /\ todo'[b] = {}
      /\ projected'[b] = {} /\ appended'[b] = {}
  BY DEF ChangeEmail, IInv, TypeOK, FreshStart, CInv, Own, Stage
<1>3. changing'[b].user = u /\ changing'[b].email = e /\ u # NoUser /\ Said(b)' = {}
  BY <1>2, NobodyAssumption DEF ChangeEmail, IInv, TypeOK, Said
<1>4. Own(b)'
  BY <1>1, <1>2, <1>3
  DEF Own, Stage, Writing, Captured, OnlyWritten, Scanned, Announced, Changes, ChangeEmail, db
<1>5. RowsExclusive'
  BY <1>1, <1>3 DEF CInv, RowsExclusive, LeavesOthers, Changes, ChangeEmail, EmailLocked
<1>6. MembersLockUser'
  <2> SUFFICES ASSUME NEW c \in Backends, NEW d \in Backends, Changes(c)',
                      NEW r \in MemberRows, r[2] = changing'[c].user
               PROVE  ~Inserting(d, r)'
    BY DEF MembersLockUser
  <2>1. CASE c = b
    <3>1. ~Inserting(d, r)
      BY <1>3, <2>1 DEF ChangeEmail
    <3> QED
      BY <1>1, <3>1 DEF Inserting, db
  <2>2. CASE c # b
    BY <1>1, <2>2 DEF CInv, MembersLockUser, LeavesOthers, Changes, Inserting, db
  <2> QED
    BY <2>1, <2>2
<1> QED
  BY <1>1, <1>4, <1>5, <1>6, InsideStep

LEMMA ProjectCInv ==
    ASSUME IInv, CInv, NEW b \in Backends, NEW r \in Rows, Project(b, r)
    PROVE  CInv'
<1> DEFINE p == [row |-> r, value |-> writes[b][r], email |-> MailOf(KeyOf(r))]
<1>1. UNCHANGED <<db, writes, changing>> /\ LeavesOthers(b)
  BY DEF Project, LeavesOthers, IInv, TypeOK
<1>2. /\ projected'[b] = {p} /\ appended'[b] = appended[b]
      /\ todo'[b] = todo[b] \ {r} /\ pc'[b] = "locking"
  BY DEF Project, IInv, TypeOK
<1>3. /\ Told(p).key = KeyOf(r) /\ Told(p).value = writes[b][r]
      /\ Told(p).email = MailOf(KeyOf(r))
  BY ToldSays
<1> HIDE DEF p
<1>4. /\ ~Changes(b) /\ projected[b] = {} /\ r \in DOMAIN writes[b]
      /\ Writing(b) /\ Captured(b) /\ OnlyWritten(b)
  BY DEF Project, CInv, Own, Stage, IInv, TypeOK
<1>5. Said(b)' = Said(b) \cup {Told(p)}
  BY <1>2, <1>4 DEF Said
<1>6. Captured(b)'
  <2> SUFFICES ASSUME NEW s \in DOMAIN writes[b]
               PROVE  \/ s \in todo'[b]
                      \/ \E q \in Said(b)' : /\ q.key = KeyOf(s) /\ q.value = writes[b][s]
                                             /\ rows[s] = Gone => q.email = MailOf(KeyOf(s))
    BY <1>1 DEF Captured, MailOf, db
  <2>1. CASE s = r
    BY <1>3, <1>5, <2>1
  <2>2. CASE s # r
    BY <1>2, <1>4, <1>5, <2>2 DEF Captured
  <2> QED
    BY <2>1, <2>2
<1>7. OnlyWritten(b)'
  BY <1>1, <1>3, <1>4, <1>5 DEF OnlyWritten, Changes
<1>8. Stage(b)' /\ Writing(b)' /\ Scanned(b)' /\ Announced(b)'
  BY <1>1, <1>2, <1>4 DEF CInv, Own, Stage, Writing, Scanned, Announced, Changes, db
<1> QED
  BY <1>1, <1>6, <1>7, <1>8, LocksKept, InsideStep DEF Own, db

LEMMA ScanCInv ==
    ASSUME IInv, CInv, NEW b \in Backends, Scan(b)
    PROVE  CInv'
<1> DEFINE found == {r \in MemberRows : r[2] = changing[b].user /\ rows[r] # Gone}
           ps == {[row |-> r, value |-> rows[r], email |-> changing[b].email] : r \in found}
<1>1. UNCHANGED <<db, writes, changing, todo>> /\ LeavesOthers(b)
  BY DEF Scan, LeavesOthers, IInv, TypeOK
<1>2. /\ projected'[b] = ps /\ appended'[b] = {}
      /\ pc'[b] = "locking" \/ (pc'[b] = "committing" /\ found = {})
  BY DEF Scan, IInv, TypeOK, FreshStart
<1>3. Said(b)' = {Told(p) : p \in ps}
  BY <1>2 DEF Said
<1>4. /\ Changes(b) /\ DOMAIN writes[b] = {} /\ todo[b] = {}
      /\ changing[b].email # email[changing[b].user]
  BY DEF Scan, CInv, Own, Stage, Announced
<1>5. \A p \in ps : p.row \in found /\ p.email = changing[b].email
  OBVIOUS
<1>6. \A r \in found : \E p \in ps : p.row = r /\ p.email = changing[b].email
  <2> TAKE r \in found
  <2> WITNESS [row |-> r, value |-> rows[r], email |-> changing[b].email] \in ps
  <2> QED
    OBVIOUS
<1>7. \A r \in found : \E f \in outbox : f.key = KeyOf(r) /\ f.email # changing[b].email
  BY <1>4 DEF CInv, EmailReachesMembers
<1>8. found = {} => ps = {}
  OBVIOUS
<1>9. \A r \in MemberRows : r[2] = changing[b].user /\ rows[r] # Gone => r \in found
  OBVIOUS
<1> HIDE DEF ps, found
<1>10. Stage(b)' /\ Writing(b)' /\ Captured(b)' /\ OnlyWritten(b)'
  BY <1>1, <1>2, <1>4, <1>8 DEF Stage, Writing, Captured, OnlyWritten, Changes
<1>11. Scanned(b)'
  <2>1. \A r \in found : \E e \in Said(b)' : e.key = KeyOf(r) /\ e.email = changing[b].email
    BY <1>3, <1>6, ToldSays
  <2> QED
    BY <1>1, <1>9, <2>1 DEF Scanned, db
<1>12. Announced(b)'
  <2>1. \A e \in Said(b)' : e.email = changing[b].email /\ \E r \in found : e.key = KeyOf(r)
    BY <1>3, <1>5, ToldSays
  <2> QED
    BY <1>1, <1>4, <1>7, <2>1 DEF Announced, db
<1> QED
  BY <1>1, <1>10, <1>11, <1>12, LocksKept, InsideStep DEF Own, db

LEMMA AppendCInv ==
    ASSUME IInv, CInv, NEW b \in Backends, NEW p \in projected[b], NEW now \in 1..MaxTime,
           Append(b, p, now)
    PROVE  CInv'
<1> DEFINE e == Event(KeyOf(p.row), Ticked(b, KeyOf(p.row), now), p.value, p.email, FALSE)
<1>1. UNCHANGED <<db, writes, changing, todo>> /\ LeavesOthers(b)
  BY DEF Append, LeavesOthers, IInv, TypeOK
<1>2. /\ projected'[b] = projected[b] \ {p} /\ appended'[b] = appended[b] \cup {e}
      /\ pc'[b] = IF projected[b] # {p} THEN "locking"
                  ELSE IF todo[b] # {} THEN "capturing" ELSE "committing"
  BY DEF Append, IInv, TypeOK
<1>3. e.key = Told(p).key /\ e.value = Told(p).value /\ e.email = Told(p).email
  BY ToldSays DEF Event
<1> HIDE DEF e
<1>4. ASSUME NEW q \in Said(b)'
      PROVE  \E r \in Said(b) : q.key = r.key /\ q.value = r.value /\ q.email = r.email
  <2>1. q = e \/ q \in Said(b)
    BY <1>2 DEF Said
  <2>2. Told(p) \in Said(b)
    BY DEF Said
  <2> QED
    BY <1>3, <2>1, <2>2
<1>5. ASSUME NEW r \in Said(b)
      PROVE  \E q \in Said(b)' : q.key = r.key /\ q.value = r.value /\ q.email = r.email
  <2>1. r = Told(p) \/ r \in Said(b)'
    BY <1>2 DEF Said
  <2>2. e \in Said(b)'
    BY <1>2 DEF Said
  <2> QED
    BY <1>3, <2>1, <2>2
<1>6. Own(b) /\ pc[b] = "locking"
  BY DEF CInv, Append
<1>7. Stage(b)' /\ Writing(b)'
  BY <1>1, <1>2, <1>6 DEF Own, Stage, Writing, Changes, db
<1>8. Captured(b)'
  BY <1>1, <1>5, <1>6 DEF Own, Captured, MailOf, db
<1>9. OnlyWritten(b)'
  BY <1>1, <1>4, <1>6 DEF Own, OnlyWritten, Changes
<1>10. Scanned(b)'
  BY <1>1, <1>5, <1>6 DEF Own, Scanned, Changes, db
<1>11. Announced(b)'
  BY <1>1, <1>4, <1>6 DEF Own, Announced, Changes, db
<1> QED
  BY <1>1, <1>7, <1>8, <1>9, <1>10, <1>11, LocksKept, InsideStep DEF Own, db

-----------------------------------------------------------------------------
\* What a commit does to the tables.
LEMMA CommitTables ==
    ASSUME IInv, CInv, NEW b \in Backends, Commit(b)
    PROVE  /\ \A r \in Rows : rows'[r] = IF r \in DOMAIN writes[b] THEN writes[b][r] ELSE rows[r]
           /\ \A u \in Users : changing[b].user # u => email'[u] = email[u]
           /\ \A u \in Users : changing[b].user = u => email'[u] = changing[b].email
           /\ outbox' = outbox \cup appended[b] /\ doubled' = doubled \cup Twice(rows')
           /\ Said(b) = appended[b]
           /\ \A r \in DOMAIN writes[b] : \E e \in appended[b] :
                /\ e.key = KeyOf(r) /\ e.value = writes[b][r]
                /\ rows[r] = Gone => e.email = MailOf(KeyOf(r))
<1>1. Said(b) = appended[b] /\ todo[b] = {} /\ Captured(b)
  BY DEF CInv, Own, Stage, Said, Commit
<1> QED
  BY <1>1 DEF Commit, Captured

\* Nothing an open transaction has said is overtaken by another's commit.
LEMMA CommitOthers ==
    ASSUME IInv, CInv, NEW b \in Backends, Commit(b), NEW c \in Backends, c # b
    PROVE  Own(c)'
<1> USE CommitTables
<1>1. /\ pc'[c] = pc[c] /\ writes'[c] = writes[c] /\ changing'[c] = changing[c]
      /\ todo'[c] = todo[c] /\ projected'[c] = projected[c] /\ appended'[c] = appended[c]
      /\ Said(c)' = Said(c)
  BY EndOwn DEF Commit, LeavesOthers, Said
<1>2. Own(c) /\ DOMAIN writes[c] \subseteq Rows /\ DOMAIN writes[c] \cap DOMAIN writes[b] = {}
  BY DEF CInv, RowsExclusive, IInv, TypeOK
<1>3. \A r \in DOMAIN writes[c] : rows'[r] = rows[r]
  BY <1>2
<1>4. ASSUME NEW r \in DOMAIN writes[c], rows[r] = Gone
      PROVE  MailOf(KeyOf(r))' = MailOf(KeyOf(r))
  <2>1. CASE r \in MemberRows
    <3>1. KeyOf(r) \in MemberKeys /\ KeyOf(r)[2] = r[2] /\ r[2] \in Users
      BY <2>1, MemberShape
    <3>2. Inserting(c, r)
      BY <1>4 DEF Inserting
    <3>3. changing[b].user # r[2]
      BY <2>1, <3>1, <3>2, NobodyAssumption DEF CInv, MembersLockUser, Changes
    <3> QED
      BY <3>1, <3>3 DEF MailOf
  <2>2. CASE r \in OrgRows
    BY <2>2, OrgShape DEF MailOf
  <2> QED
    BY <1>2, <2>1, <2>2 DEF Rows
<1>5. Captured(c)' /\ Writing(c)'
  BY <1>1, <1>2, <1>3, <1>4 DEF Own, Captured, Writing
<1>6. Scanned(c)'
  <2> SUFFICES ASSUME Changes(c), pc[c] # "scanning", NEW r \in MemberRows,
                      r[2] = changing[c].user, rows'[r] # Gone
               PROVE  \E p \in Said(c) : p.key = KeyOf(r) /\ p.email = changing[c].email
    BY <1>1 DEF Scanned, Changes
  <2>1. rows[r] # Gone
    <3>1. ~Inserting(b, r) /\ r \in Rows
      BY DEF CInv, MembersLockUser, Rows
    <3> QED
      BY <3>1 DEF Inserting
  <2> QED
    BY <1>2, <2>1 DEF Own, Scanned
<1>7. Announced(c)'
  <2> SUFFICES ASSUME Changes(c)
               PROVE  /\ changing[c].email # email'[changing[c].user]
                      /\ \A p \in Said(c) :
                           /\ p.email = changing[c].email
                           /\ \E f \in outbox' : f.key = p.key /\ f.email # p.email
    BY <1>1 DEF Announced, Changes
  <2>1. changing[c].user \in Users /\ changing[b].user # changing[c].user
    BY DEF Changes, CInv, RowsExclusive, IInv, TypeOK, NoChange
  <2> QED
    BY <1>2, <2>1 DEF Own, Announced
<1>8. Stage(c)' /\ OnlyWritten(c)'
  BY <1>1, <1>2 DEF Own, Stage, OnlyWritten, Changes
<1> QED
  BY <1>5, <1>6, <1>7, <1>8 DEF Own

\* A committed email change has announced itself to every membership there is, a
\* committed membership has been announced with the email its user has.
LEMMA CommitReaches ==
    ASSUME IInv, CInv, NEW b \in Backends, Commit(b)
    PROVE  EmailReachesMembers'
<1> SUFFICES ASSUME NEW r \in MemberRows, rows'[r] # Gone
             PROVE  \E e \in outbox' : e.key = KeyOf(r) /\ e.email = email'[r[2]]
  BY DEF EmailReachesMembers
<1>1. r \in Rows /\ r[2] \in Users /\ MailOf(KeyOf(r)) = email[r[2]]
  BY MemberShape DEF MailOf
<1>2. CASE changing[b].user = r[2]
  <2>1. Changes(b) /\ DOMAIN writes[b] = {} /\ Scanned(b) /\ pc[b] = "committing"
    BY <1>1, <1>2, NobodyAssumption DEF Changes, CInv, Own, Stage, Commit
  <2>2. rows[r] # Gone /\ email'[r[2]] = changing[b].email
    BY <1>1, <1>2, <2>1, CommitTables
  <2> QED
    BY <1>2, <2>1, <2>2, CommitTables DEF Scanned
<1>3. CASE changing[b].user # r[2]
  <2>1. email'[r[2]] = email[r[2]] /\ outbox' = outbox \cup appended[b]
    BY <1>1, <1>3, CommitTables
  <2>2. CASE rows[r] # Gone
    BY <2>1, <2>2 DEF CInv, EmailReachesMembers
  <2>3. CASE rows[r] = Gone
    <3>1. r \in DOMAIN writes[b]
      BY <1>1, <2>3, CommitTables
    <3>2. \E e \in appended[b] : e.key = KeyOf(r) /\ e.email = MailOf(KeyOf(r))
      BY <2>3, <3>1, CommitTables
    <3> QED
      BY <1>1, <2>1, <3>2
  <2> QED
    BY <2>2, <2>3
<1> QED
  BY <1>2, <1>3

\* The latest of what a transaction commits about an aggregate is the latest
\* there is, and the transaction has said one value only.
LEMMA CommitSpeaks ==
    ASSUME IInv, CInv, NEW b \in Backends, Commit(b), NEW k \in Keys,
           NEW d \in appended[b], d.key = k
    PROVE  Latest(k)' # {} /\ Latest(k)' \subseteq appended[b]
<1>1. outbox' = outbox \cup appended[b]
  BY CommitTables
<1>2. \A f \in outbox' : f.at \in Nat
  BY <1>1, TimeAssumption DEF IInv, TypeOK, Events
<1>3. \A f \in outbox : f.key = k => f.at <= clock[k]
  BY DEF IInv, OutboxBelowClock
<1>4. \A f \in appended[b] : f.key = k => clock[k] < f.at /\ f.at <= clocked[b][k]
  BY DEF IInv, AppendedAhead
<1>5. clock[k] \in Nat /\ clocked[b][k] \in Nat
  BY TimeAssumption DEF IInv, TypeOK
<1>6. clocked[b][k] # 0
  BY <1>1, <1>2, <1>4, <1>5
<1>7. PICK e \in appended[b] : e.key = k /\ e.at = clocked[b][k]
  BY <1>6 DEF IInv, ClockedTold
<1>8. \A f \in outbox' : f.key = k => f.at <= e.at
  <2> TAKE f \in outbox'
  <2> HAVE f.key = k
  <2>1. CASE f \in appended[b]
    BY <1>4, <1>7, <2>1
  <2>2. CASE f \in outbox
    BY <1>2, <1>3, <1>4, <1>5, <1>7, <2>2
  <2> QED
    BY <1>1, <2>1, <2>2
<1>9. e \in Latest(k)'
  BY <1>1, <1>7, <1>8 DEF Latest
<1>10. ASSUME NEW f \in Latest(k)' PROVE f \in appended[b]
  <2>1. f \in outbox' /\ f.key = k /\ e.at <= f.at
    BY <1>1, <1>7 DEF Latest
  <2>2. CASE f \in outbox
    BY <1>2, <1>3, <1>4, <1>5, <1>7, <2>1, <2>2
  <2> QED
    BY <1>1, <2>1, <2>2
<1> QED
  BY <1>9, <1>10

\* A removed row of an aggregate that keeps another was one of two.
LEMMA RemovedOfTwo ==
    ASSUME IInv, CInv, NEW b \in Backends, Commit(b), NEW r \in DOMAIN writes[b],
           writes[b][r] = Gone, Live(KeyOf(r))' # {}
    PROVE  KeyOf(r) \in doubled
<1>1. r \in Rows /\ rows[r] # Gone
  BY DEF IInv, TypeOK, CInv, Own, Writing
<1>2. PICK s \in RowsOf(KeyOf(r)) : rows'[s] # Gone
  BY DEF Live, LiveRows
<1>3. s \in Rows /\ KeyOf(s) = KeyOf(r)
  BY DEF RowsOf
<1>4. s \notin DOMAIN writes[b]
  BY <1>2, <1>3, CommitTables DEF CInv, Own, Writing
<1>5. rows[s] # Gone /\ r # s
  BY <1>2, <1>3, <1>4, CommitTables
<1>6. KeyOf(r) \in MemberKeys
  BY <1>1, <1>3, <1>5, OnlyRow
<1>7. KeyOf(r) \in Twice(rows)
  BY <1>1, <1>3, <1>5, <1>6 DEF Twice, RowsOf
<1> QED
  BY <1>7 DEF CInv, DoublesKnown

LEMMA CommitLatest ==
    ASSUME IInv, CInv, NEW b \in Backends, Commit(b)
    PROVE  LatestTellsValue'
<1> SUFFICES ASSUME NEW k \in Keys, OneEmail(k)' PROVE TellsValue(k)'
  BY DEF LatestTellsValue
<1>1. outbox' = outbox \cup appended[b] /\ doubled \subseteq doubled' /\ Said(b) = appended[b]
  BY CommitTables
<1>2. CASE \E d \in appended[b] : d.key = k
  <2>1. PICK d \in appended[b] : d.key = k
    BY <1>2
  <2>2. ~Changes(b)
    <3>1. SUFFICES ASSUME Changes(b) PROVE FALSE
      OBVIOUS
    <3>2. \E f \in outbox : f.key = k /\ f.email # d.email
      BY <1>1, <2>1, <3>1 DEF CInv, Own, Announced
    <3> QED
      BY <1>1, <2>1, <3>2 DEF OneEmail
  <2>3. Latest(k)' # {} /\ Latest(k)' \subseteq appended[b]
    BY <2>1, CommitSpeaks
  <2>4. ASSUME NEW e \in Latest(k)'
        PROVE  \E r \in DOMAIN writes[b] : KeyOf(r) = k /\ e.value = writes[b][r]
    <3>1. e.key = k /\ e \in appended[b]
      BY <2>3 DEF Latest
    <3> QED
      BY <1>1, <2>2, <3>1 DEF CInv, Own, OnlyWritten
  <2>5. ASSUME NEW e \in Latest(k)', e.value # Gone PROVE e.value \in Live(k)'
    <3>1. PICK r \in DOMAIN writes[b] : KeyOf(r) = k /\ e.value = writes[b][r]
      BY <2>4
    <3>2. r \in Rows /\ rows'[r] = e.value
      BY <3>1, CommitTables DEF IInv, TypeOK
    <3>3. r \in LiveRows(k)'
      BY <2>5, <3>1, <3>2 DEF LiveRows, RowsOf
    <3> QED
      BY <3>2, <3>3 DEF Live
  <2>6. ASSUME k \notin doubled', Live(k)' # {}, NEW e \in Latest(k)' PROVE e.value # Gone
    <3>1. PICK r \in DOMAIN writes[b] : KeyOf(r) = k /\ e.value = writes[b][r]
      BY <2>4
    <3> QED
      BY <1>1, <2>6, <3>1, RemovedOfTwo
  <2> QED
    BY <2>3, <2>5, <2>6 DEF TellsValue
<1>3. CASE \A e \in appended[b] : e.key # k
  <2>1. \A r \in RowsOf(k) : r \in Rows /\ r \notin DOMAIN writes[b]
    BY <1>3, CommitTables DEF RowsOf
  <2>2. \A r \in RowsOf(k) : rows'[r] = rows[r]
    BY <2>1, CommitTables
  <2>3. Live(k)' = Live(k)
    BY <2>2 DEF Live, LiveRows
  <2>4. Latest(k)' = Latest(k)
    BY <1>1, <1>3 DEF Latest
  <2>5. TellsValue(k)
    BY <1>1 DEF OneEmail, CInv, LatestTellsValue
  <2> QED
    BY <1>1, <2>3, <2>4, <2>5 DEF TellsValue
<1> QED
  BY <1>2, <1>3

LEMMA CommitCInv ==
    ASSUME IInv, CInv, NEW b \in Backends, Commit(b)
    PROVE  CInv'
<1>1. LeavesOthers(b) /\ Own(b)' /\ DOMAIN writes'[b] = {} /\ ~Changes(b)'
  BY EndOwn DEF Commit
<1>2. \A c \in Backends : Own(c)'
  BY <1>1, CommitOthers
<1>3. ASSUME NEW c \in Backends \ {b}, NEW r \in MemberRows, Inserting(c, r)'
      PROVE  Inserting(c, r)
  <2>1. r \in DOMAIN writes[c] /\ r \notin DOMAIN writes[b] /\ r \in Rows
    BY <1>1, <1>3 DEF Inserting, LeavesOthers, CInv, RowsExclusive, Rows
  <2> QED
    BY <1>3, <2>1, CommitTables DEF Inserting
<1>4. RowsExclusive' /\ MembersLockUser'
  BY <1>1, <1>3, EndLocks
<1>5. DoublesKnown'
  BY CommitTables DEF DoublesKnown, Twice
<1> QED
  BY <1>2, <1>4, <1>5, CommitReaches, CommitLatest DEF CInv

\* The migration describes what it finds, after everything said of it before.
LEMMA BackfillCInv ==
    ASSUME IInv, CInv, Backfill
    PROVE  CInv'
<1>1. UNCHANGED <<rows, email, doubled, tx>> /\ outbox \subseteq outbox'
  BY BackfillSays
<1>2. ASSUME NEW b \in Backends PROVE Own(b)'
  BY <1>1
  DEF CInv, Own, Stage, Writing, Captured, OnlyWritten, Scanned, Announced, Said, Changes,
      MailOf, tx
<1>3. RowsExclusive' /\ MembersLockUser' /\ DoublesKnown'
  BY <1>1 DEF CInv, RowsExclusive, MembersLockUser, DoublesKnown, Twice, Changes, Inserting, tx
<1>4. EmailReachesMembers'
  BY <1>1 DEF CInv, EmailReachesMembers
<1>5. LatestTellsValue'
  <2> SUFFICES ASSUME NEW k \in Keys, OneEmail(k)' PROVE TellsValue(k)'
    BY DEF LatestTellsValue
  <2>1. Live(k)' = Live(k)
    BY <1>1 DEF Live, LiveRows
  <2>2. CASE \E e \in outbox' \ outbox : e.key = k
    <3>1. PICK e \in outbox' \ outbox : e.key = k
      BY <2>2
    <3>2. e.value \in Live(k) /\ e.at = clock[k] + 1 /\ clock[k] \in Nat
      BY <3>1, BackfillSays, TimeAssumption DEF IInv, TypeOK
    <3>3. \A f \in outbox' : f.key = k => f = e \/ (f.at \in Nat /\ f.at < e.at)
      <4> SUFFICES ASSUME NEW f \in outbox', f.key = k, f # e
                   PROVE  f.at \in Nat /\ f.at < e.at
        OBVIOUS
      <4>1. f \in outbox
        BY <3>1, BackfillSays
      <4>2. f.at \in Nat /\ f.at <= clock[k]
        BY <4>1, TimeAssumption DEF IInv, TypeOK, Events, OutboxBelowClock
      <4> QED
        BY <3>2, <4>2
    <3>4. Latest(k)' = {e}
      BY <3>1, <3>2, <3>3 DEF Latest
    <3>5. e.value # Gone
      BY <3>2 DEF Live, LiveRows
    <3> QED
      BY <2>1, <3>2, <3>4, <3>5 DEF TellsValue
  <2>3. CASE \A e \in outbox' : e.key = k => e \in outbox
    <3>1. Latest(k)' = Latest(k) /\ OneEmail(k)
      BY <1>1, <2>3 DEF Latest, OneEmail
    <3> QED
      BY <1>1, <2>1, <3>1 DEF CInv, LatestTellsValue, TellsValue
  <2> QED
    BY <2>2, <2>3
<1> QED
  BY <1>2, <1>3, <1>4, <1>5 DEF CInv

LEMMA InitCInv == Init => CInv
<1> SUFFICES ASSUME Init PROVE CInv
  OBVIOUS
<1> DEFINE K == {k \in Keys : Live(k) # {}}
           zero == [k \in Keys |-> 0]
<1>1. \A b \in Backends : /\ pc[b] = "idle" /\ DOMAIN writes[b] = {} /\ ~Changes(b)
                          /\ todo[b] = {} /\ Said(b) = {} /\ projected[b] = {}
  BY DEF Init, NoWrites, NoChange, Changes, Said
<1>2. \A b \in Backends : Own(b)
  BY <1>1 DEF Own, Stage, Writing, Captured, OnlyWritten, Scanned, Announced
<1>3. RowsExclusive /\ MembersLockUser /\ DoublesKnown
  BY <1>1 DEF RowsExclusive, MembersLockUser, DoublesKnown, Init
<1>4. PICK f \in First(K) : outbox = Seeds(f, zero)
  BY DEF Init
<1>5. /\ rows \in [Rows -> Values \cup {Gone}] /\ email \in [Users -> Emails]
      /\ zero \in [Keys -> Nat] /\ \A k \in K : zero[k] = 0 /\ zero[k] + 1 <= MaxTime
      /\ K \in SUBSET {k \in Keys : Live(k) # {}}
  BY TimeAssumption DEF Init
<1>6. \A r \in Rows : rows[r] # Gone => KeyOf(r) \in K
  <2> SUFFICES ASSUME NEW r \in Rows, rows[r] # Gone PROVE KeyOf(r) \in K
    OBVIOUS
  <2>1. r \in LiveRows(KeyOf(r)) /\ KeyOf(r) \in Keys
    BY KeyTyped DEF LiveRows, RowsOf
  <2> QED
    BY <2>1 DEF Live
<1>7. \A k \in Keys : Live(k) # {} <=> k \in K
  OBVIOUS
<1> HIDE DEF K, zero
<1>8. \A e \in outbox : e.key \in K /\ e.at = 1 /\ e.value \in Live(e.key)
  <2> TAKE e \in outbox
  <2>1. e \in Seeds(f, zero)
    BY <1>4
  <2>2. e.key \in K /\ e.at = zero[e.key] + 1 /\ e.value \in Live(e.key)
    BY <1>5, <2>1, SeedsTyped
  <2> QED
    BY <1>5, <2>2
<1>9. \A k \in K : \E e \in outbox : e.key = k /\ e.email = MailOf(k)
  BY <1>4, SeedsAll
<1>10. EmailReachesMembers
  <2> SUFFICES ASSUME NEW r \in MemberRows, rows[r] # Gone
               PROVE  \E e \in outbox : e.key = KeyOf(r) /\ e.email = email[r[2]]
    BY DEF EmailReachesMembers
  <2> QED
    BY <1>6, <1>9, MemberShape DEF MailOf
<1>11. LatestTellsValue
  <2> SUFFICES ASSUME NEW k \in Keys PROVE TellsValue(k)
    BY DEF LatestTellsValue
  <2>1. \A e \in Latest(k) : e.value \in Live(k) /\ e.value # Gone
    BY <1>8 DEF Latest, Live, LiveRows
  <2>2. ASSUME Live(k) # {} PROVE Latest(k) # {}
    <3>1. PICK e \in outbox : e.key = k
      BY <1>7, <1>9, <2>2
    <3>2. e \in Latest(k)
      BY <1>8, <3>1 DEF Latest
    <3> QED
      BY <3>2
  <2> QED
    BY <2>1, <2>2 DEF TellsValue
<1> QED
  BY <1>2, <1>3, <1>10, <1>11 DEF CInv

LEMMA NextCInv ==
    ASSUME IInv, CInv, [Next]_vars
    PROVE  CInv'
<1>1. ASSUME NEW b \in Backends, NEW r \in Rows, NEW v \in Values, Save(b, r, v)
      PROVE  CInv'
  <2> DEFINE W == [s \in {r} |-> v]
  <2>1. pc[b] = "idle" /\ Write(b, W)
    BY <1>1 DEF Save
  <2>2. \A s \in DOMAIN W : ~Locked(s) /\ W[s] # Gone
    BY <1>1, GoneAssumption DEF Save
  <2>3. \A s \in DOMAIN W : rows[s] = Gone /\ s \in MemberRows => ~EmailLocked(s[2])
    BY <1>1 DEF Save, Referenced
  <2>4. \A s, t \in DOMAIN W : W[s] = W[t]
    OBVIOUS
  <2> HIDE DEF W
  <2> QED
    BY <2>1, <2>2, <2>3, <2>4, WriteCInv
<1>2. ASSUME NEW b \in Backends, NEW r \in Rows, Delete(b, r)
      PROVE  CInv'
  <2> DEFINE W == [s \in Cascade(r) |-> Gone]
  <2>1. pc[b] = "idle" /\ Write(b, W)
    BY <1>2 DEF Delete
  <2>2. \A s \in DOMAIN W : ~Locked(s) /\ rows[s] # Gone
    BY <1>2 DEF Delete, Cascade
  <2>3. \A s, t \in DOMAIN W : W[s] = W[t]
    OBVIOUS
  <2> HIDE DEF W
  <2> QED
    BY <2>1, <2>2, <2>3, WriteCInv
<1>3. ASSUME NEW b \in Backends, NEW u \in Users, NEW e \in Emails, ChangeEmail(b, u, e)
      PROVE  CInv'
  BY <1>3, ChangeEmailCInv
<1>4. ASSUME NEW b \in Backends, NEW r \in Rows, Project(b, r) PROVE CInv'
  BY <1>4, ProjectCInv
<1>5. ASSUME NEW b \in Backends, Scan(b) PROVE CInv'
  BY <1>5, ScanCInv
<1>6. ASSUME NEW b \in Backends, NEW p \in projected[b], NEW now \in 1..MaxTime,
             Append(b, p, now)
      PROVE  CInv'
  BY <1>6, AppendCInv
<1>7. ASSUME NEW b \in Backends, Commit(b) PROVE CInv'
  BY <1>7, CommitCInv
<1>8. ASSUME NEW b \in Backends, Abort(b) PROVE CInv'
  <2>1. /\ UNCHANGED db /\ LeavesOthers(b) /\ Own(b)'
        /\ DOMAIN writes'[b] = {} /\ ~Changes(b)'
    BY <1>8, EndOwn DEF Abort
  <2>2. \A c \in Backends \ {b} : \A r \in MemberRows : Inserting(c, r)' => Inserting(c, r)
    BY <2>1 DEF Inserting, LeavesOthers, db
  <2> QED
    BY <2>1, <2>2, EndLocks, InsideStep DEF db
<1>9. CASE Backfill
  BY <1>9, BackfillCInv
<1>10. CASE UNCHANGED vars
  <2>1. UNCHANGED <<db, tx>>
    BY <1>10 DEF vars
  <2>2. ASSUME NEW b \in Backends PROVE Own(b)'
    BY <2>1
    DEF db, tx, CInv, Own, Stage, Writing, Captured, OnlyWritten, Scanned, Announced, Said,
        Changes, MailOf
  <2>3. RowsExclusive' /\ MembersLockUser' /\ DoublesKnown'
    BY <2>1
    DEF db, tx, CInv, RowsExclusive, MembersLockUser, Changes, Inserting, DoublesKnown, Twice
  <2>4. EmailReachesMembers'
    BY <2>1 DEF db, CInv, EmailReachesMembers
  <2>5. LatestTellsValue'
    <3> SUFFICES ASSUME NEW k \in Keys, OneEmail(k) PROVE TellsValue(k)'
      BY <2>1 DEF db, LatestTellsValue, OneEmail
    <3>1. Latest(k)' = Latest(k) /\ Live(k)' = Live(k) /\ UNCHANGED doubled
      BY <2>1 DEF db, Latest, Live, LiveRows
    <3> QED
      BY <3>1 DEF CInv, LatestTellsValue, TellsValue
  <2> QED
    BY <2>2, <2>3, <2>4, <2>5 DEF CInv
<1> QED
  BY <1>1, <1>2, <1>3, <1>4, <1>5, <1>6, <1>7, <1>8, <1>9, <1>10 DEF Next

\* However an email change, an insert of a membership and their rollbacks
\* interleave, every membership there is has been announced with the email its
\* user has now.
THEOREM EmailAlwaysReaches == Spec => []EmailReachesMembers
<1>1. IInv /\ [Next]_vars => IInv'
  BY NextInv
<1>2. IInv /\ CInv /\ [Next]_vars => CInv'
  BY NextCInv
<1>3. CInv => EmailReachesMembers
  BY DEF CInv
<1> QED
  BY InitInv, InitCInv, <1>1, <1>2, <1>3, PTL DEF Spec

\* An aggregate only ever announced under its present email.
LEMMA TellsDescribes ==
    ASSUME CInv, NEW k \in Keys, \A e \in outbox : e.key = k => e.email = MailOf(k)
    PROVE  NothingRevived(k) /\ (k \notin doubled => DescribesRow(k))
<1>1. OneEmail(k)
  BY DEF OneEmail
<1>2. TellsValue(k)
  BY <1>1 DEF CInv, LatestTellsValue
<1> QED
  BY <1>2 DEF TellsValue, NothingRevived, DescribesRow, Latest

\* Last write wins at the receiver, as far as the code gets: an aggregate only
\* ever announced under its present email is never revived by its latest event,
\* and one that never had two memberships is described by it.
THEOREM LatestAlwaysDescribes == Spec => []QuietLatestDescribesRow
<1>1. IInv /\ [Next]_vars => IInv'
  BY NextInv
<1>2. IInv /\ CInv /\ [Next]_vars => CInv'
  BY NextCInv
<1>3. CInv => QuietLatestDescribesRow
  BY TellsDescribes DEF QuietLatestDescribesRow
<1> QED
  BY InitInv, InitCInv, <1>1, <1>2, <1>3, PTL DEF Spec

-----------------------------------------------------------------------------
\* While no email changes, everything ever said of an aggregate carries its email.
SameMail ==
    /\ \A e \in outbox : e.email = MailOf(e.key)
    /\ \A b \in Backends : ~Changes(b) => \A p \in Said(b) : p.email = MailOf(p.key)

LEMMA InitSameMail == Init => SameMail
<1> SUFFICES ASSUME Init PROVE SameMail
  OBVIOUS
<1>1. \A b \in Backends : Said(b) = {}
  BY DEF Init, Said
<1> QED
  BY <1>1 DEF Init, Seeds, Event, SameMail

\* Who has said nothing, or changes an email, leaves it to the others.
LEMMA InsideSameMail ==
    ASSUME SameMail, NEW b \in Backends, UNCHANGED db, LeavesOthers(b),
           Changes(b)' \/ \A p \in Said(b)' : p.email = MailOf(p.key)
    PROVE  SameMail'
<1>1. \A k : MailOf(k)' = MailOf(k)
  BY DEF MailOf, db
<1> QED
  BY <1>1 DEF SameMail, LeavesOthers, Changes, Said, db

LEMMA NextSameMail ==
    ASSUME IInv, CInv, SameMail, [Next]_vars, email' = email
    PROVE  SameMail'
<1>0. \A k : MailOf(k)' = MailOf(k)
  BY DEF MailOf
<1>1. ASSUME NEW b \in Backends, NEW r \in Rows,
             Delete(b, r) \/ \E v \in Values : Save(b, r, v)
      PROVE  SameMail'
  <2>1. PICK W : Write(b, W) /\ pc[b] = "idle"
    BY <1>1 DEF Save, Delete
  <2>2. UNCHANGED db /\ LeavesOthers(b) /\ Said(b)' = {}
    BY <2>1 DEF Write, LeavesOthers, Said, IInv, TypeOK, WritesDomain, FreshStart
  <2> QED
    BY <2>2, InsideSameMail
<1>2. ASSUME NEW b \in Backends, NEW u \in Users, NEW e \in Emails, ChangeEmail(b, u, e)
      PROVE  SameMail'
  <2>1. UNCHANGED db /\ LeavesOthers(b) /\ changing'[b].user = u /\ u # NoUser
    BY <1>2, NobodyAssumption DEF ChangeEmail, LeavesOthers, IInv, TypeOK
  <2> QED
    BY <2>1, InsideSameMail DEF Changes
<1>3. ASSUME NEW b \in Backends, NEW r \in Rows, Project(b, r) PROVE SameMail'
  <2> DEFINE p == [row |-> r, value |-> writes[b][r], email |-> MailOf(KeyOf(r))]
  <2>1. UNCHANGED <<db, changing>> /\ LeavesOthers(b)
        /\ appended'[b] = appended[b] /\ projected'[b] = {p}
    BY <1>3 DEF Project, LeavesOthers, IInv, TypeOK
  <2>2. Told(p).email = MailOf(Told(p).key)
    BY ToldSays
  <2> HIDE DEF p
  <2>3. ~Changes(b)
    BY <1>3 DEF Project, CInv, Own, Stage
  <2>4. \A q \in Said(b)' : q.email = MailOf(q.key)
    BY <2>1, <2>2, <2>3 DEF SameMail, Said
  <2> QED
    BY <2>1, <2>4, InsideSameMail
<1>4. ASSUME NEW b \in Backends, Scan(b) PROVE SameMail'
  <2>1. UNCHANGED <<db, changing>> /\ LeavesOthers(b) /\ Changes(b)
    BY <1>4 DEF Scan, LeavesOthers, IInv, TypeOK, CInv, Own, Stage
  <2> QED
    BY <2>1, InsideSameMail DEF Changes
<1>5. ASSUME NEW b \in Backends, NEW p \in projected[b], NEW now \in 1..MaxTime,
             Append(b, p, now)
      PROVE  SameMail'
  <2> DEFINE e == Event(KeyOf(p.row), Ticked(b, KeyOf(p.row), now), p.value, p.email, FALSE)
  <2>1. UNCHANGED <<db, changing>> /\ LeavesOthers(b)
    BY <1>5 DEF Append, LeavesOthers, IInv, TypeOK
  <2>2. projected'[b] = projected[b] \ {p} /\ appended'[b] = appended[b] \cup {e}
    BY <1>5 DEF Append, IInv, TypeOK
  <2>3. Told(p) \in Said(b) /\ e.key = Told(p).key /\ e.email = Told(p).email
    BY ToldSays DEF Said, Event
  <2> HIDE DEF e
  <2>4. \A q \in Said(b)' : q = e \/ q \in Said(b)
    BY <2>2 DEF Said
  <2> QED
    BY <2>1, <2>3, <2>4, InsideSameMail DEF SameMail, Changes
<1>6. ASSUME NEW b \in Backends, Commit(b) PROVE SameMail'
  <2>1. ~Changes(b)
    <3> SUFFICES ASSUME Changes(b) PROVE FALSE
      OBVIOUS
    <3>1. changing[b].user \in Users /\ changing[b].email # email[changing[b].user]
      BY DEF Changes, CInv, Own, Announced, IInv, TypeOK, NoChange
    <3> QED
      BY <1>6, <3>1, CommitTables
  <2>2. LeavesOthers(b) /\ Said(b)' = {}
    BY <1>6, EndOwn DEF Commit
  <2>3. outbox' = outbox \cup Said(b)
    BY <1>6, CommitTables
  <2> QED
    BY <1>0, <2>1, <2>2, <2>3 DEF SameMail, LeavesOthers, Changes, Said
<1>7. ASSUME NEW b \in Backends, Abort(b) PROVE SameMail'
  <2>1. UNCHANGED db /\ LeavesOthers(b) /\ Said(b)' = {}
    BY <1>7, EndOwn DEF Abort
  <2> QED
    BY <2>1, InsideSameMail
<1>8. CASE Backfill
  <2>1. \A e \in outbox' : e \in outbox \/ e.email = MailOf(e.key)
    BY <1>8, BackfillSays
  <2> QED
    BY <1>0, <1>8, <2>1 DEF Backfill, SameMail, Changes, Said, tx
<1>9. CASE UNCHANGED vars
  BY <1>0, <1>9 DEF vars, db, tx, SameMail, Changes, Said
<1> QED
  BY <1>1, <1>2, <1>3, <1>4, <1>5, <1>6, <1>7, <1>8, <1>9 DEF Next

\* The race of capture_latest takes a committed change of email: as long as there
\* is none, the latest event revives nothing, open transactions or not, and what
\* it says is wrong of an aggregate that has had two memberships only.
THEOREM LatestDescribesWithoutEmails ==
    Spec /\ [][email' = email]_vars =>
        [](\A k \in Keys : NothingRevived(k) /\ (k \notin doubled => DescribesRow(k)))
<1> DEFINE Described ==
      \A k \in Keys : NothingRevived(k) /\ (k \notin doubled => DescribesRow(k))
<1>1. IInv /\ [Next]_vars => IInv'
  BY NextInv
<1>2. IInv /\ CInv /\ [Next]_vars => CInv'
  BY NextCInv
<1>3. IInv /\ CInv /\ SameMail /\ [Next]_vars /\ [email' = email]_vars => SameMail'
  <2>1. [email' = email]_vars => email' = email
    BY DEF vars, db
  <2> QED
    BY <2>1, NextSameMail
<1>4. CInv /\ SameMail => Described
  BY TellsDescribes DEF SameMail
<1> QED
  BY InitInv, InitCInv, InitSameMail, <1>1, <1>2, <1>3, <1>4, PTL DEF Spec

=============================================================================
