--------------------------- MODULE TokenFamilyProofs ---------------------------
(***************************************************************************)
(* Proofs about TokenFamily, for any codes, requests, rows and faults.     *)
(* Whoever may mint for a code holds the only right to: the code itself,   *)
(* or a request between its atomic step and its insert, or a live token.   *)
(***************************************************************************)
EXTENDS TokenFamily, TLAPS

Handing == {"granting", "storing", "answering"}
Holding == {"checking", "minting", "revoking", "ungranting"}

Minting(q) == pc[q] \in {"issuing", "minting"}

\* Ids are handed out in order, and nobody speaks of an id not yet handed out.
Known ==
    /\ minted \subseteq (0..fresh) \X (1..fresh)
    /\ answers \subseteq (1..fresh) \X (1..fresh)
    /\ killed \subseteq 1..fresh
    /\ \A r \in DOMAIN rows : rows[r].answer \in 0..fresh
    /\ \A q \in Requests :
        /\ job[q].row \in 0..fresh /\ job[q].child \in 0..fresh
        /\ job[q].seen.answer \in 0..fresh /\ job[q].found \subseteq 1..fresh
        /\ pc[q] \in Handing => job[q].child > 0
        /\ pc[q] \in Holding => job[q].row > 0
        /\ pc[q] = "issuing" => job[q].row = 0

Typed == TypeOK /\ Known

\* A request is about the code of its token.
OfCode ==
    \A q \in Requests : job[q].row \in DOMAIN rows => rows[job[q].row].code = job[q].code

\* A code not consumed has no tokens and nobody minting for it.
CodeFirst ==
    \A c \in codes :
        /\ \A r \in DOMAIN rows : rows[r].code # c
        /\ \A q \in Requests : Minting(q) => job[q].code # c

\* Who is minting for a code is alone, and no token of the code is live.
MintingAlone ==
    \A q \in Requests : Minting(q) =>
        /\ \A p \in Requests : Minting(p) /\ job[p].code = job[q].code => p = q
        /\ \A r \in DOMAIN rows : rows[r].code = job[q].code => rows[r].revoked

Rights == OfCode /\ CodeFirst /\ MintingAlone /\ OneLiveToken

\* A token is the parent of none, or of one being minted, or of one.
Parents ==
    /\ \A r \in DOMAIN rows : ~rows[r].revoked =>
        /\ r \notin killed
        /\ \A m \in minted : m[1] # r
        /\ \A q \in Requests : pc[q] \in {"minting", "ungranting"} => job[q].row # r
    /\ \A q \in Requests : pc[q] = "minting" =>
        /\ job[q].row \notin killed
        /\ \A m \in minted : m[1] # job[q].row
        /\ \A p \in Requests : pc[p] \in {"minting", "ungranting"} /\ job[p].row = job[q].row => p = q
    /\ \A q \in Requests : pc[q] = "ungranting" => \A m \in minted : m[1] # job[q].row
    /\ \A a, b \in minted : a[1] = b[1] => a = b \/ a[1] = 0

\* What is answered, stored or about to be, was minted from the token presented.
Answers ==
    /\ answers \subseteq minted
    /\ \A r \in DOMAIN rows : rows[r].answer # 0 => <<r, rows[r].answer>> \in minted
    /\ \A q \in Requests :
        /\ pc[q] = "checking" /\ job[q].seen.answer # 0 =>
               <<job[q].row, job[q].seen.answer>> \in minted
        /\ pc[q] \in Handing => <<job[q].row, job[q].child>> \in minted

\* A token whose access token is still to come is nobody else's business.
Granting ==
    /\ killed \subseteq known
    /\ \A q \in Requests : pc[q] \in {"revoking", "ungranting"} => job[q].row \in known
    /\ \A q \in Requests : pc[q] = "granting" =>
        /\ job[q].child \notin known
        /\ \A r \in DOMAIN rows : rows[r].answer # job[q].child
        /\ \A p \in Requests :
            /\ pc[p] = "checking" => job[p].seen.answer # job[q].child
            /\ pc[p] \in Handing /\ job[p].child = job[q].child => p = q

IInv == Typed /\ Rights /\ Parents /\ Answers /\ Granting
           /\ RevokedMintsNothing /\ RevokedGrantsNothing

-----------------------------------------------------------------------------
LEMMA NoJobTyped ==
    /\ NoJob \in [code : Codes, row : 0..MaxRows, seen : RowType,
                  child : 0..MaxRows, found : SUBSET Ids]
    /\ NoJob.row = 0 /\ NoJob.child = 0 /\ NoJob.seen.answer = 0 /\ NoJob.found = {}
<1> DEFINE c == CHOOSE d \in Codes : TRUE
<1>1. c \in Codes
  BY CodesAssumption
<1>2. NoJob = JobOf(c, 0, NewRow(c))
  BY DEF NoJob
<1>3. NewRow(c) \in RowType /\ NewRow(c).answer = 0
  BY <1>1, BoundsAssumption DEF NewRow, RowType
<1> HIDE DEF c
<1> QED
  BY <1>1, <1>2, <1>3, BoundsAssumption DEF JobOf

\* What the compare-and-swaps and the stored answer do to the tokens.
Same(r) ==
    rows'[r] \in RowType /\ rows'[r].code = rows[r].code /\ rows'[r].answer = rows[r].answer

Swapped(q) ==
    /\ DOMAIN rows' = DOMAIN rows
    /\ \A r \in DOMAIN rows :
        /\ Same(r)
        /\ r = job[q].row => rows'[r].revoked
        /\ r # job[q].row => rows'[r] = rows[r]

LEMMA RotateRows ==
    ASSUME Typed, NEW q \in Requests, Rotate(q)
    PROVE  Swapped(q)
<1>1. CASE Live(job[q].row)
  <2>1. PICK w \in {"open", "none"} : rows' = [rows EXCEPT ![job[q].row].revoked = TRUE,
                                                        ![job[q].row].window = w]
    BY <1>1 DEF Rotate
  <2>2. DOMAIN rows' = DOMAIN rows
    BY <2>1
  <2>3. ASSUME NEW r \in DOMAIN rows, r # job[q].row PROVE rows'[r] = rows[r]
    BY <2>1, <2>3
  <2>4. rows'[job[q].row] = [[rows[job[q].row] EXCEPT !.revoked = TRUE] EXCEPT !.window = w]
    BY <2>1, <1>1 DEF Live
  <2>5. rows[job[q].row] \in RowType
    BY <1>1 DEF Live, Typed, TypeOK
  <2>6. Same(job[q].row) /\ rows'[job[q].row].revoked
    BY <2>4, <2>5 DEF Same, RowType
  <2>7. ASSUME NEW r \in DOMAIN rows, r # job[q].row PROVE Same(r)
    BY <2>3, <2>7 DEF Same, Typed, TypeOK
  <2> QED
    BY <2>2, <2>3, <2>6, <2>7 DEF Swapped
<1>2. CASE ~Live(job[q].row)
  BY <1>2 DEF Rotate, Live, Typed, TypeOK, RowType, Swapped, Same
<1> QED
  BY <1>1, <1>2

LEMMA RevokeRows ==
    ASSUME Typed, NEW q \in Requests, RevokeSwap(q)
    PROVE  Swapped(q)
<1>1. CASE Live(job[q].row)
  <2>1. rows' = [rows EXCEPT ![job[q].row].revoked = TRUE]
    BY <1>1 DEF RevokeSwap
  <2>2. rows[job[q].row] \in RowType
    BY <1>1 DEF Live, Typed, TypeOK
  <2> QED
    BY <2>1, <2>2, <1>1 DEF Live, Swapped, Same, RowType, Typed, TypeOK
<1>2. CASE ~Live(job[q].row)
  BY <1>2 DEF RevokeSwap, Live, Typed, TypeOK, RowType, Swapped, Same
<1> QED
  BY <1>1, <1>2

\* The token presented now has an answer, or all are as they were.
Stored(q) ==
    /\ DOMAIN rows' = DOMAIN rows
    /\ \A r \in DOMAIN rows :
        /\ rows'[r] \in RowType
        /\ rows'[r].code = rows[r].code /\ rows'[r].revoked = rows[r].revoked
        /\ \/ rows'[r].answer = rows[r].answer
           \/ r = job[q].row /\ rows'[r].answer = job[q].child

LEMMA StoreRows ==
    ASSUME Typed, NEW q \in Requests, Store(q)
    PROVE  Stored(q)
BY DEF Store, Typed, TypeOK, RowType, Stored

\* A job whose family is looked up keeps the rest of what it holds.
LEMMA FoundSet ==
    ASSUME NEW C, NEW R, NEW S, NEW I, NEW F \in SUBSET I, NEW j,
           j \in [code : C, row : R, seen : S, child : R, found : SUBSET I],
           NEW k, k = [j EXCEPT !.found = F]
    PROVE  /\ k \in [code : C, row : R, seen : S, child : R, found : SUBSET I]
           /\ k.row = j.row /\ k.child = j.child /\ k.seen = j.seen /\ k.found = F
  OBVIOUS

\* Every step keeps the types and the order of the ids.
LEMMA StepTyped ==
    ASSUME IInv, [Next]_vars
    PROVE  Typed'
<1> USE BoundsAssumption
    DEF IInv, Typed, TypeOK, Known, Ids, RowType, Handing, Holding, tables, history, Go
<1>1. ASSUME NEW q \in Requests, NEW c \in Codes, Redeem(q, c) PROVE Typed'
  BY <1>1 DEF Redeem, Take, JobOf, NewRow, Unused, RowType
<1>2. ASSUME NEW q \in Requests, NEW r \in known, Present(q, r) PROVE Typed'
  BY <1>2 DEF Present, Take, JobOf
<1>3. ASSUME NEW q \in Requests, Refuse(q) PROVE Typed'
  BY <1>3 DEF Refuse
<1>4. ASSUME NEW q \in Requests, Rotate(q) PROVE Typed'
    <2>1. Swapped(q)
      BY <1>4, RotateRows
    <2>2. /\ pc[q] = "checking" /\ UNCHANGED <<codes, access, fresh, known, job, history, faults>>
          /\ \/ Live(job[q].row) /\ Go(q, "minting")
             \/ ~Live(job[q].row) /\ Go(q, "idle")
      BY <1>4 DEF Rotate
    <2>3. /\ DOMAIN rows' \subseteq 1..fresh' /\ access' \subseteq DOMAIN rows'
          /\ \A r \in DOMAIN rows' : rows'[r] \in RowType /\ rows'[r].answer \in 0..fresh'
      BY <2>1, <2>2 DEF Swapped, Same
    <2>4. pc[q] \in Holding /\ job[q].row > 0
      BY <2>2
    <2> QED
      BY <2>2, <2>3, <2>4
<1>5. ASSUME NEW q \in Requests, Replay(q) PROVE Typed'
    <2>1. /\ answers' \subseteq answers \cup {<<job[q].row, job[q].seen.answer>>}
          /\ known' \subseteq known \cup {job[q].seen.answer}
          /\ job[q].seen.answer = 0 => UNCHANGED <<answers, known>>
      BY <1>5 DEF Replay, Cached
    <2>2. job[q].row \in 1..fresh /\ job[q].seen.answer \in 0..fresh /\ fresh \in 0..MaxRows
      BY <1>5 DEF Replay
    <2>3. /\ answers' \subseteq Ids \X Ids /\ answers' \subseteq (1..fresh) \X (1..fresh)
          /\ known' \subseteq 1..fresh
      BY <2>1, <2>2
    <2> QED
      BY <1>5, <2>3 DEF Replay
<1>6. ASSUME NEW q \in Requests, Reused(q) PROVE Typed'
  BY <1>6 DEF Reused, MayBeOpen
<1>7. ASSUME NEW q \in Requests, Mint(q) PROVE Typed'
  BY <1>7 DEF Mint, NewRow
<1>8. ASSUME NEW q \in Requests, Grant(q) PROVE Typed'
  BY <1>8 DEF Grant
<1>9. ASSUME NEW q \in Requests, Store(q) PROVE Typed'
    <2>1. Stored(q)
      BY <1>9, StoreRows
    <2>2. /\ pc[q] = "storing" /\ Go(q, "answering") /\ faults' \in 0..MaxFaults
          /\ UNCHANGED <<codes, access, fresh, known, job, history>>
      BY <1>9 DEF Store, Fault
    <2>3. /\ DOMAIN rows' \subseteq 1..fresh' /\ access' \subseteq DOMAIN rows'
          /\ \A r \in DOMAIN rows' : rows'[r] \in RowType /\ rows'[r].answer \in 0..fresh'
      BY <2>1, <2>2 DEF Stored
    <2> QED
      BY <2>2, <2>3
<1>10. ASSUME NEW q \in Requests, Answer(q) PROVE Typed'
    <2>1. job[q].row \in 0..fresh /\ job[q].child \in 1..fresh /\ fresh \in 0..MaxRows
      BY <1>10 DEF Answer
    <2>2. /\ answers' \subseteq answers \cup {<<job[q].row, job[q].child>>}
          /\ job[q].row = 0 => answers' = answers
          /\ known' \subseteq known \cup {job[q].child}
      BY <1>10 DEF Answer
    <2>3. /\ answers' \subseteq Ids \X Ids /\ answers' \subseteq (1..fresh) \X (1..fresh)
          /\ known' \subseteq 1..fresh
      BY <2>1, <2>2
    <2> QED
      BY <1>10, <2>3 DEF Answer
<1>11. ASSUME NEW q \in Requests, NEW r \in known, Revoke(q, r) PROVE Typed'
  BY <1>11 DEF Revoke, Take, JobOf
<1>12. ASSUME NEW q \in Requests, RevokeSwap(q) PROVE Typed'
    <2>1. Swapped(q)
      BY <1>12, RevokeRows
    <2>2. /\ pc[q] = "revoking" /\ UNCHANGED <<codes, access, fresh, known, job, history, faults>>
          /\ \/ Live(job[q].row) /\ Go(q, "ungranting")
             \/ ~Live(job[q].row) /\ Go(q, "finding")
      BY <1>12 DEF RevokeSwap
    <2>3. /\ DOMAIN rows' \subseteq 1..fresh' /\ access' \subseteq DOMAIN rows'
          /\ \A r \in DOMAIN rows' : rows'[r] \in RowType /\ rows'[r].answer \in 0..fresh'
      BY <2>1, <2>2 DEF Swapped, Same
    <2>4. pc[q] \in Holding /\ job[q].row > 0
      BY <2>2
    <2> QED
      BY <2>2, <2>3, <2>4
<1>13. ASSUME NEW q \in Requests, Ungrant(q) PROVE Typed'
    <2>1. job[q].row \in 1..fresh /\ fresh \in 0..MaxRows
      BY <1>13 DEF Ungrant
    <2>2. killed' = killed \cup {job[q].row}
      BY <1>13 DEF Ungrant
    <2>3. killed \subseteq 1..fresh /\ killed \subseteq Ids
      OBVIOUS
    <2>4. job[q].row \in Ids
      BY <2>1
    <2>5. killed' \subseteq 1..fresh /\ killed' \subseteq Ids
      BY <2>1, <2>2, <2>3, <2>4, Zenon
    <2> QED
      BY <1>13, <2>5 DEF Ungrant
<1>14. ASSUME NEW q \in Requests, FamilyFind(q) PROVE Typed'
    <2>1. DOMAIN rows \in SUBSET Ids /\ DOMAIN rows \subseteq 1..fresh
      OBVIOUS
    <2>2. \A p \in Requests :
            \/ p # q /\ job'[p] = job[p]
            \/ p = q /\ job'[p] = [job[p] EXCEPT !.found = DOMAIN rows]
      BY <1>14 DEF FamilyFind
    <2>3. job' = [p \in Requests |-> job'[p]]
      BY <1>14 DEF FamilyFind
    <2>4. /\ job' \in [Requests -> [code : Codes, row : 0..MaxRows, seen : RowType,
                                  child : 0..MaxRows, found : SUBSET Ids]]
          /\ \A p \in Requests :
                /\ job'[p].row = job[p].row /\ job'[p].child = job[p].child
                /\ job'[p].seen = job[p].seen /\ job'[p].found \subseteq 1..fresh
      <3>1. ASSUME NEW p \in Requests
            PROVE  /\ job'[p] \in [code : Codes, row : 0..MaxRows, seen : RowType,
                                  child : 0..MaxRows, found : SUBSET Ids]
                   /\ job'[p].row = job[p].row /\ job'[p].child = job[p].child
                   /\ job'[p].seen = job[p].seen /\ job'[p].found \subseteq 1..fresh
        <4>1. job[p] \in [code : Codes, row : 0..MaxRows, seen : RowType,
                          child : 0..MaxRows, found : SUBSET Ids]
          OBVIOUS
        <4>2. CASE p # q
          BY <2>2, <4>1, <4>2
        <4>3. CASE p = q
          <5>1. job'[p] = [job[p] EXCEPT !.found = DOMAIN rows]
            BY <2>2, <4>3, Zenon
          <5>2. /\ job'[p] \in [code : Codes, row : 0..MaxRows, seen : RowType,
                                child : 0..MaxRows, found : SUBSET Ids]
                /\ job'[p].row = job[p].row /\ job'[p].child = job[p].child
                /\ job'[p].seen = job[p].seen /\ job'[p].found = DOMAIN rows
            BY <2>1, <4>1, <5>1, FoundSet
          <5> QED
            BY <2>1, <5>2
        <4> QED
          BY <4>2, <4>3
      <3> QED
        BY <2>3, <3>1, Zenon
    <2> QED
      BY <1>14, <2>4 DEF FamilyFind
<1>15. ASSUME NEW q \in Requests, FamilyAccess(q) PROVE Typed'
  BY <1>15 DEF FamilyAccess
<1>16. ASSUME NEW q \in Requests, FamilyRows(q) PROVE Typed'
  BY <1>16 DEF FamilyRows, DeleteRows
<1>17. ASSUME NEW q \in Requests, UnissueAccess(q) PROVE Typed'
  BY <1>17 DEF UnissueAccess, IssuedFor, Fault
<1>18. ASSUME NEW q \in Requests, UnissueRows(q) PROVE Typed'
  BY <1>18 DEF UnissueRows, DeleteRows, IssuedFor, Fault
<1>19. ASSUME NEW q \in Requests, Crash(q) PROVE Typed'
  BY <1>19 DEF Crash, Fault
<1>20. ASSUME NEW r \in known, Close(r) PROVE Typed'
  BY <1>20 DEF Close
<1>21. CASE UNCHANGED vars
  BY <1>21 DEF vars
<1> QED
  BY <1>1, <1>2, <1>3, <1>4, <1>5, <1>6, <1>7, <1>8, <1>9, <1>10, <1>11, <1>12, <1>13, <1>14, <1>15, <1>16, <1>17, <1>18, <1>19, <1>20, <1>21 DEF Next

\* The right to mint for a code moves, and never doubles: a redemption takes the
\* code, a rotation the live token, an insert turns it into a live token again.
LEMMA StepRights ==
    ASSUME IInv, [Next]_vars
    PROVE  Rights'
<1> USE BoundsAssumption
    DEF IInv, Typed, TypeOK, Known, Ids, Holding, Rights, OfCode, CodeFirst, MintingAlone,
        Minting, OneLiveToken, tables, history, Go
<1>1. ASSUME NEW q \in Requests, NEW c \in Codes, Redeem(q, c) PROVE Rights'
  BY <1>1 DEF Redeem, Take, JobOf, NewRow, Unused, RowType
<1>2. ASSUME NEW q \in Requests, NEW r \in known, Present(q, r) PROVE Rights'
  BY <1>2 DEF Present, Take, JobOf
<1>3. ASSUME NEW q \in Requests, Refuse(q) PROVE Rights'
  BY <1>3 DEF Refuse
<1>4. ASSUME NEW q \in Requests, Rotate(q) PROVE Rights'
    <2>1. Swapped(q)
      BY <1>4, RotateRows
    <2>2. /\ pc[q] = "checking" /\ UNCHANGED <<codes, access, fresh, known, job, history, faults>>
          /\ \/ Live(job[q].row) /\ Go(q, "minting")
             \/ ~Live(job[q].row) /\ Go(q, "idle")
      BY <1>4 DEF Rotate
    <2> QED
      BY <2>1, <2>2 DEF Swapped, Same, Live
<1>5. ASSUME NEW q \in Requests, Replay(q) PROVE Rights'
  BY <1>5 DEF Replay, Cached, MayBeOpen
<1>6. ASSUME NEW q \in Requests, Reused(q) PROVE Rights'
  BY <1>6 DEF Reused, MayBeOpen
<1>7. ASSUME NEW q \in Requests, Mint(q) PROVE Rights'
  BY <1>7 DEF Mint, NewRow
<1>8. ASSUME NEW q \in Requests, Grant(q) PROVE Rights'
  BY <1>8 DEF Grant
<1>9. ASSUME NEW q \in Requests, Store(q) PROVE Rights'
    <2>1. Stored(q)
      BY <1>9, StoreRows
    <2>2. /\ pc[q] = "storing" /\ Go(q, "answering") /\ faults' \in 0..MaxFaults
          /\ UNCHANGED <<codes, access, fresh, known, job, history>>
      BY <1>9 DEF Store, Fault
    <2>3. /\ DOMAIN rows' = DOMAIN rows
          /\ \A r \in DOMAIN rows :
                rows'[r].code = rows[r].code /\ rows'[r].revoked = rows[r].revoked
      BY <2>1 DEF Stored
    <2>4. \A p \in Requests : Minting(p)' = Minting(p)
      BY <2>2 DEF Minting
    <2>5. OfCode' /\ CodeFirst'
      BY <2>2, <2>3, <2>4
    <2>6. MintingAlone' /\ OneLiveToken'
      BY <2>2, <2>3, <2>4
    <2> QED
      BY <2>5, <2>6
<1>10. ASSUME NEW q \in Requests, Answer(q) PROVE Rights'
  BY <1>10 DEF Answer
<1>11. ASSUME NEW q \in Requests, NEW r \in known, Revoke(q, r) PROVE Rights'
  BY <1>11 DEF Revoke, Take, JobOf
<1>12. ASSUME NEW q \in Requests, RevokeSwap(q) PROVE Rights'
    <2>1. Swapped(q)
      BY <1>12, RevokeRows
    <2>2. /\ pc[q] = "revoking" /\ UNCHANGED <<codes, access, fresh, known, job, history, faults>>
          /\ \/ Live(job[q].row) /\ Go(q, "ungranting")
             \/ ~Live(job[q].row) /\ Go(q, "finding")
      BY <1>12 DEF RevokeSwap
    <2> QED
      BY <2>1, <2>2 DEF Swapped, Same, Live
<1>13. ASSUME NEW q \in Requests, Ungrant(q) PROVE Rights'
  BY <1>13 DEF Ungrant, MintedWith
<1>14. ASSUME NEW q \in Requests, FamilyFind(q) PROVE Rights'
  BY <1>14 DEF FamilyFind
<1>15. ASSUME NEW q \in Requests, FamilyAccess(q) PROVE Rights'
  BY <1>15 DEF FamilyAccess
<1>16. ASSUME NEW q \in Requests, FamilyRows(q) PROVE Rights'
  BY <1>16 DEF FamilyRows, DeleteRows
<1>17. ASSUME NEW q \in Requests, UnissueAccess(q) PROVE Rights'
  BY <1>17 DEF UnissueAccess, IssuedFor, Fault
<1>18. ASSUME NEW q \in Requests, UnissueRows(q) PROVE Rights'
  BY <1>18 DEF UnissueRows, DeleteRows, IssuedFor, Fault
<1>19. ASSUME NEW q \in Requests, Crash(q) PROVE Rights'
  BY <1>19 DEF Crash, Fault
<1>20. ASSUME NEW r \in known, Close(r) PROVE Rights'
  BY <1>20 DEF Close
<1>21. CASE UNCHANGED vars
  BY <1>21 DEF vars
<1> QED
  BY <1>1, <1>2, <1>3, <1>4, <1>5, <1>6, <1>7, <1>8, <1>9, <1>10, <1>11, <1>12, <1>13, <1>14, <1>15, <1>16, <1>17, <1>18, <1>19, <1>20, <1>21 DEF Next

\* A compare-and-swap that succeeds is the first and the last of its token.
LEMMA StepParents ==
    ASSUME IInv, [Next]_vars
    PROVE  Parents'
<1> USE BoundsAssumption
    DEF IInv, Typed, TypeOK, Known, Ids, Holding, Parents, RevokedMintsNothing, tables, history, Go
<1>1. ASSUME NEW q \in Requests, NEW c \in Codes, Redeem(q, c) PROVE Parents'
  BY <1>1 DEF Redeem, Take, JobOf, NewRow, Unused, RowType
<1>2. ASSUME NEW q \in Requests, NEW r \in known, Present(q, r) PROVE Parents'
  BY <1>2 DEF Present, Take, JobOf
<1>3. ASSUME NEW q \in Requests, Refuse(q) PROVE Parents'
  BY <1>3 DEF Refuse
<1>4. ASSUME NEW q \in Requests, Rotate(q) PROVE Parents'
    <2>1. Swapped(q)
      BY <1>4, RotateRows
    <2>2. /\ pc[q] = "checking" /\ UNCHANGED <<codes, access, fresh, known, job, history, faults>>
          /\ \/ Live(job[q].row) /\ Go(q, "minting")
             \/ ~Live(job[q].row) /\ Go(q, "idle")
      BY <1>4 DEF Rotate
    <2> QED
      BY <2>1, <2>2 DEF Swapped, Same, Live
<1>5. ASSUME NEW q \in Requests, Replay(q) PROVE Parents'
  BY <1>5 DEF Replay, Cached, MayBeOpen
<1>6. ASSUME NEW q \in Requests, Reused(q) PROVE Parents'
  BY <1>6 DEF Reused, MayBeOpen
<1>7. ASSUME NEW q \in Requests, Mint(q) PROVE Parents'
    <2> DEFINE n == fresh + 1
    <2>1. /\ pc[q] \in {"issuing", "minting"} /\ pc' = [pc EXCEPT ![q] = "granting"]
          /\ DOMAIN rows' = DOMAIN rows \cup {n} /\ minted' = minted \cup {<<job[q].row, n>>}
          /\ \A p \in Requests : job'[p].row = job[p].row
          /\ killed' = killed
      BY <1>7 DEF Mint
    <2>2. \A r \in DOMAIN rows : rows'[r].revoked = rows[r].revoked /\ r # 0
      BY <1>7 DEF Mint
    <2>3. /\ n \notin killed /\ n \notin DOMAIN rows
          /\ \A m \in minted : m[1] # n
          /\ \A p \in Requests : job[p].row # n
      BY <1>7 DEF Mint
    <2>4. \A m \in minted : m[1] = job[q].row => job[q].row = 0
      BY <2>1
    <2>5. job[q].row = 0 \/ pc[q] = "minting"
      BY <2>1
    <2> HIDE DEF n
    <2>6. \A r \in DOMAIN rows' : ~rows'[r].revoked =>
            /\ r \notin killed'
            /\ \A m \in minted' : m[1] # r
            /\ \A p \in Requests : pc'[p] \in {"minting", "ungranting"} => job'[p].row # r
      BY <2>1, <2>2, <2>3, <2>5
    <2>7. \A p \in Requests : pc'[p] \in {"minting", "ungranting"} =>
            /\ p # q /\ pc'[p] = pc[p] /\ job[p].row > 0
            /\ \A m \in minted' : m[1] # job'[p].row
      BY <2>1, <2>5
    <2>8. \A a, b \in minted' : a[1] = b[1] => a = b \/ a[1] = 0
      BY <2>1, <2>4
    <2> QED
      BY <2>1, <2>6, <2>7, <2>8
<1>8. ASSUME NEW q \in Requests, Grant(q) PROVE Parents'
  BY <1>8 DEF Grant
<1>9. ASSUME NEW q \in Requests, Store(q) PROVE Parents'
    <2>1. Stored(q)
      BY <1>9, StoreRows
    <2>2. /\ pc[q] = "storing" /\ Go(q, "answering") /\ faults' \in 0..MaxFaults
          /\ UNCHANGED <<codes, access, fresh, known, job, history>>
      BY <1>9 DEF Store, Fault
    <2> QED
      BY <2>1, <2>2 DEF Stored
<1>10. ASSUME NEW q \in Requests, Answer(q) PROVE Parents'
  BY <1>10 DEF Answer
<1>11. ASSUME NEW q \in Requests, NEW r \in known, Revoke(q, r) PROVE Parents'
  BY <1>11 DEF Revoke, Take, JobOf
<1>12. ASSUME NEW q \in Requests, RevokeSwap(q) PROVE Parents'
    <2>1. Swapped(q)
      BY <1>12, RevokeRows
    <2>2. /\ pc[q] = "revoking" /\ UNCHANGED <<codes, access, fresh, known, job, history, faults>>
          /\ \/ Live(job[q].row) /\ Go(q, "ungranting")
             \/ ~Live(job[q].row) /\ Go(q, "finding")
      BY <1>12 DEF RevokeSwap
    <2> QED
      BY <2>1, <2>2 DEF Swapped, Same, Live
<1>13. ASSUME NEW q \in Requests, Ungrant(q) PROVE Parents'
  BY <1>13 DEF Ungrant, MintedWith
<1>14. ASSUME NEW q \in Requests, FamilyFind(q) PROVE Parents'
  BY <1>14 DEF FamilyFind
<1>15. ASSUME NEW q \in Requests, FamilyAccess(q) PROVE Parents'
  BY <1>15 DEF FamilyAccess
<1>16. ASSUME NEW q \in Requests, FamilyRows(q) PROVE Parents'
  BY <1>16 DEF FamilyRows, DeleteRows
<1>17. ASSUME NEW q \in Requests, UnissueAccess(q) PROVE Parents'
  BY <1>17 DEF UnissueAccess, IssuedFor, Fault
<1>18. ASSUME NEW q \in Requests, UnissueRows(q) PROVE Parents'
  BY <1>18 DEF UnissueRows, DeleteRows, IssuedFor, Fault
<1>19. ASSUME NEW q \in Requests, Crash(q) PROVE Parents'
  BY <1>19 DEF Crash, Fault
<1>20. ASSUME NEW r \in known, Close(r) PROVE Parents'
  BY <1>20 DEF Close
<1>21. CASE UNCHANGED vars
  BY <1>21 DEF vars
<1> QED
  BY <1>1, <1>2, <1>3, <1>4, <1>5, <1>6, <1>7, <1>8, <1>9, <1>10, <1>11, <1>12, <1>13, <1>14, <1>15, <1>16, <1>17, <1>18, <1>19, <1>20, <1>21 DEF Next

\* Only what was minted from a token is stored with it or answered to it.
LEMMA StepAnswers ==
    ASSUME IInv, [Next]_vars
    PROVE  Answers'
<1> USE BoundsAssumption
    DEF IInv, Typed, TypeOK, Known, Ids, Holding, Handing, Answers, tables, history, Go
<1>1. ASSUME NEW q \in Requests, NEW c \in Codes, Redeem(q, c) PROVE Answers'
  BY <1>1 DEF Redeem, Take, JobOf, NewRow, Unused, RowType
<1>2. ASSUME NEW q \in Requests, NEW r \in known, Present(q, r) PROVE Answers'
  BY <1>2 DEF Present, Take, JobOf
<1>3. ASSUME NEW q \in Requests, Refuse(q) PROVE Answers'
  BY <1>3 DEF Refuse
<1>4. ASSUME NEW q \in Requests, Rotate(q) PROVE Answers'
    <2>1. Swapped(q)
      BY <1>4, RotateRows
    <2>2. /\ pc[q] = "checking" /\ UNCHANGED <<codes, access, fresh, known, job, history, faults>>
          /\ \/ Live(job[q].row) /\ Go(q, "minting")
             \/ ~Live(job[q].row) /\ Go(q, "idle")
      BY <1>4 DEF Rotate
    <2> QED
      BY <2>1, <2>2 DEF Swapped, Same, Live
<1>5. ASSUME NEW q \in Requests, Replay(q) PROVE Answers'
  BY <1>5 DEF Replay, Cached, MayBeOpen
<1>6. ASSUME NEW q \in Requests, Reused(q) PROVE Answers'
  BY <1>6 DEF Reused, MayBeOpen
<1>7. ASSUME NEW q \in Requests, Mint(q) PROVE Answers'
  BY <1>7 DEF Mint, NewRow
<1>8. ASSUME NEW q \in Requests, Grant(q) PROVE Answers'
  BY <1>8 DEF Grant
<1>9. ASSUME NEW q \in Requests, Store(q) PROVE Answers'
    <2>1. Stored(q)
      BY <1>9, StoreRows
    <2>2. /\ pc[q] = "storing" /\ Go(q, "answering") /\ faults' \in 0..MaxFaults
          /\ UNCHANGED <<codes, access, fresh, known, job, history>>
      BY <1>9 DEF Store, Fault
    <2> QED
      BY <2>1, <2>2 DEF Stored
<1>10. ASSUME NEW q \in Requests, Answer(q) PROVE Answers'
  BY <1>10 DEF Answer
<1>11. ASSUME NEW q \in Requests, NEW r \in known, Revoke(q, r) PROVE Answers'
  BY <1>11 DEF Revoke, Take, JobOf
<1>12. ASSUME NEW q \in Requests, RevokeSwap(q) PROVE Answers'
    <2>1. Swapped(q)
      BY <1>12, RevokeRows
    <2>2. /\ pc[q] = "revoking" /\ UNCHANGED <<codes, access, fresh, known, job, history, faults>>
          /\ \/ Live(job[q].row) /\ Go(q, "ungranting")
             \/ ~Live(job[q].row) /\ Go(q, "finding")
      BY <1>12 DEF RevokeSwap
    <2> QED
      BY <2>1, <2>2 DEF Swapped, Same, Live
<1>13. ASSUME NEW q \in Requests, Ungrant(q) PROVE Answers'
  BY <1>13 DEF Ungrant, MintedWith
<1>14. ASSUME NEW q \in Requests, FamilyFind(q) PROVE Answers'
  BY <1>14 DEF FamilyFind
<1>15. ASSUME NEW q \in Requests, FamilyAccess(q) PROVE Answers'
  BY <1>15 DEF FamilyAccess
<1>16. ASSUME NEW q \in Requests, FamilyRows(q) PROVE Answers'
  BY <1>16 DEF FamilyRows, DeleteRows
<1>17. ASSUME NEW q \in Requests, UnissueAccess(q) PROVE Answers'
  BY <1>17 DEF UnissueAccess, IssuedFor, Fault
<1>18. ASSUME NEW q \in Requests, UnissueRows(q) PROVE Answers'
  BY <1>18 DEF UnissueRows, DeleteRows, IssuedFor, Fault
<1>19. ASSUME NEW q \in Requests, Crash(q) PROVE Answers'
  BY <1>19 DEF Crash, Fault
<1>20. ASSUME NEW r \in known, Close(r) PROVE Answers'
  BY <1>20 DEF Close
<1>21. CASE UNCHANGED vars
  BY <1>21 DEF vars
<1> QED
  BY <1>1, <1>2, <1>3, <1>4, <1>5, <1>6, <1>7, <1>8, <1>9, <1>10, <1>11, <1>12, <1>13, <1>14, <1>15, <1>16, <1>17, <1>18, <1>19, <1>20, <1>21 DEF Next

\* Nobody learns of a token before its access token is in.
LEMMA StepGranting ==
    ASSUME IInv, [Next]_vars
    PROVE  Granting'
<1> USE BoundsAssumption
    DEF IInv, Typed, TypeOK, Known, Ids, Holding, Handing, Granting, tables, history, Go
<1>1. ASSUME NEW q \in Requests, NEW c \in Codes, Redeem(q, c) PROVE Granting'
  BY <1>1 DEF Redeem, Take, JobOf, NewRow, Unused, RowType
<1>2. ASSUME NEW q \in Requests, NEW r \in known, Present(q, r) PROVE Granting'
  BY <1>2 DEF Present, Take, JobOf
<1>3. ASSUME NEW q \in Requests, Refuse(q) PROVE Granting'
  BY <1>3 DEF Refuse
<1>4. ASSUME NEW q \in Requests, Rotate(q) PROVE Granting'
    <2>1. Swapped(q)
      BY <1>4, RotateRows
    <2>2. /\ pc[q] = "checking" /\ UNCHANGED <<codes, access, fresh, known, job, history, faults>>
          /\ \/ Live(job[q].row) /\ Go(q, "minting")
             \/ ~Live(job[q].row) /\ Go(q, "idle")
      BY <1>4 DEF Rotate
    <2> QED
      BY <2>1, <2>2 DEF Swapped, Same, Live
<1>5. ASSUME NEW q \in Requests, Replay(q) PROVE Granting'
  BY <1>5 DEF Replay, Cached, MayBeOpen
<1>6. ASSUME NEW q \in Requests, Reused(q) PROVE Granting'
  BY <1>6 DEF Reused, MayBeOpen
<1>7. ASSUME NEW q \in Requests, Mint(q) PROVE Granting'
  BY <1>7 DEF Mint, NewRow
<1>8. ASSUME NEW q \in Requests, Grant(q) PROVE Granting'
  BY <1>8 DEF Grant
<1>9. ASSUME NEW q \in Requests, Store(q) PROVE Granting'
    <2>1. Stored(q)
      BY <1>9, StoreRows
    <2>2. /\ pc[q] = "storing" /\ Go(q, "answering") /\ faults' \in 0..MaxFaults
          /\ UNCHANGED <<codes, access, fresh, known, job, history>>
      BY <1>9 DEF Store, Fault
    <2> QED
      BY <2>1, <2>2 DEF Stored
<1>10. ASSUME NEW q \in Requests, Answer(q) PROVE Granting'
  BY <1>10 DEF Answer
<1>11. ASSUME NEW q \in Requests, NEW r \in known, Revoke(q, r) PROVE Granting'
  BY <1>11 DEF Revoke, Take, JobOf
<1>12. ASSUME NEW q \in Requests, RevokeSwap(q) PROVE Granting'
    <2>1. Swapped(q)
      BY <1>12, RevokeRows
    <2>2. /\ pc[q] = "revoking" /\ UNCHANGED <<codes, access, fresh, known, job, history, faults>>
          /\ \/ Live(job[q].row) /\ Go(q, "ungranting")
             \/ ~Live(job[q].row) /\ Go(q, "finding")
      BY <1>12 DEF RevokeSwap
    <2> QED
      BY <2>1, <2>2 DEF Swapped, Same, Live
<1>13. ASSUME NEW q \in Requests, Ungrant(q) PROVE Granting'
  BY <1>13 DEF Ungrant, MintedWith
<1>14. ASSUME NEW q \in Requests, FamilyFind(q) PROVE Granting'
  BY <1>14 DEF FamilyFind
<1>15. ASSUME NEW q \in Requests, FamilyAccess(q) PROVE Granting'
  BY <1>15 DEF FamilyAccess
<1>16. ASSUME NEW q \in Requests, FamilyRows(q) PROVE Granting'
  BY <1>16 DEF FamilyRows, DeleteRows
<1>17. ASSUME NEW q \in Requests, UnissueAccess(q) PROVE Granting'
  BY <1>17 DEF UnissueAccess, IssuedFor, Fault
<1>18. ASSUME NEW q \in Requests, UnissueRows(q) PROVE Granting'
  BY <1>18 DEF UnissueRows, DeleteRows, IssuedFor, Fault
<1>19. ASSUME NEW q \in Requests, Crash(q) PROVE Granting'
  BY <1>19 DEF Crash, Fault
<1>20. ASSUME NEW r \in known, Close(r) PROVE Granting'
  BY <1>20 DEF Close
<1>21. CASE UNCHANGED vars
  BY <1>21 DEF vars
<1> QED
  BY <1>1, <1>2, <1>3, <1>4, <1>5, <1>6, <1>7, <1>8, <1>9, <1>10, <1>11, <1>12, <1>13, <1>14, <1>15, <1>16, <1>17, <1>18, <1>19, <1>20, <1>21 DEF Next

LEMMA StepRevoked ==
    ASSUME IInv, [Next]_vars
    PROVE  RevokedMintsNothing' /\ RevokedGrantsNothing'
<1> USE DEF IInv, Typed, TypeOK, Known, Ids, RevokedMintsNothing, RevokedGrantsNothing
<1>1. ASSUME NEW q \in Requests, Mint(q) PROVE RevokedMintsNothing' /\ RevokedGrantsNothing'
  BY <1>1 DEF Mint, Parents, Holding
<1>2. ASSUME NEW q \in Requests, Grant(q) PROVE RevokedMintsNothing' /\ RevokedGrantsNothing'
  BY <1>2 DEF Grant, Granting, history
<1>3. ASSUME NEW q \in Requests, Ungrant(q) PROVE RevokedMintsNothing' /\ RevokedGrantsNothing'
  BY <1>3 DEF Ungrant, MintedWith, Parents, Holding
<1>4. CASE UNCHANGED <<minted, killed>> /\ access' \subseteq access
  BY <1>4
<1>5. \/ \E q \in Requests : Mint(q) \/ Grant(q) \/ Ungrant(q)
      \/ UNCHANGED <<minted, killed>> /\ access' \subseteq access
  <2> USE DEF tables, history
  <2>1. ASSUME NEW q \in Requests, NEW c \in Codes, Redeem(q, c)
        PROVE  UNCHANGED <<minted, killed, access>>
    BY <2>1 DEF Redeem
  <2>2. ASSUME NEW q \in Requests, NEW r \in known, Present(q, r) \/ Revoke(q, r)
        PROVE  UNCHANGED <<minted, killed, access>>
    BY <2>2 DEF Present, Revoke
  <2>3. ASSUME NEW q \in Requests,
               \/ Refuse(q) \/ Rotate(q) \/ Replay(q) \/ Reused(q) \/ Store(q)
               \/ Answer(q) \/ RevokeSwap(q) \/ FamilyFind(q) \/ Crash(q)
        PROVE  UNCHANGED <<minted, killed, access>>
    BY <2>3 DEF Refuse, Rotate, Replay, Reused, Store, Answer, RevokeSwap, FamilyFind, Crash
  <2>4. ASSUME NEW q \in Requests,
               FamilyAccess(q) \/ FamilyRows(q) \/ UnissueAccess(q) \/ UnissueRows(q)
        PROVE  UNCHANGED <<minted, killed>> /\ access' \subseteq access
    BY <2>4 DEF FamilyAccess, FamilyRows, UnissueAccess, UnissueRows, DeleteRows
  <2>5. ASSUME NEW r \in known, Close(r) PROVE UNCHANGED <<minted, killed, access>>
    BY <2>5 DEF Close
  <2>6. CASE UNCHANGED vars
    BY <2>6 DEF vars
  <2> QED
    BY <2>1, <2>2, <2>3, <2>4, <2>5, <2>6 DEF Next
<1> QED
  BY <1>1, <1>2, <1>3, <1>4, <1>5

LEMMA InitInv == Init => IInv
<1> SUFFICES ASSUME Init PROVE IInv
  OBVIOUS
<1>1. /\ job \in [Requests -> [code : Codes, row : 0..MaxRows, seen : RowType,
                              child : 0..MaxRows, found : SUBSET Ids]]
      /\ \A q \in Requests : /\ job[q].row = 0 /\ job[q].child = 0
                             /\ job[q].seen.answer = 0 /\ job[q].found = {}
  BY NoJobTyped DEF Init
<1>2. DOMAIN rows = {}
  BY DEF Init
<1>3. Typed
  BY <1>1, <1>2, BoundsAssumption DEF Init, Typed, TypeOK, Known, Handing, Holding
<1>4. Rights /\ Parents /\ Answers /\ Granting
  BY <1>1, <1>2 DEF Init, Rights, OfCode, CodeFirst, MintingAlone, Minting, OneLiveToken, Parents,
              Answers, Granting, Handing
<1>5. RevokedMintsNothing /\ RevokedGrantsNothing
  BY DEF Init, RevokedMintsNothing, RevokedGrantsNothing
<1> QED
  BY <1>3, <1>4, <1>5 DEF IInv

\* The invariant all of the above makes inductive.
LEMMA Inductive == Spec => []IInv
<1>1. IInv /\ [Next]_vars => IInv'
  BY StepTyped, StepRights, StepParents, StepAnswers, StepGranting, StepRevoked DEF IInv
<1> QED
  BY InitInv, <1>1, PTL DEF Spec

\* Every variable stays in its domain: ids are not reused and an access token has
\* its refresh token.
THEOREM TypeCorrect == Spec => []TypeOK
<1>1. IInv => TypeOK
  BY DEF IInv, Typed
<1> QED
  BY Inductive, <1>1, PTL

\* However redemptions, rotations, revocations, cleanups and crashes of any number
\* of requests interleave, a code has at most one live token.
THEOREM NeverForks == Spec => []OneLiveToken
<1>1. IInv => OneLiveToken
  BY DEF IInv, Rights
<1> QED
  BY Inductive, <1>1, PTL

\* All who refresh the same token are answered the same new token.
THEOREM AnswersRepeat == Spec => []SameAnswer
<1>1. IInv => SameAnswer
  BY DEF IInv, Typed, Known, Answers, Parents, SameAnswer
<1> QED
  BY Inductive, <1>1, PTL

\* A revocation that was answered holds: nothing more is minted from the token.
THEOREM RevocationHolds == Spec => []RevokedMintsNothing
<1>1. IInv => RevokedMintsNothing
  BY DEF IInv
<1> QED
  BY Inductive, <1>1, PTL

\* The access token minted with a refresh token whose revocation was answered does
\* not come back, whatever the requests that were under way still write.
THEOREM RevokedStaysUngranted == Spec => []RevokedGrantsNothing
<1>1. IInv => RevokedGrantsNothing
  BY DEF IInv
<1> QED
  BY Inductive, <1>1, PTL
=============================================================================
