--------------------------- MODULE UserStoreProofs ---------------------------
(***************************************************************************)
(* Theorems about UserStore, for any connections, requests and accounts.   *)
(***************************************************************************)
EXTENDS UserStore, TLAPS

(***************************************************************************)
(* A request has a connection exactly while it is at a step of the DAO,    *)
(* and it has it for itself.                                               *)
(***************************************************************************)
ConnInv ==
  /\ \A q \in Reqs : IF pc[q] \in Steps THEN con[q] \in Conns \ (idle \cup dropped)
                                        ELSE con[q] = None
  /\ \A p, q \in Reqs : con[p] = con[q] /\ con[p] # None => p = q
  /\ idle \cap dropped = {}
  /\ \A q \in Reqs : pc[q] # "new" => req[q] \in Requests
  /\ \A q \in Reqs : pc[q] \in RegSteps \cup {"RegUser"} => req[q].kind = "register"

StoreInv == TypeOK /\ ConnInv

(***************************************************************************)
(* The lock of user_id: who has raised the counter is between TakeId and   *)
(* the end of its transaction, is alone, and has one more than everybody   *)
(* else can see.                                                           *)
(***************************************************************************)
CounterInv ==
  /\ \A c \in Conns : pendId[c] # 0 =>
       /\ pendId[c] = lastId + 1 /\ live[c]
       /\ \E q \in Reqs : con[q] = c /\ pc[q] \in {"insert", "commit"}
  /\ \A c, d \in Conns : pendId[c] # 0 /\ pendId[d] # 0 => c = d
  /\ \A q \in Reqs : pc[q] \in {"insert", "commit"} /\ live[con[q]] =>
       pendId[con[q]] # 0 /\ newId[q] = pendId[con[q]]

(***************************************************************************)
(* What a transaction has not committed is a new version of a committed    *)
(* row, or the row of the registration that is about to commit.            *)
(***************************************************************************)
Version(r) == \E s \in rows : SameAccount(r, s)

Inserted(c, r) ==
  \E q \in Reqs : con[q] = c /\ pc[q] = "commit" /\ live[c] /\ r = NewRow(q)

UniqueIn(t) == \A r, s \in t : r.uid = s.uid => r = s

PendInv ==
  /\ \A c \in Conns : auto[c] \/ ~live[c] => pend[c] = {}
  /\ \A c \in Conns : UniqueIn(pend[c])
  /\ \A c \in Conns : \A r \in pend[c] : Version(r) \/ Inserted(c, r)

\* The transaction of a registration is not in autocommit mode.
ModeInv ==
  \A q \in Reqs : pc[q] \in {"name", "id", "insert", "commit"} => ~auto[con[q]]

RowInv == UidsUnique /\ \A r \in rows : r.uid <= lastId

-----------------------------------------------------------------------------
(* Types and connections                                                   *)

\* A table with a transaction's changes laid over it holds rows (what a SELECT of
\* RegUserTransaction sees).
LEMMA OverType ==
  ASSUME NEW t \in SUBSET Rows, NEW p \in SUBSET Rows
  PROVE  Over(t, p) \in SUBSET Rows
  BY DEF Over

\* What a SELECT of MysqlDao reads is a set of rows of the table user.
LEMMA ViewType ==
  ASSUME TypeOK, NEW c \in Conns
  PROVE  Base(c) \in SUBSET Rows
  BY DEF TypeOK, Base

\* RegUserTransaction writes a row of the table.
LEMMA NewRowType ==
  ASSUME StoreInv, NEW q \in Reqs, pc[q] \in RegSteps
  PROVE  NewRow(q) \in Rows
  BY DEF StoreInv, TypeOK, ConnInv, NewRow, Rows, RegSteps

\* UPDATE writes rows of the table.
LEMMA VersionsType ==
  ASSUME StoreInv, NEW q \in Reqs, pc[q] = "updating"
  PROVE  NewVersions(q) \in SUBSET Rows
<1>1. req[q] \in Requests /\ con[q] \in Conns
  BY DEF StoreInv, ConnInv, Steps
<1>2. ASSUME NEW r \in Rows PROVE [r EXCEPT !.pwd = req[q].pwd] \in Rows
  BY <1>1, <1>2 DEF Rows
<1>3. Over(rows, pend[con[q]]) \in SUBSET Rows
  BY <1>1, OverType DEF StoreInv, TypeOK
<1> QED
  BY <1>2, <1>3 DEF NewVersions

\* COMMIT, ROLLBACK or the loss of a connection leaves a session without changes,
\* of the right types.
LEMMA EndType ==
  ASSUME TypeOK, NEW c \in Conns, EndTransaction(c)
  PROVE  /\ snap' \in [Conns -> {None} \cup SUBSET Rows]
         /\ pend' \in [Conns -> SUBSET Rows] /\ pendId' \in [Conns -> Nat]
         /\ pendF' \in [Conns -> SUBSET (Nat \X Nat)]
  BY DEF TypeOK, EndTransaction

\* A SELECT keeps the snapshot of its transaction a set of rows.
LEMMA SelectType ==
  ASSUME TypeOK, NEW c \in Conns, Select(c)
  PROVE  snap' \in [Conns -> {None} \cup SUBSET Rows]
  BY ViewType DEF TypeOK, Select

\* COMMIT leaves rows in the table and a number in the counter.
LEMMA CommitType ==
  ASSUME TypeOK, NEW c \in Conns, CommitRows(c)
  PROVE  /\ rows' \subseteq Rows /\ lastId' \in Nat /\ friends' \subseteq Nat \X Nat
         /\ snap' \in [Conns -> {None} \cup SUBSET Rows]
         /\ pend' \in [Conns -> SUBSET Rows] /\ pendId' \in [Conns -> Nat]
         /\ pendF' \in [Conns -> SUBSET (Nat \X Nat)]
  BY EndType, OverType DEF TypeOK, CommitRows

\* returnConnection keeps the types of the pool and of the request that calls it.
LEMMA ReturnType ==
  ASSUME StoreInv, NEW q \in Reqs, pc[q] \in Steps,
         NEW p \in Waiting \cup Answered, Return(q, p)
  PROVE  /\ idle' \subseteq Conns /\ dropped' \subseteq Conns
         /\ pc' \in [Reqs -> {"new"} \cup Waiting \cup Steps \cup Answered]
         /\ con' \in [Reqs -> Conns \cup {None}]
  BY DEF StoreInv, TypeOK, ConnInv, Return

\* loadFriend keeps the uids it looks up a pair of numbers.
LEMMA ForgetType ==
  ASSUME TypeOK, NEW q \in Reqs, Forget(q)
  PROVE  pair' \in [Reqs -> Nat \X Nat]
  BY DEF TypeOK, Forget

\* The SELECTs of loadFriend keep the types.
LEMMA PairType ==
  ASSUME StoreInv, NEW q \in Reqs, FindPair(q)
  PROVE  TypeOK'
<1>1. con[q] \in Conns /\ pc[q] \in Steps
  BY DEF FindPair, At, StoreInv, ConnInv, Steps, PairSteps
<1>2. View(con[q]) \in SUBSET Rows
  BY <1>1, ViewType, OverType DEF View, StoreInv, TypeOK
<1>3. pair' \in [Reqs -> Nat \X Nat]
  BY <1>2 DEF FindPair, StoreInv, TypeOK, Rows
<1>4. snap' \in [Conns -> {None} \cup SUBSET Rows]
  BY <1>1, SelectType DEF FindPair, StoreInv
<1>5. CASE Return(q, "ok")
  BY <1>1, <1>3, <1>4, <1>5, ReturnType DEF FindPair, StoreInv, TypeOK, tables, Answered
<1>6. CASE Go(q, "first")
  BY <1>3, <1>4, <1>6 DEF FindPair, Go, pool, StoreInv, TypeOK, tables, Steps, PairSteps
<1> QED
  BY <1>5, <1>6 DEF FindPair

\* The INSERTs of loadFriend keep the types.
LEMMA InsertType ==
  ASSUME StoreInv, NEW q \in Reqs, InsertFriend(q)
  PROVE  TypeOK'
<1>1. con[q] \in Conns /\ pc[q] \in Steps
  BY DEF InsertFriend, At, StoreInv, ConnInv, Steps, PairSteps
<1>2. Row(q) \in Nat \X Nat
  BY DEF Row, Reversed, StoreInv, TypeOK
<1>3. friends' \subseteq Nat \X Nat /\ pendF' \in [Conns -> SUBSET (Nat \X Nat)]
  BY <1>1, <1>2 DEF InsertFriend, StoreInv, TypeOK
<1>4. pair' \in [Reqs -> Nat \X Nat]
  BY DEF InsertFriend, StoreInv, TypeOK
<1>5. CASE Return(q, "ok")
  BY <1>1, <1>3, <1>4, <1>5, ReturnType DEF InsertFriend, StoreInv, TypeOK, Answered
<1>6. CASE Go(q, "second")
  BY <1>3, <1>4, <1>6 DEF InsertFriend, Go, pool, StoreInv, TypeOK, Steps, PairSteps
<1> QED
  BY <1>5, <1>6 DEF InsertFriend

\* Every step keeps the types.
LEMMA TypeStep ==
  ASSUME StoreInv, [Next]_vars
  PROVE  TypeOK'
<1> USE StoreAssumption
<1>1. ASSUME NEW q \in Reqs, Arrive(q) PROVE TypeOK'
  BY <1>1
  DEF Arrive, TypeOK, StoreInv, tables, sessions, pool, Waiting, FirstCall, Kinds, HttpKinds
<1>2. ASSUME NEW q \in Reqs, GetConnection(q) PROVE TypeOK'
  BY <1>2
  DEF GetConnection, TypeOK, StoreInv, tables, sessions, Steps, RegSteps, PairSteps, Waiting,
        FirstStep
<1>3. ASSUME NEW q \in Reqs, SelectEmail(q) PROVE TypeOK'
  <2>1. con[q] \in Conns /\ pc[q] \in Steps
    BY <1>3 DEF SelectEmail, At, StoreInv, ConnInv, Steps, RegSteps
  <2>2. auto' \in [Conns -> BOOLEAN]
    BY <1>3 DEF SelectEmail, StoreInv, TypeOK
  <2>3. CASE EndTransaction(con[q]) /\ Return(q, "refused")
    BY <1>3, <2>1, <2>2, <2>3, EndType, ReturnType
       DEF SelectEmail, TypeOK, StoreInv, tables, Answered
  <2>4. CASE /\ snap' = [snap EXCEPT ![con[q]] = Base(con[q])]
             /\ Go(q, "name") /\ UNCHANGED <<pend, pendId, pendF>>
    BY <1>3, <2>1, <2>2, <2>4, ViewType
       DEF SelectEmail, TypeOK, StoreInv, tables, pool, Go, Steps, RegSteps
  <2> QED
    BY <1>3, <2>3, <2>4 DEF SelectEmail
<1>4. ASSUME NEW q \in Reqs, SelectName(q) PROVE TypeOK'
  BY <1>4, EndType, ReturnType, SelectType
  DEF SelectName, TypeOK, StoreInv, ConnInv, tables, pool, Steps, RegSteps, PairSteps, Answered,
        At, Go
<1>5. ASSUME NEW q \in Reqs, TakeId(q) PROVE TypeOK'
  BY <1>5
  DEF TakeId, TypeOK, StoreInv, ConnInv, tables, pool, Steps, RegSteps, PairSteps, At,
        Go
<1>6. ASSUME NEW q \in Reqs, InsertUser(q) PROVE TypeOK'
  BY <1>6, NewRowType
  DEF InsertUser, TypeOK, StoreInv, ConnInv, tables, pool, Steps, RegSteps, PairSteps, At, Go
<1>7. ASSUME NEW q \in Reqs, InsertFails(q) PROVE TypeOK'
  BY <1>7, EndType, ReturnType
  DEF InsertFails, TypeOK, StoreInv, ConnInv, tables, Waiting, Answered, At
<1>8. ASSUME NEW q \in Reqs, Commit(q) PROVE TypeOK'
  BY <1>8, CommitType, ReturnType
  DEF Commit, TypeOK, StoreInv, ConnInv, Waiting, Answered, At
<1>9. ASSUME NEW q \in Reqs, CheckEmail(q) PROVE TypeOK'
  BY <1>9, EndType, ReturnType, SelectType
  DEF CheckEmail, TypeOK, StoreInv, ConnInv, tables, Waiting, Answered, At
<1>10. ASSUME NEW q \in Reqs, UpdatePwd(q) PROVE TypeOK'
  <2>1. con[q] \in Conns /\ pc[q] \in Steps
    BY <1>10 DEF UpdatePwd, At, StoreInv, ConnInv, Steps
  <2>2. NewVersions(q) \in SUBSET Rows
    BY <1>10, VersionsType DEF UpdatePwd, At
  <2>3. rows' \subseteq Rows /\ pend' \in [Conns -> SUBSET Rows]
    BY <1>10, <2>1, <2>2, OverType DEF UpdatePwd, StoreInv, TypeOK
  <2> QED
    BY <1>10, <2>1, <2>3, ReturnType DEF UpdatePwd, StoreInv, TypeOK, Answered
<1>11. ASSUME NEW q \in Reqs, CheckPwd(q) PROVE TypeOK'
  BY <1>11, ReturnType, SelectType
  DEF CheckPwd, TypeOK, StoreInv, ConnInv, tables, Waiting, Answered, At
<1>12. ASSUME NEW q \in Reqs, GetFriend(q) PROVE TypeOK'
  BY <1>12, ReturnType, SelectType
  DEF GetFriend, TypeOK, StoreInv, ConnInv, tables, Waiting, Answered, At
<1>13. ASSUME NEW q \in Reqs, LockFails(q) PROVE TypeOK'
  BY <1>13, EndType, ReturnType
  DEF LockFails, TypeOK, StoreInv, ConnInv, tables, Waiting, Answered, At
<1>14. ASSUME NEW q \in Reqs, Broken(q) PROVE TypeOK'
  BY <1>14, ReturnType, ForgetType
  DEF Broken, TypeOK, StoreInv, tables, sessions, Answered
<1>15. ASSUME NEW q \in Reqs, CommitUnheard(q) PROVE TypeOK'
  BY <1>15, CommitType
  DEF CommitUnheard, TypeOK, StoreInv, ConnInv, pool, Steps, RegSteps, PairSteps, At
<1>16. ASSUME NEW c \in Conns, Reconnect(c) PROVE TypeOK'
  BY <1>16 DEF Reconnect, TypeOK, StoreInv, tables, pool
<1>17. ASSUME NEW c \in Conns, ConnectionLost(c) PROVE TypeOK'
  <2>1. ghosts' \subseteq [id : BOOLEAN, rows : SUBSET Rows, pairs : SUBSET (Nat \X Nat)]
    <3> DEFINE g == [id |-> pendId[c] # 0, rows |-> pend[c], pairs |-> pendF[c]]
    <3>1. pend[c] \in SUBSET Rows /\ pendF[c] \in SUBSET (Nat \X Nat)
      BY DEF TypeOK, StoreInv
    <3>2. g \in [id : BOOLEAN, rows : SUBSET Rows, pairs : SUBSET (Nat \X Nat)]
      BY <3>1
    <3>3. ghosts' = ghosts \/ ghosts' = ghosts \cup {g}
      BY <1>17 DEF ConnectionLost
    <3> QED
      BY <3>2, <3>3 DEF TypeOK, StoreInv
  <2> QED
    BY <1>17, <2>1, EndType DEF ConnectionLost, TypeOK, StoreInv, tables, pool
<1>18. CASE UNCHANGED vars
  BY <1>18 DEF vars, tables, sessions, pool, StoreInv, TypeOK
<1>19. ASSUME NEW q \in Reqs, GetUid(q) PROVE TypeOK'
  BY <1>19, ReturnType, SelectType
  DEF GetUid, TypeOK, StoreInv, ConnInv, tables, Waiting, Answered, At
<1>20. ASSUME NEW q \in Reqs, FindPair(q) PROVE TypeOK'
  BY <1>20, PairType, ReturnType, SelectType
<1>21. ASSUME NEW q \in Reqs, InsertFriend(q) PROVE TypeOK'
  BY <1>21, InsertType
<1>22. ASSUME NEW q \in Reqs, InsertFriendFails(q) PROVE TypeOK'
  BY <1>22, EndType, ReturnType, ForgetType
  DEF InsertFriendFails, TypeOK, StoreInv, ConnInv, tables, Steps, PairSteps, Answered, At
<1>23. ASSUME GhostEnds PROVE TypeOK'
  BY <1>23 DEF GhostEnds, TypeOK, StoreInv, tables, pool
<1> QED
  BY <1>1, <1>2, <1>3, <1>4, <1>5, <1>6, <1>7, <1>8, <1>9, <1>10, <1>11, <1>12,
     <1>13, <1>14, <1>15, <1>16, <1>17, <1>18, <1>19, <1>20, <1>21, <1>22, <1>23
  DEF Next, Handle

\* What GetConnection gives to whom.
LEMMA Borrow ==
  ASSUME StoreInv, NEW q \in Reqs, GetConnection(q)
  PROVE  /\ pc[q] \in Waiting /\ con[q] = None
         /\ \E c \in idle : con' = [con EXCEPT ![q] = c] /\ idle' = idle \ {c}
         /\ \E p \in {"email", "checking", "updating", "password", "friends", "uid",
                       "pair"} :
              /\ pc' = [pc EXCEPT ![q] = p]
              /\ p = "email" => pc[q] = "RegUser"
<1>1. pc[q] \in Waiting /\ con[q] = None
  BY DEF GetConnection, StoreInv, ConnInv, Waiting, Steps, RegSteps, PairSteps
<1>2. /\ FirstStep[pc[q]] \in {"email", "checking", "updating", "password", "friends", "uid",
                       "pair"}
      /\ FirstStep[pc[q]] = "email" => pc[q] = "RegUser"
  BY <1>1 DEF FirstStep, Waiting
<1> QED
  BY <1>1, <1>2 DEF GetConnection

\* returnConnection leaves the connection to nobody.
LEMMA ReturnConn ==
  ASSUME StoreInv, NEW q \in Reqs, pc[q] \in Steps, req' = req,
         NEW p \in Waiting \cup Answered, p # "RegUser", Return(q, p)
  PROVE  ConnInv'
<1>1. p \notin Steps /\ p \notin RegSteps /\ p # "new"
  BY DEF Waiting, Answered, Steps, RegSteps, PairSteps
<1>2. /\ pc' = [pc EXCEPT ![q] = p] /\ con' = [con EXCEPT ![q] = None]
      /\ idle' = idle \cup {con[q]} /\ dropped' = dropped
  BY DEF Return
<1>3. \A r \in Reqs : pc[r] \in Steps => r = q \/ con[r] # con[q]
  BY StoreAssumption DEF StoreInv, ConnInv
<1>4. con[q] \in Conns \ dropped
  BY DEF StoreInv, ConnInv
<1>5. ASSUME NEW r \in Reqs
      PROVE  IF pc'[r] \in Steps THEN con'[r] \in Conns \ (idle' \cup dropped')
                                 ELSE con'[r] = None
  <2>1. CASE r = q
    BY <1>1, <1>2, <2>1 DEF StoreInv, TypeOK
  <2>2. CASE r # q
    BY <1>2, <1>3, <2>2 DEF StoreInv, TypeOK, ConnInv
  <2> QED
    BY <2>1, <2>2
<1>6. \A r \in Reqs : pc'[r] \in RegSteps \cup {"RegUser"} => pc'[r] = pc[r]
  BY <1>1, <1>2 DEF StoreInv, TypeOK
<1>7. \A r \in Reqs : pc'[r] # "new" => pc[r] # "new"
  BY <1>1, <1>2 DEF StoreInv, TypeOK, Steps, RegSteps, PairSteps
<1>8. \A r, t \in Reqs : con'[r] = con'[t] /\ con'[r] # None => r = t
  BY <1>2 DEF StoreInv, TypeOK, ConnInv
<1>9. idle' \cap dropped' = {}
  BY <1>2, <1>4 DEF StoreInv, ConnInv
<1> QED
  BY <1>5, <1>6, <1>7, <1>8, <1>9 DEF StoreInv, ConnInv

\* From one step of the DAO to the next a request keeps its connection.
LEMMA GoConn ==
  ASSUME StoreInv, NEW q \in Reqs, pc[q] \in Steps, req' = req,
         NEW p \in Steps, p \in RegSteps => pc[q] \in RegSteps, Go(q, p)
  PROVE  ConnInv'
<1>1. /\ pc' = [pc EXCEPT ![q] = p] /\ con' = con /\ idle' = idle /\ dropped' = dropped
      /\ p # "RegUser"
  BY DEF Go, pool, Steps, RegSteps, PairSteps
<1> QED
  BY <1>1 DEF StoreInv, TypeOK, ConnInv, Steps, RegSteps, PairSteps

\* Who has the counter keeps it when another request goes on.
LEMMA CounterKept ==
  ASSUME StoreInv, CounterInv, NEW q \in Reqs, pc[q] \notin {"insert", "commit"},
         pc'[q] \notin {"insert", "commit"},
         \A p \in Reqs \ {q} : pc'[p] = pc[p] /\ con'[p] = con[p],
         UNCHANGED <<lastId, live, newId>>,
         pendId' \in {pendId, [pendId EXCEPT ![con[q]] = 0]}
  PROVE  CounterInv'
<1>1. ASSUME NEW c \in Conns, pendId'[c] # 0
      PROVE  /\ pendId'[c] = pendId[c] /\ pendId[c] # 0
             /\ \E p \in Reqs : con'[p] = c /\ pc'[p] \in {"insert", "commit"}
  BY <1>1 DEF CounterInv, StoreInv, TypeOK
<1>2. ASSUME NEW p \in Reqs, pc'[p] \in {"insert", "commit"}
      PROVE  /\ p # q /\ pc[p] = pc'[p] /\ con[p] = con'[p]
             /\ con[p] \in Conns /\ con[p] # con[q]
  BY <1>2, StoreAssumption DEF StoreInv, ConnInv, Steps, RegSteps
<1>3. \A p \in Reqs : pc'[p] \in {"insert", "commit"} => pendId'[con'[p]] = pendId[con[p]]
  BY <1>2 DEF StoreInv, TypeOK
<1> QED
  BY <1>1, <1>2, <1>3 DEF CounterInv

\* A connection is borrowed by one request at a time.
LEMMA ConnStep ==
  ASSUME StoreInv, [Next]_vars
  PROVE  ConnInv'
<1> USE StoreAssumption
<1>1. ASSUME NEW q \in Reqs, Arrive(q) PROVE ConnInv'
  BY <1>1
  DEF Arrive, pool, StoreInv, ConnInv, TypeOK, Steps, RegSteps, PairSteps, FirstCall,
        Kinds, HttpKinds
<1>2. ASSUME NEW q \in Reqs, GetConnection(q) PROVE ConnInv'
  <2>1. UNCHANGED <<dropped, req>>
    BY <1>2 DEF GetConnection
  <2> QED
    <3>1. PICK c \in idle, p \in Steps :
            /\ con' = [con EXCEPT ![q] = c] /\ idle' = idle \ {c}
            /\ pc' = [pc EXCEPT ![q] = p]
            /\ p \in RegSteps => pc[q] = "RegUser"
      BY <1>2, Borrow DEF Steps, RegSteps, PairSteps
    <3>2. pc[q] # "new" /\ "RegUser" \notin Steps /\ c \in Conns \ dropped
      BY <1>2, Borrow DEF StoreInv, TypeOK, ConnInv, Waiting, Steps, RegSteps, PairSteps
    <3>3. ASSUME NEW r \in Reqs
          PROVE  IF pc'[r] \in Steps THEN con'[r] \in Conns \ (idle' \cup dropped')
                                     ELSE con'[r] = None
      BY <2>1, <3>1, <3>2 DEF StoreInv, TypeOK, ConnInv
    <3>4. \A r \in Reqs : pc[r] \in Steps => con[r] # c
      BY <3>1 DEF StoreInv, ConnInv
    <3>5. \A r, t \in Reqs : con'[r] = con'[t] /\ con'[r] # None => r = t
      BY <3>1, <3>2 DEF StoreInv, TypeOK, ConnInv
    <3> QED
      BY <2>1, <3>1, <3>2, <3>3, <3>5 DEF StoreInv, TypeOK, ConnInv
<1>3. ASSUME NEW q \in Reqs, SelectEmail(q) PROVE ConnInv'
  BY <1>3, ReturnConn, GoConn
  DEF SelectEmail, At, Steps, RegSteps, PairSteps, Waiting, Answered
<1>4. ASSUME NEW q \in Reqs, SelectName(q) PROVE ConnInv'
  BY <1>4, ReturnConn, GoConn
  DEF SelectName, At, Steps, RegSteps, PairSteps, Waiting, Answered
<1>5. ASSUME NEW q \in Reqs, TakeId(q) PROVE ConnInv'
  BY <1>5, ReturnConn, GoConn
  DEF TakeId, At, Steps, RegSteps, PairSteps, Waiting, Answered
<1>6. ASSUME NEW q \in Reqs, InsertUser(q) PROVE ConnInv'
  BY <1>6, ReturnConn, GoConn
  DEF InsertUser, At, Steps, RegSteps, PairSteps, Waiting, Answered
<1>7. ASSUME NEW q \in Reqs, InsertFails(q) PROVE ConnInv'
  BY <1>7, ReturnConn
  DEF InsertFails, At, Steps, RegSteps, PairSteps, Waiting, Answered
<1>8. ASSUME NEW q \in Reqs, Commit(q) PROVE ConnInv'
  BY <1>8, ReturnConn
  DEF Commit, At, Steps, RegSteps, PairSteps, Waiting, Answered
<1>9. ASSUME NEW q \in Reqs, CheckEmail(q) PROVE ConnInv'
  <2>1. CASE \E p \in {"UpdatePwd", "refused"} : Return(q, p)
    BY <1>9, <2>1, ReturnConn DEF CheckEmail, At, Steps, Waiting, Answered
  <2>2. CASE /\ dropped' = dropped \cup {con[q]} /\ idle' = idle
             /\ con' = [con EXCEPT ![q] = None]
             /\ pc' = [pc EXCEPT ![q] = "refused"]
    <3>1. con[q] \in Conns \ (idle \cup dropped) /\ req' = req
      BY <1>9 DEF CheckEmail, At, StoreInv, ConnInv, Steps
    <3>2. \A r \in Reqs : pc[r] \in Steps => r = q \/ con[r] # con[q]
      BY <3>1 DEF StoreInv, ConnInv
    <3>3. "refused" \notin Steps \cup RegSteps
      BY DEF Steps, RegSteps, PairSteps
    <3>4. ASSUME NEW r \in Reqs
          PROVE  IF pc'[r] \in Steps THEN con'[r] \in Conns \ (idle' \cup dropped')
                                     ELSE con'[r] = None
      BY <2>2, <3>1, <3>2, <3>3 DEF StoreInv, TypeOK, ConnInv
    <3>5. \A r, t \in Reqs : con'[r] = con'[t] /\ con'[r] # None => r = t
      BY <2>2 DEF StoreInv, TypeOK, ConnInv
    <3>6. pc[q] # "new" /\ idle' \cap dropped' = {}
      BY <1>9, <2>2, <3>1 DEF CheckEmail, At, StoreInv, ConnInv
    <3> QED
      BY <2>2, <3>1, <3>3, <3>4, <3>5, <3>6 DEF StoreInv, TypeOK, ConnInv, RegSteps
  <2> QED
    BY <1>9, <2>1, <2>2 DEF CheckEmail
<1>10. ASSUME NEW q \in Reqs, UpdatePwd(q) PROVE ConnInv'
  BY <1>10, ReturnConn
  DEF UpdatePwd, At, Steps, RegSteps, PairSteps, Waiting, Answered
<1>11. ASSUME NEW q \in Reqs, CheckPwd(q) PROVE ConnInv'
  BY <1>11, ReturnConn
  DEF CheckPwd, At, Steps, RegSteps, PairSteps, Waiting, Answered
<1>12. ASSUME NEW q \in Reqs, GetFriend(q) PROVE ConnInv'
  BY <1>12, ReturnConn
  DEF GetFriend, At, Steps, RegSteps, PairSteps, Waiting, Answered
<1>13. ASSUME NEW q \in Reqs, LockFails(q) PROVE ConnInv'
  BY <1>13, ReturnConn
  DEF LockFails, At, Steps, RegSteps, PairSteps, Waiting, Answered
<1>14. ASSUME NEW q \in Reqs, Broken(q) PROVE ConnInv'
  BY <1>14, ReturnConn
  DEF Broken, At, Steps, RegSteps, PairSteps, Waiting, Answered
<1>15. ASSUME NEW q \in Reqs, CommitUnheard(q) PROVE ConnInv'
  BY <1>15 DEF CommitUnheard, pool, StoreInv, ConnInv
<1>16. ASSUME NEW c \in Conns, Reconnect(c) PROVE ConnInv'
  BY <1>16 DEF Reconnect, pool, StoreInv, ConnInv
<1>17. ASSUME NEW c \in Conns, ConnectionLost(c) PROVE ConnInv'
  BY <1>17 DEF ConnectionLost, pool, StoreInv, ConnInv
<1>18. CASE UNCHANGED vars
  BY <1>18 DEF vars, pool, StoreInv, ConnInv
<1>19. ASSUME NEW q \in Reqs, GetUid(q) PROVE ConnInv'
  BY <1>19, ReturnConn
  DEF GetUid, At, Steps, RegSteps, PairSteps, Waiting, Answered
<1>20. ASSUME NEW q \in Reqs, FindPair(q) PROVE ConnInv'
  BY <1>20, ReturnConn, GoConn
  DEF FindPair, At, Steps, RegSteps, PairSteps, Waiting, Answered
<1>21. ASSUME NEW q \in Reqs, InsertFriend(q) PROVE ConnInv'
  BY <1>21, ReturnConn, GoConn
  DEF InsertFriend, At, Steps, RegSteps, PairSteps, Waiting, Answered
<1>22. ASSUME NEW q \in Reqs, InsertFriendFails(q) PROVE ConnInv'
  BY <1>22, ReturnConn
  DEF InsertFriendFails, At, Steps, RegSteps, PairSteps, Waiting, Answered
<1>23. ASSUME GhostEnds PROVE ConnInv'
  BY <1>23 DEF GhostEnds, pool, StoreInv, ConnInv
<1> QED
  BY <1>1, <1>2, <1>3, <1>4, <1>5, <1>6, <1>7, <1>8, <1>9, <1>10, <1>11, <1>12,
     <1>13, <1>14, <1>15, <1>16, <1>17, <1>18, <1>19, <1>20, <1>21, <1>22, <1>23
  DEF Next, Handle

\* The counter is raised by one transaction at a time.
LEMMA CounterStep ==
  ASSUME StoreInv, CounterInv, [Next]_vars
  PROVE  CounterInv'
<1> USE StoreAssumption
<1>1. ASSUME NEW q \in Reqs, Arrive(q) PROVE CounterInv'
  BY <1>1 DEF Arrive, tables, sessions, CounterInv, FirstCall, Kinds, HttpKinds
<1>2. ASSUME NEW q \in Reqs, GetConnection(q) PROVE CounterInv'
  <2>1. UNCHANGED <<lastId, pendId, live, newId>>
    BY <1>2 DEF GetConnection, tables, sessions
  <2>2. \A p \in Reqs : pc'[p] \in {"insert", "commit"} => pc'[p] = pc[p] /\ con'[p] = con[p]
    BY <1>2, Borrow DEF StoreInv, TypeOK
  <2>3. \A p \in Reqs : pc[p] \in {"insert", "commit"} => pc'[p] = pc[p] /\ con'[p] = con[p]
    BY <1>2, Borrow DEF StoreInv, TypeOK, Waiting
  <2> QED
    BY <2>1, <2>2, <2>3 DEF CounterInv
<1>3. ASSUME NEW q \in Reqs, SelectEmail(q) PROVE CounterInv'
  BY <1>3, CounterKept
  DEF SelectEmail, Return, At, StoreInv, TypeOK, Go, tables, EndTransaction
<1>4. ASSUME NEW q \in Reqs, SelectName(q) PROVE CounterInv'
  BY <1>4, CounterKept
  DEF SelectName, Return, At, StoreInv, TypeOK, Go, tables, EndTransaction
<1>5. ASSUME NEW q \in Reqs, TakeId(q) PROVE CounterInv'
  BY <1>5
  DEF TakeId, tables, Go, At, StoreInv, ConnInv, TypeOK, CounterInv, Steps, RegSteps, PairSteps,
        IdLocked
<1>6. ASSUME NEW q \in Reqs, InsertUser(q) PROVE CounterInv'
  BY <1>6 DEF InsertUser, tables, Go, At, CounterInv
<1>7. ASSUME NEW q \in Reqs, InsertFails(q) PROVE CounterInv'
  BY <1>7
  DEF InsertFails, tables, Return, EndTransaction, StoreInv, ConnInv, TypeOK, CounterInv
<1>8. ASSUME NEW q \in Reqs, Commit(q) PROVE CounterInv'
  BY <1>8
  DEF Commit, Return, At, EndTransaction, CommitRows, StoreInv, ConnInv, TypeOK,
        CounterInv, Steps, RegSteps, PairSteps
<1>9. ASSUME NEW q \in Reqs, CheckEmail(q) PROVE CounterInv'
  <2>1. /\ pc[q] = "checking" /\ pc'[q] \in {"UpdatePwd", "refused"}
        /\ \A p \in Reqs \ {q} : pc'[p] = pc[p] /\ con'[p] = con[p]
    BY <1>9 DEF CheckEmail, Return, At, StoreInv, TypeOK
  <2>2. /\ UNCHANGED <<lastId, live, newId>>
        /\ pendId' \in {pendId, [pendId EXCEPT ![con[q]] = 0]}
    BY <1>9 DEF CheckEmail, tables, EndTransaction
  <2> QED
    BY <2>1, <2>2, CounterKept
<1>10. ASSUME NEW q \in Reqs, UpdatePwd(q) PROVE CounterInv'
  BY <1>10 DEF UpdatePwd, Return, At, CounterInv
<1>11. ASSUME NEW q \in Reqs, CheckPwd(q) PROVE CounterInv'
  BY <1>11, CounterKept
  DEF CheckPwd, Return, At, StoreInv, TypeOK, tables
<1>12. ASSUME NEW q \in Reqs, GetFriend(q) PROVE CounterInv'
  BY <1>12 DEF GetFriend, tables, Return, At, CounterInv
<1>13. ASSUME NEW q \in Reqs, LockFails(q) PROVE CounterInv'
  BY <1>13
  DEF LockFails, tables, Return, At, EndTransaction, StoreInv, ConnInv, TypeOK,
        CounterInv
<1>14. ASSUME NEW q \in Reqs, Broken(q) PROVE CounterInv'
  BY <1>14 DEF Broken, tables, sessions, Return, StoreInv, TypeOK, CounterInv
<1>15. ASSUME NEW q \in Reqs, CommitUnheard(q) PROVE CounterInv'
  BY <1>15
  DEF CommitUnheard, At, EndTransaction, CommitRows, StoreInv, ConnInv, TypeOK,
        CounterInv, Steps, RegSteps, PairSteps
<1>16. ASSUME NEW c \in Conns, Reconnect(c) PROVE CounterInv'
  BY <1>16 DEF Reconnect, tables, StoreInv, ConnInv, CounterInv
<1>17. ASSUME NEW c \in Conns, ConnectionLost(c) PROVE CounterInv'
  BY <1>17 DEF ConnectionLost, tables, EndTransaction, StoreInv, TypeOK, CounterInv
<1>18. CASE UNCHANGED vars
  BY <1>18 DEF vars, tables, sessions, CounterInv
<1>19. ASSUME NEW q \in Reqs, GetUid(q) PROVE CounterInv'
  BY <1>19, CounterKept
  DEF GetUid, Return, At, StoreInv, TypeOK, tables
<1>20. ASSUME NEW q \in Reqs, FindPair(q) PROVE CounterInv'
  BY <1>20, CounterKept
  DEF FindPair, Return, At, StoreInv, TypeOK, Go, tables
<1>21. ASSUME NEW q \in Reqs, InsertFriend(q) PROVE CounterInv'
  BY <1>21, CounterKept
  DEF InsertFriend, Return, At, StoreInv, TypeOK, Go
<1>22. ASSUME NEW q \in Reqs, InsertFriendFails(q) PROVE CounterInv'
  BY <1>22, CounterKept
  DEF InsertFriendFails, Return, At, StoreInv, TypeOK, tables, EndTransaction
<1>23. ASSUME GhostEnds PROVE CounterInv'
  BY <1>23 DEF GhostEnds, tables, CounterInv
<1> QED
  BY <1>1, <1>2, <1>3, <1>4, <1>5, <1>6, <1>7, <1>8, <1>9, <1>10, <1>11, <1>12,
     <1>13, <1>14, <1>15, <1>16, <1>17, <1>18, <1>19, <1>20, <1>21, <1>22, <1>23
  DEF Next, Handle

-----------------------------------------------------------------------------
(* Accounts                                                                *)

\* A newer version of a table has every account of the table.
LEMMA OverKeeps ==
  ASSUME NEW t, NEW p, NEW r \in t
  PROVE  \E s \in Over(t, p) : SameAccount(r, s)
  BY DEF Over, SameAccount

\* Changes that are versions of the rows they share a uid with keep uids unique.
LEMMA OverUnique ==
  ASSUME NEW t, NEW p, UniqueIn(t), UniqueIn(p),
         \A r \in p, s \in t : r.uid = s.uid => SameAccount(r, s)
  PROVE  UniqueIn(Over(t, p))
  BY DEF Over, UniqueIn, SameAccount

\* What a transaction has changed has the uid of an account only if it is a
\* version of that account.
LEMMA PendAgrees ==
  ASSUME StoreInv, CounterInv, PendInv, RowInv, NEW c \in Conns,
         NEW r \in pend[c], NEW s \in rows, r.uid = s.uid
  PROVE  SameAccount(r, s)
<1>1. CASE Version(r)
  BY <1>1 DEF Version, SameAccount, RowInv, UidsUnique
<1>2. CASE Inserted(c, r)
  <2>1. r.uid = lastId + 1
    BY <1>2 DEF Inserted, NewRow, CounterInv
  <2>2. s.uid <= lastId /\ lastId \in Nat
    BY DEF RowInv, StoreInv, TypeOK
  <2> QED
    BY <2>1, <2>2
<1> QED
  BY <1>1, <1>2 DEF PendInv

\* COMMIT keeps every account and adds that of the registration at most.
LEMMA CommitAccounts ==
  ASSUME StoreInv, CounterInv, PendInv, RowInv, NEW c \in Conns, CommitRows(c)
  PROVE  /\ UniqueIn(rows')
         /\ \A r \in rows : \E s \in rows' : SameAccount(r, s)
         /\ \A r \in rows' : Version(r) \/ Inserted(c, r)
<1>1. rows' = Over(rows, pend[c])
  BY DEF CommitRows
<1>2. UniqueIn(rows) /\ UniqueIn(pend[c])
  BY DEF RowInv, UidsUnique, UniqueIn, PendInv
<1>3. \A r \in rows' : Version(r) \/ Inserted(c, r)
  BY <1>1 DEF Over, PendInv, Version, SameAccount
<1> QED
  BY <1>1, <1>2, <1>3, PendAgrees, OverUnique, OverKeeps

\* UpdatePwd writes versions of accounts only.
LEMMA VersionsAreVersions ==
  ASSUME StoreInv, CounterInv, PendInv, RowInv, NEW q \in Reqs, pc[q] = "updating"
  PROVE  /\ UniqueIn(NewVersions(q))
         /\ \A r \in NewVersions(q) : Version(r)
         /\ \A r \in pend[con[q]] : Version(r)
         /\ \A r \in NewVersions(q), s \in rows \cup pend[con[q]] :
              r.uid = s.uid => SameAccount(r, s)
<1> DEFINE t == Over(rows, pend[con[q]])
<1>1. con[q] \in Conns
  BY DEF StoreInv, ConnInv, Steps
<1>2. \A r \in pend[con[q]] : Version(r)
  BY <1>1, StoreAssumption DEF PendInv, Inserted, StoreInv, ConnInv
<1>3. UniqueIn(t)
  <2>1. UniqueIn(rows) /\ UniqueIn(pend[con[q]])
    BY <1>1 DEF RowInv, UidsUnique, UniqueIn, PendInv
  <2> QED
    BY <1>1, <2>1, PendAgrees, OverUnique
<1>4. \A r \in t : r \in Rows /\ Version(r)
  BY <1>1, <1>2 DEF Over, StoreInv, TypeOK, Version, SameAccount
<1>5. \A r \in NewVersions(q) : \E s \in t : SameAccount(r, s)
                                /\ r = [s EXCEPT !.pwd = req[q].pwd]
  BY <1>4 DEF NewVersions, SameAccount, Rows
<1>6. UniqueIn(NewVersions(q))
  BY <1>3, <1>5 DEF UniqueIn, SameAccount
<1>7. \A r \in NewVersions(q) : Version(r)
  BY <1>4, <1>5 DEF Version, SameAccount
<1>8. ASSUME NEW r \in NewVersions(q), NEW s \in rows \cup pend[con[q]], r.uid = s.uid
      PROVE  SameAccount(r, s)
  <2>1. PICK a \in rows : SameAccount(r, a)
    BY <1>7 DEF Version
  <2>2. PICK b \in rows : SameAccount(s, b)
    BY <1>2 DEF Version, SameAccount
  <2>3. a = b
    BY <1>8, <2>1, <2>2 DEF SameAccount, RowInv, UidsUnique
  <2> QED
    BY <2>1, <2>2, <2>3 DEF SameAccount
<1> QED
  BY <1>2, <1>6, <1>7, <1>8

\* No step gives a uid twice.
LEMMA RowStep ==
  ASSUME StoreInv, CounterInv, PendInv, RowInv, [Next]_vars
  PROVE  RowInv'
<1> USE StoreAssumption
<1>1. ASSUME NEW q \in Reqs, Arrive(q) PROVE RowInv'
  BY <1>1 DEF Arrive, tables, RowInv, UidsUnique
<1>2. ASSUME NEW q \in Reqs, GetConnection(q) PROVE RowInv'
  BY <1>2 DEF GetConnection, tables, RowInv, UidsUnique
<1>3. ASSUME NEW q \in Reqs, SelectEmail(q) PROVE RowInv'
  BY <1>3 DEF SelectEmail, tables, RowInv, UidsUnique
<1>4. ASSUME NEW q \in Reqs, SelectName(q) PROVE RowInv'
  BY <1>4 DEF SelectName, tables, RowInv, UidsUnique
<1>5. ASSUME NEW q \in Reqs, TakeId(q) PROVE RowInv'
  BY <1>5 DEF TakeId, tables, RowInv, UidsUnique
<1>6. ASSUME NEW q \in Reqs, InsertUser(q) PROVE RowInv'
  BY <1>6 DEF InsertUser, tables, RowInv, UidsUnique
<1>7. ASSUME NEW q \in Reqs, InsertFails(q) PROVE RowInv'
  BY <1>7 DEF InsertFails, tables, RowInv, UidsUnique
<1>8. ASSUME NEW q \in Reqs, Commit(q) PROVE RowInv'
  <2>1. con[q] \in Conns /\ CommitRows(con[q])
    BY <1>8 DEF Commit, At, StoreInv, ConnInv, Steps, RegSteps, PairSteps
  <2>2. pendId[con[q]] = lastId + 1 /\ lastId' = lastId + 1 /\ lastId \in Nat
    BY <1>8, <2>1 DEF Commit, At, CommitRows, CounterInv, StoreInv, TypeOK
  <2>3. ASSUME NEW r \in rows' PROVE r.uid <= lastId + 1
    <3>1. Version(r) \/ Inserted(con[q], r)
      BY <2>1, <2>3, CommitAccounts
    <3>2. CASE Version(r)
      BY <2>2, <3>2 DEF Version, SameAccount, RowInv, StoreInv, TypeOK, Rows
    <3>3. CASE Inserted(con[q], r)
      BY <2>2, <3>3 DEF Inserted, NewRow, CounterInv
    <3> QED
      BY <3>1, <3>2, <3>3
  <2> QED
    BY <2>1, <2>2, <2>3, CommitAccounts DEF RowInv, UidsUnique, UniqueIn
<1>9. ASSUME NEW q \in Reqs, CheckEmail(q) PROVE RowInv'
  BY <1>9 DEF CheckEmail, tables, RowInv, UidsUnique
<1>10. ASSUME NEW q \in Reqs, UpdatePwd(q) PROVE RowInv'
  <2>1. con[q] \in Conns /\ pc[q] = "updating" /\ lastId' = lastId
    BY <1>10 DEF UpdatePwd, At, StoreInv, ConnInv, Steps
  <2>2. rows' = rows \/ rows' = Over(rows, NewVersions(q))
    BY <1>10 DEF UpdatePwd
  <2>3. UniqueIn(Over(rows, NewVersions(q)))
    BY <2>1, VersionsAreVersions, OverUnique DEF RowInv, UidsUnique, UniqueIn
  <2>4. \A r \in Over(rows, NewVersions(q)) : r.uid <= lastId
    BY <2>1, VersionsAreVersions DEF Over, Version, SameAccount, RowInv
  <2> QED
    BY <2>1, <2>2, <2>3, <2>4 DEF RowInv, UidsUnique, UniqueIn
<1>11. ASSUME NEW q \in Reqs, CheckPwd(q) PROVE RowInv'
  BY <1>11 DEF CheckPwd, tables, RowInv, UidsUnique
<1>12. ASSUME NEW q \in Reqs, GetFriend(q) PROVE RowInv'
  BY <1>12 DEF GetFriend, tables, RowInv, UidsUnique
<1>13. ASSUME NEW q \in Reqs, LockFails(q) PROVE RowInv'
  BY <1>13 DEF LockFails, tables, RowInv, UidsUnique
<1>14. ASSUME NEW q \in Reqs, Broken(q) PROVE RowInv'
  BY <1>14 DEF Broken, tables, RowInv, UidsUnique
<1>15. ASSUME NEW q \in Reqs, CommitUnheard(q) PROVE RowInv'
  <2>1. con[q] \in Conns /\ CommitRows(con[q])
    BY <1>15 DEF CommitUnheard, At, StoreInv, ConnInv, Steps, RegSteps, PairSteps
  <2>2. pendId[con[q]] = lastId + 1 /\ lastId' = lastId + 1 /\ lastId \in Nat
    BY <1>15, <2>1 DEF CommitUnheard, At, CommitRows, CounterInv, StoreInv, TypeOK
  <2>3. ASSUME NEW r \in rows' PROVE r.uid <= lastId + 1
    <3>1. Version(r) \/ Inserted(con[q], r)
      BY <2>1, <2>3, CommitAccounts
    <3>2. CASE Version(r)
      BY <2>2, <3>2 DEF Version, SameAccount, RowInv, StoreInv, TypeOK, Rows
    <3>3. CASE Inserted(con[q], r)
      BY <2>2, <3>3 DEF Inserted, NewRow, CounterInv
    <3> QED
      BY <3>1, <3>2, <3>3
  <2> QED
    BY <2>1, <2>2, <2>3, CommitAccounts DEF RowInv, UidsUnique, UniqueIn
<1>16. ASSUME NEW c \in Conns, Reconnect(c) PROVE RowInv'
  BY <1>16 DEF Reconnect, tables, RowInv, UidsUnique
<1>17. ASSUME NEW c \in Conns, ConnectionLost(c) PROVE RowInv'
  BY <1>17 DEF ConnectionLost, tables, RowInv, UidsUnique
<1>18. CASE UNCHANGED vars
  BY <1>18 DEF vars, tables, RowInv, UidsUnique
<1>19. ASSUME NEW q \in Reqs, GetUid(q) PROVE RowInv'
  BY <1>19 DEF GetUid, tables, RowInv, UidsUnique
<1>20. ASSUME NEW q \in Reqs, FindPair(q) PROVE RowInv'
  BY <1>20 DEF FindPair, tables, RowInv, UidsUnique
<1>21. ASSUME NEW q \in Reqs, InsertFriend(q) PROVE RowInv'
  BY <1>21 DEF InsertFriend, RowInv, UidsUnique
<1>22. ASSUME NEW q \in Reqs, InsertFriendFails(q) PROVE RowInv'
  BY <1>22 DEF InsertFriendFails, tables, RowInv, UidsUnique
<1>23. ASSUME GhostEnds PROVE RowInv'
  BY <1>23 DEF GhostEnds, tables, RowInv, UidsUnique
<1> QED
  BY <1>1, <1>2, <1>3, <1>4, <1>5, <1>6, <1>7, <1>8, <1>9, <1>10, <1>11, <1>12,
     <1>13, <1>14, <1>15, <1>16, <1>17, <1>18, <1>19, <1>20, <1>21, <1>22, <1>23
  DEF Next, Handle

\* setAutoCommit(false) comes before everything that is to be committed together.
LEMMA ModeStep ==
  ASSUME StoreInv, ModeInv, [Next]_vars
  PROVE  ModeInv'
<1> USE StoreAssumption
<1>1. ASSUME NEW q \in Reqs, Arrive(q) PROVE ModeInv'
  BY <1>1 DEF Arrive, sessions, ModeInv, FirstCall, Kinds, HttpKinds
<1>2. ASSUME NEW q \in Reqs, GetConnection(q) PROVE ModeInv'
  <2>1. UNCHANGED auto
    BY <1>2 DEF GetConnection, sessions
  <2>2. \A p \in Reqs : pc'[p] \in {"name", "id", "insert", "commit"} =>
          pc'[p] = pc[p] /\ con'[p] = con[p]
    BY <1>2, Borrow DEF StoreInv, TypeOK
  <2> QED
    BY <2>1, <2>2 DEF ModeInv
<1>3. ASSUME NEW q \in Reqs, SelectEmail(q) PROVE ModeInv'
  BY <1>3
  DEF SelectEmail, Return, Go, At, ModeInv, StoreInv, ConnInv, TypeOK, Steps, RegSteps,
      PairSteps
<1>4. ASSUME NEW q \in Reqs, SelectName(q) PROVE ModeInv'
  BY <1>4 DEF SelectName, Return, Go, At, ModeInv, StoreInv, TypeOK
<1>5. ASSUME NEW q \in Reqs, TakeId(q) PROVE ModeInv'
  BY <1>5 DEF TakeId, Go, At, ModeInv
<1>6. ASSUME NEW q \in Reqs, InsertUser(q) PROVE ModeInv'
  BY <1>6 DEF InsertUser, Go, At, ModeInv
<1>7. ASSUME NEW q \in Reqs, InsertFails(q) PROVE ModeInv'
  BY <1>7 DEF InsertFails, Return, ModeInv, StoreInv, TypeOK
<1>8. ASSUME NEW q \in Reqs, Commit(q) PROVE ModeInv'
  BY <1>8 DEF Commit, Return, ModeInv, StoreInv, TypeOK
<1>9. ASSUME NEW q \in Reqs, CheckEmail(q) PROVE ModeInv'
  BY <1>9 DEF CheckEmail, Return, ModeInv, StoreInv, TypeOK
<1>10. ASSUME NEW q \in Reqs, UpdatePwd(q) PROVE ModeInv'
  BY <1>10 DEF UpdatePwd, Return, At, ModeInv
<1>11. ASSUME NEW q \in Reqs, CheckPwd(q) PROVE ModeInv'
  BY <1>11 DEF CheckPwd, Return, ModeInv, StoreInv, TypeOK
<1>12. ASSUME NEW q \in Reqs, GetFriend(q) PROVE ModeInv'
  BY <1>12 DEF GetFriend, Return, At, ModeInv
<1>13. ASSUME NEW q \in Reqs, LockFails(q) PROVE ModeInv'
  BY <1>13 DEF LockFails, Return, ModeInv, StoreInv, TypeOK
<1>14. ASSUME NEW q \in Reqs, Broken(q) PROVE ModeInv'
  BY <1>14 DEF Broken, sessions, Return, ModeInv, StoreInv, TypeOK
<1>15. ASSUME NEW q \in Reqs, CommitUnheard(q) PROVE ModeInv'
  BY <1>15 DEF CommitUnheard, ModeInv
<1>16. ASSUME NEW c \in Conns, Reconnect(c) PROVE ModeInv'
  BY <1>16 DEF Reconnect, ModeInv, StoreInv, ConnInv
<1>17. ASSUME NEW c \in Conns, ConnectionLost(c) PROVE ModeInv'
  BY <1>17 DEF ConnectionLost, ModeInv
<1>18. CASE UNCHANGED vars
  BY <1>18 DEF vars, sessions, ModeInv
<1>19. ASSUME NEW q \in Reqs, GetUid(q) PROVE ModeInv'
  BY <1>19 DEF GetUid, Return, ModeInv, StoreInv, TypeOK
<1>20. ASSUME NEW q \in Reqs, FindPair(q) PROVE ModeInv'
  BY <1>20 DEF FindPair, Return, Go, ModeInv, StoreInv, TypeOK
<1>21. ASSUME NEW q \in Reqs, InsertFriend(q) PROVE ModeInv'
  BY <1>21 DEF InsertFriend, Return, Go, ModeInv, StoreInv, TypeOK
<1>22. ASSUME NEW q \in Reqs, InsertFriendFails(q) PROVE ModeInv'
  BY <1>22 DEF InsertFriendFails, Return, ModeInv, StoreInv, TypeOK
<1>23. ASSUME GhostEnds PROVE ModeInv'
  BY <1>23 DEF GhostEnds, ModeInv
<1> QED
  BY <1>1, <1>2, <1>3, <1>4, <1>5, <1>6, <1>7, <1>8, <1>9, <1>10, <1>11, <1>12,
     <1>13, <1>14, <1>15, <1>16, <1>17, <1>18, <1>19, <1>20, <1>21, <1>22, <1>23
  DEF Next, Handle

\* A step that changes no account and adds to no transaction.
LEMMA PendKept ==
  ASSUME PendInv,
         \A r \in rows : \E s \in rows' : SameAccount(r, s),
         \A c \in Conns : pend'[c] = {} \/ (pend'[c] = pend[c]
                                           /\ (auto'[c] \/ ~live'[c] => auto[c] \/ ~live[c])),
         \A p \in Reqs, c \in Conns :
           (pc[p] = "commit" /\ con[p] = c /\ live[c] /\ pend'[c] # {}) =>
             /\ pc'[p] = "commit" /\ con'[p] = c /\ live'[c]
             /\ newId'[p] = newId[p] /\ req'[p] = req[p]
  PROVE  PendInv'
<1>1. \A c \in Conns : auto'[c] \/ ~live'[c] => pend'[c] = {}
  BY DEF PendInv
<1>2. \A c \in Conns : UniqueIn(pend'[c])
  BY DEF PendInv, UniqueIn
<1>3. ASSUME NEW c \in Conns, NEW r \in pend'[c]
      PROVE  Version(r)' \/ Inserted(c, r)'
  <2>1. pend'[c] = pend[c] /\ r \in pend[c]
    BY <1>3
  <2>2. CASE Version(r)
    BY <2>2 DEF Version, SameAccount
  <2>3. CASE Inserted(c, r)
    BY <1>3, <2>1, <2>3 DEF Inserted, NewRow
  <2> QED
    BY <2>1, <2>2, <2>3 DEF PendInv
<1> QED
  BY <1>1, <1>2, <1>3 DEF PendInv

\* Nobody changes an account.
LEMMA RowsKept ==
  ASSUME NEW t, rows' = t, t = rows
  PROVE  \A r \in rows : \E s \in rows' : SameAccount(r, s)
  BY DEF SameAccount

\* What is not committed is a new version of an account or the next account.
LEMMA PendStep ==
  ASSUME StoreInv, CounterInv, PendInv, RowInv, ModeInv, [Next]_vars
  PROVE  PendInv'
<1> USE StoreAssumption
<1>1. ASSUME NEW q \in Reqs, Arrive(q) PROVE PendInv'
  <2>1. \A r \in rows : \E s \in rows' : SameAccount(r, s)
    BY <1>1 DEF Arrive, SameAccount, tables
  <2>2. \A d \in Conns : pend'[d] = {} \/ (pend'[d] = pend[d]
                                           /\ (auto'[d] \/ ~live'[d] => auto[d] \/ ~live[d]))
    BY <1>1 DEF Arrive, sessions
  <2>3. \A p \in Reqs, d \in Conns :
           (pc[p] = "commit" /\ con[p] = d /\ live[d] /\ pend'[d] # {}) =>
             /\ pc'[p] = "commit" /\ con'[p] = d /\ live'[d]
             /\ newId'[p] = newId[p] /\ req'[p] = req[p]
    BY <1>1 DEF Arrive, sessions
  <2> QED
    BY <2>1, <2>2, <2>3, PendKept
<1>2. ASSUME NEW q \in Reqs, GetConnection(q) PROVE PendInv'
  <2>1. \A r \in rows : \E s \in rows' : SameAccount(r, s)
    BY <1>2 DEF GetConnection, SameAccount, tables
  <2>2. \A d \in Conns : pend'[d] = {} \/ (pend'[d] = pend[d]
                                           /\ (auto'[d] \/ ~live'[d] => auto[d] \/ ~live[d]))
    BY <1>2 DEF GetConnection, sessions
  <2>3. \A p \in Reqs, d \in Conns :
           (pc[p] = "commit" /\ con[p] = d /\ live[d] /\ pend'[d] # {}) =>
             /\ pc'[p] = "commit" /\ con'[p] = d /\ live'[d]
             /\ newId'[p] = newId[p] /\ req'[p] = req[p]
    BY <1>2, Borrow DEF GetConnection, sessions, Waiting, StoreInv, TypeOK
  <2> QED
    BY <2>1, <2>2, <2>3, PendKept
<1>3. ASSUME NEW q \in Reqs, SelectEmail(q) PROVE PendInv'
  <2>1. \A r \in rows : \E s \in rows' : SameAccount(r, s)
    BY <1>3 DEF SelectEmail, SameAccount, tables
  <2>2. \A d \in Conns : pend'[d] = {} \/ (pend'[d] = pend[d]
                                           /\ (auto'[d] \/ ~live'[d] => auto[d] \/ ~live[d]))
    BY <1>3 DEF SelectEmail, EndTransaction, StoreInv, TypeOK
  <2>3. \A p \in Reqs, d \in Conns :
           (pc[p] = "commit" /\ con[p] = d /\ live[d] /\ pend'[d] # {}) =>
             /\ pc'[p] = "commit" /\ con'[p] = d /\ live'[d]
             /\ newId'[p] = newId[p] /\ req'[p] = req[p]
    BY <1>3 DEF SelectEmail, Return, Go, At, StoreInv, TypeOK
  <2> QED
    BY <2>1, <2>2, <2>3, PendKept
<1>4. ASSUME NEW q \in Reqs, SelectName(q) PROVE PendInv'
  <2>1. \A r \in rows : \E s \in rows' : SameAccount(r, s)
    BY <1>4 DEF SelectName, SameAccount, tables
  <2>2. \A d \in Conns : pend'[d] = {} \/ (pend'[d] = pend[d]
                                           /\ (auto'[d] \/ ~live'[d] => auto[d] \/ ~live[d]))
    BY <1>4 DEF SelectName, EndTransaction, StoreInv, TypeOK
  <2>3. \A p \in Reqs, d \in Conns :
           (pc[p] = "commit" /\ con[p] = d /\ live[d] /\ pend'[d] # {}) =>
             /\ pc'[p] = "commit" /\ con'[p] = d /\ live'[d]
             /\ newId'[p] = newId[p] /\ req'[p] = req[p]
    BY <1>4 DEF SelectName, Return, Go, At, StoreInv, TypeOK
  <2> QED
    BY <2>1, <2>2, <2>3, PendKept
<1>5. ASSUME NEW q \in Reqs, TakeId(q) PROVE PendInv'
  <2>1. \A r \in rows : \E s \in rows' : SameAccount(r, s)
    BY <1>5 DEF TakeId, SameAccount, tables
  <2>2. \A d \in Conns : pend'[d] = {} \/ (pend'[d] = pend[d]
                                           /\ (auto'[d] \/ ~live'[d] => auto[d] \/ ~live[d]))
    BY <1>5 DEF TakeId
  <2>3. \A p \in Reqs, d \in Conns :
           (pc[p] = "commit" /\ con[p] = d /\ live[d] /\ pend'[d] # {}) =>
             /\ pc'[p] = "commit" /\ con'[p] = d /\ live'[d]
             /\ newId'[p] = newId[p] /\ req'[p] = req[p]
    BY <1>5 DEF TakeId, Go, At
  <2> QED
    BY <2>1, <2>2, <2>3, PendKept
<1>6. ASSUME NEW q \in Reqs, InsertUser(q) PROVE PendInv'
  <2>1. con[q] \in Conns /\ ~auto[con[q]]
    BY <1>6 DEF InsertUser, At, ModeInv, StoreInv, ConnInv, Steps, RegSteps, PairSteps
  <2>2. \A p \in Reqs : con[p] = con[q] => p = q
    BY <2>1 DEF StoreInv, ConnInv
  <2>3. \A r \in pend[con[q]] : Version(r) /\ r.uid # NewRow(q).uid
    <3>1. \A r \in pend[con[q]] : Version(r)
      BY <1>6, <2>1, <2>2 DEF InsertUser, At, PendInv, Inserted
    <3>2. NewRow(q).uid = lastId + 1 /\ lastId \in Nat
      BY <1>6
      DEF InsertUser, At, NewRow, CounterInv, StoreInv, TypeOK, ConnInv, Steps, RegSteps,
          PairSteps
    <3> QED
      BY <3>1, <3>2 DEF Version, SameAccount, RowInv
  <2>4. /\ pend' = [pend EXCEPT ![con[q]] = @ \cup {NewRow(q)}]
        /\ pc' = [pc EXCEPT ![q] = "commit"]
        /\ live[con[q]] = TRUE /\ pc[q] = "insert"
        /\ UNCHANGED <<rows, auto, con, live, newId, req>>
    BY <1>6 DEF InsertUser, At, Go, tables
  <2>5. \A c \in Conns : auto'[c] \/ ~live'[c] => pend'[c] = {}
    BY <2>1, <2>4 DEF PendInv
  <2>6. \A c \in Conns : UniqueIn(pend'[c])
    BY <2>1, <2>3, <2>4 DEF PendInv, UniqueIn
  <2>7. ASSUME NEW c \in Conns, NEW r \in pend'[c]
        PROVE  Version(r)' \/ Inserted(c, r)'
    <3>1. CASE Version(r)
      BY <3>1, <2>4 DEF Version
    <3>2. CASE r \in pend[c] /\ Inserted(c, r)
      BY <3>2, <2>4 DEF Inserted, NewRow
    <3>3. CASE c = con[q] /\ r = NewRow(q)
      BY <3>3, <2>1, <2>4 DEF Inserted, NewRow, StoreInv, TypeOK
    <3> QED
      BY <2>1, <2>4, <2>7, <3>1, <3>2, <3>3 DEF PendInv
  <2> QED
    BY <2>5, <2>6, <2>7 DEF PendInv
<1>7. ASSUME NEW q \in Reqs, InsertFails(q) PROVE PendInv'
  <2>1. \A r \in rows : \E s \in rows' : SameAccount(r, s)
    BY <1>7 DEF InsertFails, SameAccount, tables
  <2>2. \A d \in Conns : pend'[d] = {} \/ (pend'[d] = pend[d]
                                           /\ (auto'[d] \/ ~live'[d] => auto[d] \/ ~live[d]))
    BY <1>7 DEF InsertFails, EndTransaction
  <2>3. \A p \in Reqs, d \in Conns :
           (pc[p] = "commit" /\ con[p] = d /\ live[d] /\ pend'[d] # {}) =>
             /\ pc'[p] = "commit" /\ con'[p] = d /\ live'[d]
             /\ newId'[p] = newId[p] /\ req'[p] = req[p]
    BY <1>7 DEF InsertFails, Return, At
  <2> QED
    BY <2>1, <2>2, <2>3, PendKept
<1>8. ASSUME NEW q \in Reqs, Commit(q) PROVE PendInv'
  <2>1. \A r \in rows : \E s \in rows' : SameAccount(r, s)
    BY <1>8, CommitAccounts
    DEF Commit, At, StoreInv, ConnInv, Steps, RegSteps, PairSteps
  <2>2. \A d \in Conns : pend'[d] = {} \/ (pend'[d] = pend[d]
                                           /\ (auto'[d] \/ ~live'[d] => auto[d] \/ ~live[d]))
    BY <1>8 DEF Commit, CommitRows, EndTransaction
  <2>3. \A p \in Reqs, d \in Conns :
           (pc[p] = "commit" /\ con[p] = d /\ live[d] /\ pend'[d] # {}) =>
             /\ pc'[p] = "commit" /\ con'[p] = d /\ live'[d]
             /\ newId'[p] = newId[p] /\ req'[p] = req[p]
    BY <1>8 DEF Commit, CommitRows, Return, EndTransaction, StoreInv, TypeOK
  <2> QED
    BY <2>1, <2>2, <2>3, PendKept
<1>9. ASSUME NEW q \in Reqs, CheckEmail(q) PROVE PendInv'
  <2>1. \A r \in rows : \E s \in rows' : SameAccount(r, s)
    BY <1>9 DEF CheckEmail, SameAccount, tables
  <2>2. \A d \in Conns : pend'[d] = {} \/ (pend'[d] = pend[d]
                                           /\ (auto'[d] \/ ~live'[d] => auto[d] \/ ~live[d]))
    BY <1>9 DEF CheckEmail, EndTransaction, StoreInv, TypeOK
  <2>3. \A p \in Reqs, d \in Conns :
           (pc[p] = "commit" /\ con[p] = d /\ live[d] /\ pend'[d] # {}) =>
             /\ pc'[p] = "commit" /\ con'[p] = d /\ live'[d]
             /\ newId'[p] = newId[p] /\ req'[p] = req[p]
    BY <1>9 DEF CheckEmail, Return, At, StoreInv, TypeOK
  <2> QED
    BY <2>1, <2>2, <2>3, PendKept
<1>10. ASSUME NEW q \in Reqs, UpdatePwd(q) PROVE PendInv'
  <2>1. con[q] \in Conns /\ pc[q] = "updating" /\ live[con[q]]
    BY <1>10 DEF UpdatePwd, At, StoreInv, ConnInv, Steps
  <2>2. \A p \in Reqs : pc[p] = "commit" =>
          pc'[p] = "commit" /\ con'[p] = con[p] /\ con[p] # con[q]
    BY <1>10, <2>1, StoreAssumption
       DEF UpdatePwd, Return, StoreInv, TypeOK, ConnInv, StoreAssumption
  <2>3. UNCHANGED <<auto, live, newId, req>>
    BY <1>10 DEF UpdatePwd
  <2>4. CASE auto[con[q]]
    <3>1. UNCHANGED pend /\ rows' = Over(rows, NewVersions(q))
      BY <1>10, <2>4 DEF UpdatePwd
    <3>2. \A r \in rows : \E s \in rows' : SameAccount(r, s)
      BY <3>1, OverKeeps
    <3> QED
      BY <2>2, <2>3, <3>1, <3>2, PendKept
  <2>5. CASE ~auto[con[q]]
    <3>1. rows' = rows /\ pend' = [pend EXCEPT ![con[q]] = Over(@, NewVersions(q))]
      BY <1>10, <2>5 DEF UpdatePwd
    <3>2. \A c \in Conns : auto'[c] \/ ~live'[c] => pend'[c] = {}
      BY <2>1, <2>3, <2>5, <3>1 DEF PendInv
    <3>3. UniqueIn(Over(pend[con[q]], NewVersions(q)))
      BY <2>1, VersionsAreVersions, OverUnique DEF PendInv
    <3>4. \A c \in Conns : UniqueIn(pend'[c])
      BY <2>1, <3>1, <3>3 DEF PendInv
    <3>5. ASSUME NEW c \in Conns, NEW r \in pend'[c]
          PROVE  Version(r)' \/ Inserted(c, r)'
      <4>1. CASE c = con[q]
        BY <2>1, <3>1, <3>5, <4>1, VersionsAreVersions DEF Over, Version
      <4>2. CASE c # con[q]
        <5>1. r \in pend[c]
          BY <2>1, <3>1, <3>5, <4>2
        <5>2. CASE Version(r)
          BY <5>2, <3>1 DEF Version
        <5>3. CASE Inserted(c, r)
          BY <5>3, <2>2, <2>3 DEF Inserted, NewRow
        <5> QED
          BY <5>1, <5>2, <5>3 DEF PendInv
      <4> QED
        BY <4>1, <4>2
    <3> QED
      BY <3>2, <3>4, <3>5 DEF PendInv
  <2> QED
    BY <2>4, <2>5
<1>11. ASSUME NEW q \in Reqs, CheckPwd(q) PROVE PendInv'
  <2>1. \A r \in rows : \E s \in rows' : SameAccount(r, s)
    BY <1>11 DEF CheckPwd, SameAccount, tables
  <2>2. \A d \in Conns : pend'[d] = {} \/ (pend'[d] = pend[d]
                                           /\ (auto'[d] \/ ~live'[d] => auto[d] \/ ~live[d]))
    BY <1>11 DEF CheckPwd
  <2>3. \A p \in Reqs, d \in Conns :
           (pc[p] = "commit" /\ con[p] = d /\ live[d] /\ pend'[d] # {}) =>
             /\ pc'[p] = "commit" /\ con'[p] = d /\ live'[d]
             /\ newId'[p] = newId[p] /\ req'[p] = req[p]
    BY <1>11 DEF CheckPwd, Return, At, StoreInv, TypeOK
  <2> QED
    BY <2>1, <2>2, <2>3, PendKept
<1>12. ASSUME NEW q \in Reqs, GetFriend(q) PROVE PendInv'
  <2>1. \A r \in rows : \E s \in rows' : SameAccount(r, s)
    BY <1>12 DEF GetFriend, SameAccount, tables
  <2>2. \A d \in Conns : pend'[d] = {} \/ (pend'[d] = pend[d]
                                           /\ (auto'[d] \/ ~live'[d] => auto[d] \/ ~live[d]))
    BY <1>12 DEF GetFriend
  <2>3. \A p \in Reqs, d \in Conns :
           (pc[p] = "commit" /\ con[p] = d /\ live[d] /\ pend'[d] # {}) =>
             /\ pc'[p] = "commit" /\ con'[p] = d /\ live'[d]
             /\ newId'[p] = newId[p] /\ req'[p] = req[p]
    BY <1>12 DEF GetFriend, Return, At
  <2> QED
    BY <2>1, <2>2, <2>3, PendKept
<1>13. ASSUME NEW q \in Reqs, LockFails(q) PROVE PendInv'
  <2>1. \A r \in rows : \E s \in rows' : SameAccount(r, s)
    BY <1>13 DEF LockFails, SameAccount, tables
  <2>2. \A d \in Conns : pend'[d] = {} \/ (pend'[d] = pend[d]
                                           /\ (auto'[d] \/ ~live'[d] => auto[d] \/ ~live[d]))
    BY <1>13 DEF LockFails, EndTransaction, StoreInv, TypeOK
  <2>3. \A p \in Reqs, d \in Conns :
           (pc[p] = "commit" /\ con[p] = d /\ live[d] /\ pend'[d] # {}) =>
             /\ pc'[p] = "commit" /\ con'[p] = d /\ live'[d]
             /\ newId'[p] = newId[p] /\ req'[p] = req[p]
    BY <1>13 DEF LockFails, Return, At
  <2> QED
    BY <2>1, <2>2, <2>3, PendKept
<1>14. ASSUME NEW q \in Reqs, Broken(q) PROVE PendInv'
  <2>1. \A r \in rows : \E s \in rows' : SameAccount(r, s)
    BY <1>14 DEF Broken, SameAccount, tables
  <2>2. \A d \in Conns : pend'[d] = {} \/ (pend'[d] = pend[d]
                                           /\ (auto'[d] \/ ~live'[d] => auto[d] \/ ~live[d]))
    BY <1>14 DEF Broken, sessions
  <2>3. \A p \in Reqs, d \in Conns :
           (pc[p] = "commit" /\ con[p] = d /\ live[d] /\ pend'[d] # {}) =>
             /\ pc'[p] = "commit" /\ con'[p] = d /\ live'[d]
             /\ newId'[p] = newId[p] /\ req'[p] = req[p]
    BY <1>14 DEF Broken, sessions, Return
  <2> QED
    BY <2>1, <2>2, <2>3, PendKept
<1>15. ASSUME NEW q \in Reqs, CommitUnheard(q) PROVE PendInv'
  <2>1. \A r \in rows : \E s \in rows' : SameAccount(r, s)
    BY <1>15, CommitAccounts
    DEF CommitUnheard, At, StoreInv, ConnInv, Steps, RegSteps, PairSteps
  <2>2. \A d \in Conns : pend'[d] = {} \/ (pend'[d] = pend[d]
                                           /\ (auto'[d] \/ ~live'[d] => auto[d] \/ ~live[d]))
    BY <1>15 DEF CommitUnheard, CommitRows, EndTransaction, StoreInv, TypeOK
  <2>3. \A p \in Reqs, d \in Conns :
           (pc[p] = "commit" /\ con[p] = d /\ live[d] /\ pend'[d] # {}) =>
             /\ pc'[p] = "commit" /\ con'[p] = d /\ live'[d]
             /\ newId'[p] = newId[p] /\ req'[p] = req[p]
    BY <1>15 DEF CommitUnheard, CommitRows, EndTransaction, StoreInv, TypeOK
  <2> QED
    BY <2>1, <2>2, <2>3, PendKept
<1>16. ASSUME NEW c \in Conns, Reconnect(c) PROVE PendInv'
  <2>1. \A r \in rows : \E s \in rows' : SameAccount(r, s)
    BY <1>16 DEF Reconnect, SameAccount, tables
  <2>2. \A d \in Conns : pend'[d] = {} \/ (pend'[d] = pend[d]
                                           /\ (auto'[d] \/ ~live'[d] => auto[d] \/ ~live[d]))
    BY <1>16 DEF Reconnect
  <2>3. \A p \in Reqs, d \in Conns :
           (pc[p] = "commit" /\ con[p] = d /\ live[d] /\ pend'[d] # {}) =>
             /\ pc'[p] = "commit" /\ con'[p] = d /\ live'[d]
             /\ newId'[p] = newId[p] /\ req'[p] = req[p]
    BY <1>16 DEF Reconnect
  <2> QED
    BY <2>1, <2>2, <2>3, PendKept
<1>17. ASSUME NEW c \in Conns, ConnectionLost(c) PROVE PendInv'
  <2>1. \A r \in rows : \E s \in rows' : SameAccount(r, s)
    BY <1>17 DEF ConnectionLost, SameAccount, tables
  <2>2. \A d \in Conns : pend'[d] = {} \/ (pend'[d] = pend[d]
                                           /\ (auto'[d] \/ ~live'[d] => auto[d] \/ ~live[d]))
    BY <1>17 DEF ConnectionLost, EndTransaction, StoreInv, TypeOK
  <2>3. \A p \in Reqs, d \in Conns :
           (pc[p] = "commit" /\ con[p] = d /\ live[d] /\ pend'[d] # {}) =>
             /\ pc'[p] = "commit" /\ con'[p] = d /\ live'[d]
             /\ newId'[p] = newId[p] /\ req'[p] = req[p]
    BY <1>17 DEF ConnectionLost, EndTransaction, StoreInv, TypeOK
  <2> QED
    BY <2>1, <2>2, <2>3, PendKept
<1>18. CASE UNCHANGED vars
  BY <1>18 DEF vars, tables, sessions, PendInv, Version, Inserted, NewRow
<1>19. ASSUME NEW q \in Reqs, GetUid(q) PROVE PendInv'
  <2>1. \A r \in rows : \E s \in rows' : SameAccount(r, s)
    BY <1>19 DEF GetUid, SameAccount, tables
  <2>2. \A d \in Conns : pend'[d] = {} \/ (pend'[d] = pend[d]
                                           /\ (auto'[d] \/ ~live'[d] => auto[d] \/ ~live[d]))
    BY <1>19 DEF GetUid
  <2>3. \A p \in Reqs, d \in Conns :
           (pc[p] = "commit" /\ con[p] = d /\ live[d] /\ pend'[d] # {}) =>
             /\ pc'[p] = "commit" /\ con'[p] = d /\ live'[d]
             /\ newId'[p] = newId[p] /\ req'[p] = req[p]
    BY <1>19 DEF GetUid, Return, At, StoreInv, TypeOK
  <2> QED
    BY <2>1, <2>2, <2>3, PendKept
<1>20. ASSUME NEW q \in Reqs, FindPair(q) PROVE PendInv'
  <2>1. \A r \in rows : \E s \in rows' : SameAccount(r, s)
    BY <1>20 DEF FindPair, SameAccount, tables
  <2>2. \A d \in Conns : pend'[d] = {} \/ (pend'[d] = pend[d]
                                           /\ (auto'[d] \/ ~live'[d] => auto[d] \/ ~live[d]))
    BY <1>20 DEF FindPair
  <2>3. \A p \in Reqs, d \in Conns :
           (pc[p] = "commit" /\ con[p] = d /\ live[d] /\ pend'[d] # {}) =>
             /\ pc'[p] = "commit" /\ con'[p] = d /\ live'[d]
             /\ newId'[p] = newId[p] /\ req'[p] = req[p]
    BY <1>20 DEF FindPair, Return, Go, At, StoreInv, TypeOK
  <2> QED
    BY <2>1, <2>2, <2>3, PendKept
<1>21. ASSUME NEW q \in Reqs, InsertFriend(q) PROVE PendInv'
  <2>1. \A r \in rows : \E s \in rows' : SameAccount(r, s)
    BY <1>21 DEF InsertFriend, SameAccount
  <2>2. \A d \in Conns : pend'[d] = {} \/ (pend'[d] = pend[d]
                                           /\ (auto'[d] \/ ~live'[d] => auto[d] \/ ~live[d]))
    BY <1>21 DEF InsertFriend
  <2>3. \A p \in Reqs, d \in Conns :
           (pc[p] = "commit" /\ con[p] = d /\ live[d] /\ pend'[d] # {}) =>
             /\ pc'[p] = "commit" /\ con'[p] = d /\ live'[d]
             /\ newId'[p] = newId[p] /\ req'[p] = req[p]
    BY <1>21 DEF InsertFriend, Return, Go, At, StoreInv, TypeOK
  <2> QED
    BY <2>1, <2>2, <2>3, PendKept
<1>22. ASSUME NEW q \in Reqs, InsertFriendFails(q) PROVE PendInv'
  <2>1. \A r \in rows : \E s \in rows' : SameAccount(r, s)
    BY <1>22 DEF InsertFriendFails, SameAccount, tables
  <2>2. \A d \in Conns : pend'[d] = {} \/ (pend'[d] = pend[d]
                                           /\ (auto'[d] \/ ~live'[d] => auto[d] \/ ~live[d]))
    BY <1>22 DEF InsertFriendFails, EndTransaction, StoreInv, TypeOK
  <2>3. \A p \in Reqs, d \in Conns :
           (pc[p] = "commit" /\ con[p] = d /\ live[d] /\ pend'[d] # {}) =>
             /\ pc'[p] = "commit" /\ con'[p] = d /\ live'[d]
             /\ newId'[p] = newId[p] /\ req'[p] = req[p]
    BY <1>22 DEF InsertFriendFails, Return, At, StoreInv, TypeOK
  <2> QED
    BY <2>1, <2>2, <2>3, PendKept
<1>23. ASSUME GhostEnds PROVE PendInv'
  <2>1. \A r \in rows : \E s \in rows' : SameAccount(r, s)
    BY <1>23 DEF GhostEnds, SameAccount, tables
  <2>2. \A d \in Conns : pend'[d] = {} \/ (pend'[d] = pend[d]
                                           /\ (auto'[d] \/ ~live'[d] => auto[d] \/ ~live[d]))
    BY <1>23 DEF GhostEnds
  <2>3. \A p \in Reqs, d \in Conns :
           (pc[p] = "commit" /\ con[p] = d /\ live[d] /\ pend'[d] # {}) =>
             /\ pc'[p] = "commit" /\ con'[p] = d /\ live'[d]
             /\ newId'[p] = newId[p] /\ req'[p] = req[p]
    BY <1>23 DEF GhostEnds
  <2> QED
    BY <2>1, <2>2, <2>3, PendKept
<1> QED
  BY <1>1, <1>2, <1>3, <1>4, <1>5, <1>6, <1>7, <1>8, <1>9, <1>10, <1>11, <1>12,
     <1>13, <1>14, <1>15, <1>16, <1>17, <1>18, <1>19, <1>20, <1>21, <1>22, <1>23
  DEF Next, Handle

-----------------------------------------------------------------------------
(* Registrations                                                           *)

\* No account is lost or renamed.
LEMMA AccountsKept ==
  ASSUME StoreInv, CounterInv, PendInv, RowInv, [Next]_vars
  PROVE  \A r \in rows : \E s \in rows' : SameAccount(r, s)
<1> DEFINE Kept == \A r \in rows : \E s \in rows' : SameAccount(r, s)
<1>1. CASE rows' = rows
  BY <1>1 DEF SameAccount
<1>2. ASSUME NEW q \in Reqs, Commit(q) \/ CommitUnheard(q) PROVE Kept
  <2>1. con[q] \in Conns /\ CommitRows(con[q])
    BY <1>2 DEF Commit, CommitUnheard, At, StoreInv, ConnInv, Steps, RegSteps, PairSteps
  <2> QED
    BY <2>1, CommitAccounts
<1>3. ASSUME NEW q \in Reqs, UpdatePwd(q) PROVE Kept
  <2>1. rows' = rows \/ rows' = Over(rows, NewVersions(q))
    BY <1>3 DEF UpdatePwd
  <2> QED
    BY <1>1, <2>1, OverKeeps
<1>4. ASSUME rows' # rows
      PROVE  \E q \in Reqs : Commit(q) \/ CommitUnheard(q) \/ UpdatePwd(q)
  BY <1>4 DEF Next, Handle, Arrive, GetConnection, SelectEmail, SelectName, TakeId,
       InsertUser, InsertFails, CheckEmail, CheckPwd, GetFriend, GetUid, FindPair,
       InsertFriend, InsertFriendFails, LockFails, Broken, Reconnect, ConnectionLost,
       GhostEnds, vars, tables
<1> QED
  BY <1>1, <1>2, <1>3, <1>4

\* The kinds of request that can be inside each function of the DAO.
KindInv ==
  \A q \in Reqs :
    /\ pc[q] \in {"CheckEmail", "checking", "UpdatePwd", "updating"} => req[q].kind = "reset"
    /\ pc[q] \in {"CheckPwd", "password", "GetFriend", "friends"} => req[q].kind = "login"
    /\ pc[q] \in {"GetUid", "uid"} => req[q].kind \in {"chat", "friend"}
    /\ pc[q] \in {"loadFriend"} \cup PairSteps => req[q].kind = "friend"

\* A request stays in the functions of its kind.
LEMMA KindStep ==
  ASSUME StoreInv, KindInv, [Next]_vars
  PROVE  KindInv'
<1> USE StoreAssumption
<1>1. ASSUME NEW q \in Reqs, Arrive(q) PROVE KindInv'
  BY <1>1 DEF Arrive, KindInv, PairSteps, StoreInv, TypeOK, FirstCall, Kinds, HttpKinds
<1>2. ASSUME NEW q \in Reqs, GetConnection(q) PROVE KindInv'
  BY <1>2 DEF GetConnection, FirstStep, KindInv, PairSteps, Waiting
<1>3. ASSUME NEW q \in Reqs, SelectEmail(q) PROVE KindInv'
  BY <1>3 DEF SelectEmail, Return, Go, KindInv, PairSteps, StoreInv, TypeOK
<1>4. ASSUME NEW q \in Reqs, SelectName(q) PROVE KindInv'
  BY <1>4 DEF SelectName, Return, Go, KindInv, PairSteps, StoreInv, TypeOK
<1>5. ASSUME NEW q \in Reqs, TakeId(q) PROVE KindInv'
  BY <1>5 DEF TakeId, Go, KindInv, PairSteps
<1>6. ASSUME NEW q \in Reqs, InsertUser(q) PROVE KindInv'
  BY <1>6 DEF InsertUser, Go, KindInv, PairSteps
<1>7. ASSUME NEW q \in Reqs, InsertFails(q) PROVE KindInv'
  BY <1>7 DEF InsertFails, Return, KindInv, PairSteps
<1>8. ASSUME NEW q \in Reqs, Commit(q) PROVE KindInv'
  BY <1>8 DEF Commit, Return, KindInv, PairSteps
<1>9. ASSUME NEW q \in Reqs, CheckEmail(q) PROVE KindInv'
  BY <1>9 DEF CheckEmail, Return, At, KindInv, PairSteps, StoreInv, TypeOK
<1>10. ASSUME NEW q \in Reqs, UpdatePwd(q) PROVE KindInv'
  BY <1>10 DEF UpdatePwd, Return, KindInv, PairSteps
<1>11. ASSUME NEW q \in Reqs, CheckPwd(q) PROVE KindInv'
  BY <1>11 DEF CheckPwd, Return, At, KindInv, PairSteps, StoreInv, TypeOK
<1>12. ASSUME NEW q \in Reqs, GetFriend(q) PROVE KindInv'
  BY <1>12 DEF GetFriend, Return, KindInv, PairSteps
<1>13. ASSUME NEW q \in Reqs, LockFails(q) PROVE KindInv'
  BY <1>13 DEF LockFails, Return, KindInv, PairSteps
<1>14. ASSUME NEW q \in Reqs, Broken(q) PROVE KindInv'
  BY <1>14 DEF Broken, Return, KindInv, PairSteps
<1>15. ASSUME NEW q \in Reqs, CommitUnheard(q) PROVE KindInv'
  BY <1>15 DEF CommitUnheard, KindInv, PairSteps
<1>16. ASSUME NEW c \in Conns, Reconnect(c) PROVE KindInv'
  BY <1>16 DEF Reconnect, KindInv, PairSteps
<1>17. ASSUME NEW c \in Conns, ConnectionLost(c) PROVE KindInv'
  BY <1>17 DEF ConnectionLost, KindInv, PairSteps
<1>18. CASE UNCHANGED vars
  BY <1>18 DEF vars, KindInv, PairSteps
<1>19. ASSUME NEW q \in Reqs, GetUid(q) PROVE KindInv'
  BY <1>19 DEF GetUid, Return, At, KindInv, PairSteps, StoreInv, TypeOK
<1>20. ASSUME NEW q \in Reqs, FindPair(q) PROVE KindInv'
  BY <1>20 DEF FindPair, Return, Go, At, KindInv, PairSteps, StoreInv, TypeOK
<1>21. ASSUME NEW q \in Reqs, InsertFriend(q) PROVE KindInv'
  BY <1>21 DEF InsertFriend, Return, Go, At, KindInv, PairSteps, StoreInv, TypeOK
<1>22. ASSUME NEW q \in Reqs, InsertFriendFails(q) PROVE KindInv'
  BY <1>22 DEF InsertFriendFails, Return, KindInv, PairSteps, StoreInv, TypeOK
<1>23. ASSUME GhostEnds PROVE KindInv'
  BY <1>23 DEF GhostEnds, KindInv, PairSteps
<1> QED
  BY <1>1, <1>2, <1>3, <1>4, <1>5, <1>6, <1>7, <1>8, <1>9, <1>10, <1>11, <1>12,
     <1>13, <1>14, <1>15, <1>16, <1>17, <1>18, <1>19, <1>20, <1>21, <1>22, <1>23
  DEF Next, Handle

\* The row of a registration that is about to commit is in its transaction.
InsertedInv ==
  \A q \in Reqs : pc[q] = "commit" /\ live[con[q]] => NewRow(q) \in pend[con[q]]

\* What a step can do to a request that has its uid, or gets its answer.
Settled(q) ==
  /\ pc[q] # "new" => req'[q] = req[q]
  /\ pc[q] \in {"ok", "commit", "lost"} =>
       pc'[q] \in {"ok", "commit", "lost"} /\ newId'[q] = newId[q]
  /\ pc'[q] = "ok" => /\ pc[q] # "new" /\ newId'[q] = newId[q]
                      /\ pc[q] = "ok" \/ Commit(q) \/ req[q].kind # "register"

\* From the INSERT to the COMMIT the row is kept.
LEMMA InsertedStep ==
  ASSUME StoreInv, InsertedInv, [Next]_vars
  PROVE  InsertedInv'
<1> USE StoreAssumption
<1>1. ASSUME NEW q \in Reqs, Arrive(q) PROVE InsertedInv'
  BY <1>1 DEF Arrive, sessions, NewRow, InsertedInv, FirstCall, Kinds, HttpKinds
<1>2. ASSUME NEW q \in Reqs, GetConnection(q) PROVE InsertedInv'
  <2>1. UNCHANGED <<live, pend, newId, req>>
    BY <1>2 DEF GetConnection, sessions
  <2>2. \A p \in Reqs : pc'[p] = "commit" => pc[p] = "commit" /\ con'[p] = con[p]
    BY <1>2, Borrow DEF StoreInv, TypeOK
  <2> QED
    BY <2>1, <2>2 DEF InsertedInv, NewRow
<1>3. ASSUME NEW q \in Reqs, SelectEmail(q) PROVE InsertedInv'
  BY <1>3
  DEF SelectEmail, Return, Go, EndTransaction, NewRow, InsertedInv, StoreInv, ConnInv,
        TypeOK, Steps, RegSteps, PairSteps
<1>4. ASSUME NEW q \in Reqs, SelectName(q) PROVE InsertedInv'
  BY <1>4
  DEF SelectName, Return, Go, EndTransaction, NewRow, InsertedInv, StoreInv, ConnInv,
        TypeOK, Steps, RegSteps, PairSteps
<1>5. ASSUME NEW q \in Reqs, TakeId(q) PROVE InsertedInv'
  BY <1>5 DEF TakeId, Go, At, NewRow, InsertedInv
<1>6. ASSUME NEW q \in Reqs, InsertUser(q) PROVE InsertedInv'
  BY <1>6
  DEF InsertUser, Go, At, NewRow, InsertedInv, StoreInv, ConnInv, TypeOK, Steps,
        RegSteps, PairSteps
<1>7. ASSUME NEW q \in Reqs, InsertFails(q) PROVE InsertedInv'
  BY <1>7
  DEF InsertFails, Return, EndTransaction, NewRow, InsertedInv, StoreInv, ConnInv,
        TypeOK
<1>8. ASSUME NEW q \in Reqs, Commit(q) PROVE InsertedInv'
  BY <1>8
  DEF Commit, Return, EndTransaction, CommitRows, NewRow, InsertedInv, StoreInv,
        ConnInv, TypeOK
<1>9. ASSUME NEW q \in Reqs, CheckEmail(q) PROVE InsertedInv'
  <2>1. /\ UNCHANGED <<live, newId, req>>
        /\ \A p \in Reqs \ {q} : pc'[p] = pc[p] /\ con'[p] = con[p]
        /\ pc'[q] # "commit" /\ con[q] \in Conns /\ pc[q] = "checking"
    BY <1>9 DEF CheckEmail, Return, At, StoreInv, TypeOK, ConnInv, Steps
  <2>2. \A c \in Conns : c # con[q] => pend'[c] = pend[c]
    BY <1>9, <2>1 DEF CheckEmail, EndTransaction, StoreInv, TypeOK
  <2>3. \A p \in Reqs : pc[p] = "commit" => p # q /\ con[p] \in Conns \ {con[q]}
    BY <2>1, StoreAssumption DEF StoreInv, ConnInv, Steps, RegSteps
  <2> QED
    BY <2>1, <2>2, <2>3 DEF InsertedInv, NewRow
<1>10. ASSUME NEW q \in Reqs, UpdatePwd(q) PROVE InsertedInv'
  <2>1. con[q] \in Conns /\ pc[q] = "updating"
    BY <1>10 DEF UpdatePwd, At, StoreInv, ConnInv, Steps
  <2>2. UNCHANGED <<live, newId, req>>
    BY <1>10 DEF UpdatePwd
  <2>3. \A p \in Reqs : pc'[p] = "commit" =>
          pc[p] = "commit" /\ con'[p] = con[p] /\ con[p] # con[q] /\ con[p] \in Conns
    BY <1>10, <2>1 DEF UpdatePwd, Return, StoreInv, ConnInv, Steps, RegSteps, PairSteps
  <2>4. \A c \in Conns : c # con[q] => pend'[c] = pend[c]
    BY <1>10, <2>1 DEF UpdatePwd, StoreInv, TypeOK
  <2> QED
    BY <2>2, <2>3, <2>4 DEF InsertedInv, NewRow
<1>11. ASSUME NEW q \in Reqs, CheckPwd(q) PROVE InsertedInv'
  BY <1>11 DEF CheckPwd, Return, NewRow, InsertedInv, StoreInv, TypeOK
<1>12. ASSUME NEW q \in Reqs, GetFriend(q) PROVE InsertedInv'
  BY <1>12 DEF GetFriend, Return, At, NewRow, InsertedInv
<1>13. ASSUME NEW q \in Reqs, LockFails(q) PROVE InsertedInv'
  BY <1>13
  DEF LockFails, Return, EndTransaction, NewRow, InsertedInv, StoreInv, ConnInv, TypeOK,
        Steps, RegSteps, PairSteps
<1>14. ASSUME NEW q \in Reqs, Broken(q) PROVE InsertedInv'
  BY <1>14 DEF Broken, sessions, Return, NewRow, InsertedInv, StoreInv, TypeOK
<1>15. ASSUME NEW q \in Reqs, CommitUnheard(q) PROVE InsertedInv'
  BY <1>15
  DEF CommitUnheard, EndTransaction, CommitRows, NewRow, InsertedInv, StoreInv, TypeOK
<1>16. ASSUME NEW c \in Conns, Reconnect(c) PROVE InsertedInv'
  BY <1>16 DEF Reconnect, NewRow, InsertedInv, StoreInv, ConnInv
<1>17. ASSUME NEW c \in Conns, ConnectionLost(c) PROVE InsertedInv'
  BY <1>17 DEF ConnectionLost, EndTransaction, NewRow, InsertedInv, StoreInv, TypeOK
<1>18. CASE UNCHANGED vars
  BY <1>18 DEF vars, sessions, InsertedInv, NewRow
<1>19. ASSUME NEW q \in Reqs, GetUid(q) PROVE InsertedInv'
  BY <1>19 DEF GetUid, Return, NewRow, InsertedInv, StoreInv, TypeOK
<1>20. ASSUME NEW q \in Reqs, FindPair(q) PROVE InsertedInv'
  BY <1>20 DEF FindPair, Return, Go, NewRow, InsertedInv, StoreInv, TypeOK
<1>21. ASSUME NEW q \in Reqs, InsertFriend(q) PROVE InsertedInv'
  BY <1>21 DEF InsertFriend, Return, Go, NewRow, InsertedInv, StoreInv, TypeOK
<1>22. ASSUME NEW q \in Reqs, InsertFriendFails(q) PROVE InsertedInv'
  BY <1>22
  DEF InsertFriendFails, Return, EndTransaction, At, NewRow, InsertedInv, StoreInv, ConnInv,
        TypeOK, Steps, RegSteps, PairSteps
<1>23. ASSUME GhostEnds PROVE InsertedInv'
  BY <1>23 DEF GhostEnds, NewRow, InsertedInv
<1> QED
  BY <1>1, <1>2, <1>3, <1>4, <1>5, <1>6, <1>7, <1>8, <1>9, <1>10, <1>11, <1>12,
     <1>13, <1>14, <1>15, <1>16, <1>17, <1>18, <1>19, <1>20, <1>21, <1>22, <1>23
  DEF Next, Handle

\* A request that has its uid keeps it, and only a commit answers a registration.
LEMMA SettledStep ==
  ASSUME StoreInv, KindInv, [Next]_vars
  PROVE  \A p \in Reqs : Settled(p)
<1> USE StoreAssumption
<1>1. ASSUME NEW q \in Reqs, Arrive(q) PROVE \A p \in Reqs : Settled(p)
  BY <1>1 DEF Arrive, Settled, FirstCall, Kinds, HttpKinds
<1>2. ASSUME NEW q \in Reqs, GetConnection(q) PROVE \A p \in Reqs : Settled(p)
  <2>1. UNCHANGED <<newId, req>>
    BY <1>2 DEF GetConnection
  <2>2. \A p \in Reqs :
          \/ pc'[p] = pc[p]
          \/ pc[p] \in Waiting /\ pc'[p] \in Steps /\ pc'[p] # "commit"
    BY <1>2, Borrow DEF StoreInv, TypeOK, Steps, RegSteps, PairSteps
  <2> QED
    BY <2>1, <2>2 DEF Settled, Waiting, Steps, RegSteps, PairSteps
<1>3. ASSUME NEW q \in Reqs, SelectEmail(q) PROVE \A p \in Reqs : Settled(p)
  BY <1>3 DEF SelectEmail, Settled, Return, Go, At, StoreInv, TypeOK
<1>4. ASSUME NEW q \in Reqs, SelectName(q) PROVE \A p \in Reqs : Settled(p)
  BY <1>4 DEF SelectName, Settled, Return, Go, At, StoreInv, TypeOK
<1>5. ASSUME NEW q \in Reqs, TakeId(q) PROVE \A p \in Reqs : Settled(p)
  BY <1>5 DEF TakeId, Settled, Go, At
<1>6. ASSUME NEW q \in Reqs, InsertUser(q) PROVE \A p \in Reqs : Settled(p)
  BY <1>6 DEF InsertUser, Settled, Go
<1>7. ASSUME NEW q \in Reqs, InsertFails(q) PROVE \A p \in Reqs : Settled(p)
  BY <1>7 DEF InsertFails, Settled, Return, At
<1>8. ASSUME NEW q \in Reqs, Commit(q) PROVE \A p \in Reqs : Settled(p)
  BY <1>8 DEF Commit, Settled, Return, At, StoreInv, TypeOK
<1>9. ASSUME NEW q \in Reqs, CheckEmail(q) PROVE \A p \in Reqs : Settled(p)
  BY <1>9 DEF CheckEmail, Settled, Return, At, StoreInv, TypeOK
<1>10. ASSUME NEW q \in Reqs, UpdatePwd(q) PROVE \A p \in Reqs : Settled(p)
  BY <1>10 DEF UpdatePwd, Settled, Return, At, KindInv
<1>11. ASSUME NEW q \in Reqs, CheckPwd(q) PROVE \A p \in Reqs : Settled(p)
  BY <1>11 DEF CheckPwd, Settled, Return, At, StoreInv, TypeOK
<1>12. ASSUME NEW q \in Reqs, GetFriend(q) PROVE \A p \in Reqs : Settled(p)
  BY <1>12 DEF GetFriend, Settled, Return, At, KindInv
<1>13. ASSUME NEW q \in Reqs, LockFails(q) PROVE \A p \in Reqs : Settled(p)
  BY <1>13 DEF LockFails, Settled, Return, At
<1>14. ASSUME NEW q \in Reqs, Broken(q) PROVE \A p \in Reqs : Settled(p)
  BY <1>14
  DEF Broken, Settled, Return, KindInv, Steps, RegSteps, PairSteps, StoreInv, TypeOK
<1>15. ASSUME NEW q \in Reqs, CommitUnheard(q) PROVE \A p \in Reqs : Settled(p)
  BY <1>15 DEF CommitUnheard, Settled
<1>16. ASSUME NEW c \in Conns, Reconnect(c) PROVE \A p \in Reqs : Settled(p)
  BY <1>16 DEF Reconnect, Settled
<1>17. ASSUME NEW c \in Conns, ConnectionLost(c) PROVE \A p \in Reqs : Settled(p)
  BY <1>17 DEF ConnectionLost, Settled
<1>18. CASE UNCHANGED vars
  BY <1>18 DEF vars, Settled
<1>19. ASSUME NEW q \in Reqs, GetUid(q) PROVE \A p \in Reqs : Settled(p)
  BY <1>19 DEF GetUid, Settled, Return, At, StoreInv, TypeOK, KindInv
<1>20. ASSUME NEW q \in Reqs, FindPair(q) PROVE \A p \in Reqs : Settled(p)
  BY <1>20 DEF FindPair, Settled, Return, Go, At, StoreInv, TypeOK, KindInv, PairSteps
<1>21. ASSUME NEW q \in Reqs, InsertFriend(q) PROVE \A p \in Reqs : Settled(p)
  BY <1>21
  DEF InsertFriend, Settled, Return, Go, At, StoreInv, TypeOK, KindInv, PairSteps
<1>22. ASSUME NEW q \in Reqs, InsertFriendFails(q) PROVE \A p \in Reqs : Settled(p)
  BY <1>22
  DEF InsertFriendFails, Settled, Return, At, StoreInv, TypeOK, KindInv, PairSteps
<1>23. ASSUME GhostEnds PROVE \A p \in Reqs : Settled(p)
  BY <1>23 DEF GhostEnds, Settled
<1> QED
  BY <1>1, <1>2, <1>3, <1>4, <1>5, <1>6, <1>7, <1>8, <1>9, <1>10, <1>11, <1>12,
     <1>13, <1>14, <1>15, <1>16, <1>17, <1>18, <1>19, <1>20, <1>21, <1>22, <1>23
  DEF Next, Handle

\* Where the accounts of the next state come from.
LEMMA AccountSource ==
  ASSUME StoreInv, CounterInv, PendInv, RowInv, [Next]_vars, NEW r \in rows'
  PROVE  Version(r) \/ \E q \in Reqs : (Commit(q) \/ CommitUnheard(q)) /\ r = NewRow(q)
<1>1. CASE rows' = rows
  BY <1>1 DEF Version, SameAccount
<1>2. ASSUME NEW q \in Reqs, Commit(q) \/ CommitUnheard(q)
      PROVE  Version(r) \/ r = NewRow(q)
  <2>1. con[q] \in Conns /\ CommitRows(con[q])
    BY <1>2 DEF Commit, CommitUnheard, At, StoreInv, ConnInv, Steps, RegSteps, PairSteps
  <2>2. ASSUME NEW p \in Reqs, con[p] = con[q] PROVE p = q
    BY <2>1, <2>2, StoreAssumption DEF StoreInv, ConnInv
  <2> QED
    BY <2>1, <2>2, CommitAccounts DEF Inserted
<1>3. ASSUME NEW q \in Reqs, UpdatePwd(q) PROVE Version(r)
  <2>1. rows' = rows \/ rows' = Over(rows, NewVersions(q))
    BY <1>3 DEF UpdatePwd
  <2>2. \A s \in NewVersions(q) : Version(s)
    BY <1>3, VersionsAreVersions DEF UpdatePwd, At
  <2> QED
    BY <2>1, <2>2 DEF Over, Version, SameAccount
<1>4. ASSUME rows' # rows
      PROVE  \E q \in Reqs : Commit(q) \/ CommitUnheard(q) \/ UpdatePwd(q)
  BY <1>4 DEF Next, Handle, Arrive, GetConnection, SelectEmail, SelectName, TakeId,
       InsertUser, InsertFails, CheckEmail, CheckPwd, GetFriend, GetUid, FindPair,
       InsertFriend, InsertFriendFails, LockFails, Broken, Reconnect, ConnectionLost,
       GhostEnds, vars, tables
<1> QED
  BY <1>1, <1>2, <1>3, <1>4

\* A registration that commits has its row in the table.
LEMMA CommitAnswers ==
  ASSUME StoreInv, InsertedInv, NEW q \in Reqs, Commit(q)
  PROVE  NewRow(q) \in rows'
  BY DEF Commit, At, CommitRows, Over, InsertedInv

\* A step answers a registration with a uid only if its row is committed, and adds
\* only rows of registrations.
LEMMA ExactStep ==
  ASSUME StoreInv, CounterInv, PendInv, RowInv, KindInv, InsertedInv, RegistrationExact,
         [Next]_vars
  PROVE  RegistrationExact'
<1>1. ASSUME NEW q \in Reqs, pc'[q] = "ok", req'[q].kind = "register"
      PROVE  \E r \in rows' : /\ r.uid = newId'[q] /\ r.name = req'[q].name
                              /\ r.email = req'[q].email
  <2>1. /\ newId'[q] = newId[q] /\ req'[q] = req[q]
        /\ pc[q] = "ok" \/ Commit(q)
    BY <1>1, SettledStep DEF Settled
  <2>2. CASE pc[q] = "ok"
    BY <1>1, <2>1, <2>2, AccountsKept DEF RegistrationExact, SameAccount
  <2>3. CASE Commit(q)
    BY <2>1, <2>3, CommitAnswers DEF NewRow
  <2> QED
    BY <2>1, <2>2, <2>3
<1>2. ASSUME NEW r \in rows', r.uid > FirstId
      PROVE  \E q \in Reqs : /\ newId'[q] = r.uid /\ pc'[q] \in {"ok", "commit", "lost"}
                             /\ req'[q].name = r.name /\ req'[q].email = r.email
  <2>1. PICK q \in Reqs : /\ newId[q] = r.uid /\ pc[q] \in {"ok", "commit", "lost"}
                          /\ req[q].name = r.name /\ req[q].email = r.email
    <3>1. CASE Version(r)
      BY <1>2, <3>1 DEF Version, SameAccount, RegistrationExact
    <3>2. ASSUME NEW q \in Reqs, Commit(q) \/ CommitUnheard(q), r = NewRow(q)
          PROVE  /\ newId[q] = r.uid /\ pc[q] = "commit"
                 /\ req[q].name = r.name /\ req[q].email = r.email
      BY <3>2 DEF Commit, CommitUnheard, At, NewRow
    <3> QED
      BY <3>1, <3>2, AccountSource
  <2>2. pc[q] # "new"
    BY <2>1
  <2> QED
    BY <2>1, <2>2, SettledStep DEF Settled
<1> QED
  BY <1>1, <1>2 DEF RegistrationExact

-----------------------------------------------------------------------------
(* Friends                                                                 *)

\* loadFriend has done the first INSERT on c, or it has ended without the second.
Half(q, c, p) == pair[q] = p /\ (pc[q] = "ok" \/ (pc[q] = "second" /\ con[q] = c))

(***************************************************************************)
(* A row of friend without its reverse, committed or not, belongs to a     *)
(* call of loadFriend that has made one row so far: a committed one to a   *)
(* call on a connection with autocommit, one that is not committed to a    *)
(* call on the connection that has it.                                     *)
(***************************************************************************)
FriendInv ==
  /\ \A p \in friends : \/ Reversed(p) \in friends
                        \/ \E q \in Reqs, c \in Conns : auto[c] /\ Half(q, c, p)
                        \/ \E q \in Reqs : pc[q] = "ok" /\ pair[q] = p
  /\ \A c \in Conns : \A p \in pendF[c] :
       Reversed(p) \in friends \cup pendF[c] \/ \E q \in Reqs : Half(q, c, p)
  /\ \A q \in Reqs : pc[q] = "second" /\ live[con[q]] =>
       pair[q] \in IF auto[con[q]] THEN friends ELSE pendF[con[q]]

\* The reverse of the reverse of a pair of uids is the pair.
LEMMA ReversedTwice ==
  ASSUME NEW p \in Nat \X Nat
  PROVE  Reversed(p) \in Nat \X Nat /\ Reversed(Reversed(p)) = p
  BY DEF Reversed

\* What a step does that inserts no row of friend and commits none: a call of
\* loadFriend that has made its first row stays there, or ends with its pair.
Quiet ==
  /\ friends' = friends
  /\ \A c \in Conns : pendF'[c] = pendF[c] \/ pendF'[c] = {}
  /\ \A r \in Reqs : pc[r] = "ok" => pc'[r] = "ok" /\ pair'[r] = pair[r]
  /\ \A r \in Reqs : pc[r] = "second" =>
       /\ pair'[r] = pair[r]
       /\ \/ pc'[r] = "ok"
          \/ pc'[r] = "second" /\ con'[r] = con[r] /\ auto'[con[r]] = auto[con[r]]
  /\ \A r \in Reqs : pc'[r] = "second" =>
       /\ pc[r] = "second"
       /\ live'[con[r]] => live[con[r]] /\ pendF'[con[r]] = pendF[con[r]]

\* A step that inserts no friend and commits none keeps FriendInv.
LEMMA FriendKept ==
  ASSUME StoreInv, FriendInv, Quiet
  PROVE  FriendInv'
<1>1. \A r \in Reqs : pc[r] = "second" => con[r] \in Conns
  BY DEF StoreInv, ConnInv, Steps, PairSteps
<1>2. \A r \in Reqs, c \in Conns, p \in Nat \X Nat : Half(r, c, p) => Half(r, c, p)'
  BY <1>1 DEF Quiet, Half
<1>3. ASSUME NEW p \in friends'
      PROVE  \/ Reversed(p) \in friends'
             \/ \E r \in Reqs, c \in Conns : auto'[c] /\ Half(r, c, p)'
             \/ \E r \in Reqs : pc'[r] = "ok" /\ pair'[r] = p
  <2>1. p \in friends /\ friends' = friends
    BY <1>3 DEF Quiet
  <2>2. ASSUME NEW r \in Reqs, NEW c \in Conns, auto[c], Half(r, c, p)
        PROVE  \/ auto'[c] /\ Half(r, c, p)'
               \/ pc'[r] = "ok" /\ pair'[r] = p
    BY <1>1, <2>2 DEF Quiet, Half
  <2>3. \A r \in Reqs : pc[r] = "ok" /\ pair[r] = p => pc'[r] = "ok" /\ pair'[r] = p
    BY DEF Quiet
  <2> QED
    BY <2>1, <2>2, <2>3 DEF FriendInv
<1>4. ASSUME NEW c \in Conns, NEW p \in pendF'[c]
      PROVE  Reversed(p) \in friends' \cup pendF'[c] \/ \E r \in Reqs : Half(r, c, p)'
  <2>1. pendF'[c] = pendF[c] /\ p \in pendF[c] /\ friends' = friends
    BY <1>4 DEF Quiet
  <2>2. p \in Nat \X Nat
    BY <2>1 DEF StoreInv, TypeOK
  <2> QED
    BY <1>2, <2>1, <2>2 DEF FriendInv
<1>5. ASSUME NEW r \in Reqs, pc'[r] = "second", live'[con'[r]]
      PROVE  pair'[r] \in IF auto'[con'[r]] THEN friends' ELSE pendF'[con'[r]]
  <2>1. /\ pc[r] = "second" /\ pair'[r] = pair[r] /\ con'[r] = con[r]
        /\ auto'[con[r]] = auto[con[r]] /\ friends' = friends
    BY <1>5 DEF Quiet
  <2>2. live[con[r]] /\ pendF'[con[r]] = pendF[con[r]]
    BY <1>5, <2>1 DEF Quiet
  <2> QED
    BY <2>1, <2>2 DEF FriendInv
<1> QED
  BY <1>3, <1>4, <1>5 DEF FriendInv

\* A step of one request that inserts no friend and commits none.
LEMMA QuietMove ==
  ASSUME StoreInv, NEW q \in Reqs, pc[q] \in Steps, pc'[q] # "second",
         pc[q] = "second" => pc'[q] = "ok" /\ pair'[q] = pair[q],
         friends' = friends,
         \A r \in Reqs \ {q} : pc'[r] = pc[r] /\ con'[r] = con[r] /\ pair'[r] = pair[r],
         pendF' \in {pendF, [pendF EXCEPT ![con[q]] = {}]}, live' = live,
         \A c \in Conns \ {con[q]} : auto'[c] = auto[c]
  PROVE  Quiet
<1>1. \A c \in Conns : pendF'[c] \in {pendF[c], {}} /\ (c # con[q] => pendF'[c] = pendF[c])
  BY DEF StoreInv, TypeOK
<1>2. pc[q] # "ok"
  BY DEF Steps, RegSteps, PairSteps
<1>3. \A r \in Reqs \ {q} : pc[r] = "second" => con[r] \in Conns \ {con[q]}
  BY StoreAssumption DEF StoreInv, ConnInv, Steps, PairSteps
<1> QED
  BY <1>1, <1>2, <1>3 DEF Quiet

\* COMMIT makes the rows of its connection common.
LEMMA FriendCommit ==
  ASSUME StoreInv, FriendInv, NEW q \in Reqs, pc[q] = "commit", pc'[q] # "second",
         CommitRows(con[q]), UNCHANGED <<auto, pair>>,
         \A r \in Reqs \ {q} : pc'[r] = pc[r] /\ con'[r] = con[r],
         \A c \in Conns \ {con[q]} : live'[c] = live[c]
  PROVE  FriendInv'
<1> DEFINE d == con[q]
<1>1. d \in Conns /\ \A r \in Reqs : pc[r] = "second" => r # q /\ con[r] \in Conns \ {d}
  BY StoreAssumption DEF StoreInv, ConnInv, Steps, RegSteps, PairSteps
<1>2. /\ friends' = friends \cup pendF[d]
      /\ \A c \in Conns : pendF'[c] = IF c = d THEN {} ELSE pendF[c]
  BY <1>1 DEF CommitRows, EndTransaction, StoreInv, TypeOK
<1>3. \A r \in Reqs : pc[r] \in {"ok", "second"} => pc'[r] = pc[r] /\ con'[r] = con[r]
  OBVIOUS
<1>4. \A r \in Reqs, c \in Conns, p \in Nat \X Nat : Half(r, c, p) => Half(r, c, p)'
  BY <1>3 DEF Half
<1>5. ASSUME NEW p \in friends'
      PROVE  \/ Reversed(p) \in friends'
             \/ \E r \in Reqs, c \in Conns : auto'[c] /\ Half(r, c, p)'
             \/ \E r \in Reqs : pc'[r] = "ok" /\ pair'[r] = p
  <2>1. p \in Nat \X Nat
    BY <1>1, <1>2, <1>5 DEF StoreInv, TypeOK
  <2>2. CASE p \in friends
    BY <1>2, <1>3, <1>4, <2>1, <2>2 DEF FriendInv
  <2>3. CASE p \in pendF[d]
    <3>1. Reversed(p) \in friends \cup pendF[d] \/ \E r \in Reqs : Half(r, d, p)
      BY <1>1, <2>3 DEF FriendInv
    <3>2. \A r \in Reqs : Half(r, d, p) => pc'[r] = "ok" /\ pair'[r] = p
      BY <1>1, <1>3 DEF Half
    <3> QED
      BY <1>2, <3>1, <3>2
  <2> QED
    BY <1>2, <1>5, <2>2, <2>3
<1>6. ASSUME NEW c \in Conns, NEW p \in pendF'[c]
      PROVE  Reversed(p) \in friends' \cup pendF'[c] \/ \E r \in Reqs : Half(r, c, p)'
  <2>1. c # d /\ pendF'[c] = pendF[c] /\ p \in Nat \X Nat
    BY <1>2, <1>6 DEF StoreInv, TypeOK
  <2> QED
    BY <1>2, <1>4, <1>6, <2>1 DEF FriendInv
<1>7. ASSUME NEW r \in Reqs, pc'[r] = "second", live'[con'[r]]
      PROVE  pair'[r] \in IF auto'[con'[r]] THEN friends' ELSE pendF'[con'[r]]
  <2>1. r # q /\ pc[r] = "second" /\ con'[r] = con[r] /\ con[r] \in Conns \ {d}
    BY <1>1, <1>7
  <2>2. pendF'[con[r]] = pendF[con[r]] /\ live[con[r]]
    BY <1>2, <1>7, <2>1
  <2> QED
    BY <1>2, <2>1, <2>2 DEF FriendInv
<1> QED
  BY <1>5, <1>6, <1>7 DEF FriendInv

\* Another call of loadFriend that is at its second INSERT has made its first.
LEMMA FriendElse ==
  ASSUME FriendInv, NEW r \in Reqs, pc[r] = "second", live[con[r]]
  PROVE  pair[r] \in IF auto[con[r]] THEN friends ELSE pendF[con[r]]
  BY DEF FriendInv

\* An INSERT of loadFriend adds the first row, or the reverse of the first.
LEMMA FriendInsert ==
  ASSUME StoreInv, FriendInv, NEW q \in Reqs, InsertFriend(q)
  PROVE  FriendInv'
<1>0. PICK d, n : d = con[q] /\ n = Row(q)
  OBVIOUS
<1>1. /\ d \in Conns /\ live[d] /\ n \in Nat \X Nat
      /\ \A r \in Reqs \ {q} : pc[r] = "second" => con[r] \in Conns \ {d}
  <2>1. d \in Conns /\ live[d]
    BY <1>0 DEF InsertFriend, At, StoreInv, ConnInv, Steps, PairSteps
  <2>2. n \in Nat \X Nat
    BY <1>0 DEF Row, Reversed, StoreInv, TypeOK
  <2>3. \A r \in Reqs \ {q} : pc[r] = "second" => con[r] \in Conns \ {d}
    BY <1>0, <2>1, StoreAssumption DEF StoreInv, ConnInv, Steps, PairSteps
  <2> QED
    BY <2>1, <2>2, <2>3
<1>2. \A r \in Reqs \ {q} : pc'[r] = pc[r] /\ con'[r] = con[r] /\ pair'[r] = pair[r]
  BY DEF InsertFriend, Go, Return, StoreInv, TypeOK
<1>3. auto' = auto /\ live' = live
  BY DEF InsertFriend
<1>4. /\ friends' = IF auto[d] THEN friends \cup {n} ELSE friends
      /\ \A c \in Conns : pendF'[c] = IF c = d /\ ~auto[d] THEN pendF[c] \cup {n}
                                                         ELSE pendF[c]
  <2>1. CASE auto[d]
    BY <1>0, <1>1, <2>1 DEF InsertFriend
  <2>2. CASE ~auto[d]
    <3>1. pendF' = [pendF EXCEPT ![d] = @ \cup {n}] /\ friends' = friends
      BY <1>0, <2>2 DEF InsertFriend
    <3>2. pendF \in [Conns -> SUBSET (Nat \X Nat)]
      BY DEF StoreInv, TypeOK
    <3> QED
      BY <1>1, <2>2, <3>1, <3>2
  <2> QED
    BY <2>1, <2>2
<1>5. CASE pc[q] = "first"
  <2>1. n = pair[q] /\ pc'[q] = "second" /\ con'[q] = d /\ pair'[q] = pair[q]
    BY <1>0, <1>5 DEF InsertFriend, Go, pool, Row, StoreInv, TypeOK
  <2>2. \A r \in Reqs, c \in Conns, p \in Nat \X Nat : Half(r, c, p) => Half(r, c, p)'
    BY <1>2, <1>5 DEF Half
  <2>3. \A r \in Reqs : \A p :
          pc[r] = "ok" /\ pair[r] = p => pc'[r] = "ok" /\ pair'[r] = p
    BY <1>2, <1>5
  <2>4. Half(q, d, n)'
    BY <2>1 DEF Half
  <2>5. ASSUME NEW p \in friends'
        PROVE  \/ Reversed(p) \in friends'
               \/ \E r \in Reqs, c \in Conns : auto'[c] /\ Half(r, c, p)'
               \/ \E r \in Reqs : pc'[r] = "ok" /\ pair'[r] = p
    <3>1. CASE p = n /\ auto[d]
      BY <1>1, <1>3, <2>4, <3>1
    <3>2. CASE p \in friends
      <4>1. p \in Nat \X Nat
        BY <3>2 DEF StoreInv, TypeOK
      <4> QED
        BY <1>3, <1>4, <2>2, <2>3, <3>2, <4>1 DEF FriendInv
    <3> QED
      BY <1>4, <2>5, <3>1, <3>2
  <2>6. ASSUME NEW c \in Conns, NEW p \in pendF'[c]
        PROVE  Reversed(p) \in friends' \cup pendF'[c] \/ \E r \in Reqs : Half(r, c, p)'
    <3>1. CASE p = n /\ c = d
      BY <2>4, <3>1
    <3>2. CASE p \in pendF[c]
      <4>1. p \in Nat \X Nat
        BY <3>2 DEF StoreInv, TypeOK
      <4> QED
        BY <1>4, <2>2, <3>2, <4>1 DEF FriendInv
    <3> QED
      BY <1>4, <2>6, <3>1, <3>2
  <2>7. ASSUME NEW r \in Reqs, pc'[r] = "second", live'[con'[r]]
        PROVE  pair'[r] \in IF auto'[con'[r]] THEN friends' ELSE pendF'[con'[r]]
    <3>1. CASE r = q
      BY <1>1, <1>3, <1>4, <2>1, <3>1
    <3>2. CASE r # q
      BY <1>1, <1>2, <1>3, <1>4, <2>7, <3>2, FriendElse
    <3> QED
      BY <3>1, <3>2
  <2> QED
    BY <2>5, <2>6, <2>7 DEF FriendInv
<1>6. CASE pc[q] = "second"
  <2>1. n = Reversed(pair[q]) /\ pc'[q] = "ok" /\ pair'[q] = <<0, 0>>
    BY <1>0, <1>6 DEF InsertFriend, Return, Row, StoreInv, TypeOK
  <2>2. /\ pair[q] \in Nat \X Nat /\ Reversed(n) = pair[q]
        /\ pair[q] \in IF auto[d] THEN friends ELSE pendF[d]
    BY <1>0, <1>1, <1>6, <2>1, ReversedTwice DEF FriendInv, StoreInv, TypeOK
  <2>3. \A r \in Reqs, c \in Conns, p \in Nat \X Nat :
          Half(r, c, p) => Half(r, c, p)' \/ (p = pair[q] /\ c = d)
    BY <1>0, <1>2, <1>6 DEF Half
  <2>4. \A r \in Reqs : \A p :
          pc[r] = "ok" /\ pair[r] = p => pc'[r] = "ok" /\ pair'[r] = p
    BY <1>2, <1>6
  <2>5. ASSUME NEW p \in friends'
        PROVE  \/ Reversed(p) \in friends'
               \/ \E r \in Reqs, c \in Conns : auto'[c] /\ Half(r, c, p)'
               \/ \E r \in Reqs : pc'[r] = "ok" /\ pair'[r] = p
    <3>1. CASE p = n /\ auto[d]
      BY <1>4, <2>2, <3>1
    <3>2. CASE p \in friends
      <4>1. p \in Nat \X Nat
        BY <3>2 DEF StoreInv, TypeOK
      <4>2. ASSUME NEW r \in Reqs, NEW c \in Conns, auto[c], Half(r, c, p)
            PROVE  Reversed(p) \in friends' \/ (auto'[c] /\ Half(r, c, p)')
        BY <1>3, <1>4, <2>1, <2>3, <4>1, <4>2
      <4> QED
        BY <1>4, <2>4, <3>2, <4>2 DEF FriendInv
    <3> QED
      BY <1>4, <2>5, <3>1, <3>2
  <2>6. ASSUME NEW c \in Conns, NEW p \in pendF'[c]
        PROVE  Reversed(p) \in friends' \cup pendF'[c] \/ \E r \in Reqs : Half(r, c, p)'
    <3>1. CASE p = n /\ c = d /\ ~auto[d]
      BY <1>4, <2>2, <3>1
    <3>2. CASE p \in pendF[c]
      <4>1. p \in Nat \X Nat
        BY <3>2 DEF StoreInv, TypeOK
      <4>2. ASSUME NEW r \in Reqs, Half(r, c, p)
            PROVE  Reversed(p) \in friends' \cup pendF'[c] \/ Half(r, c, p)'
        BY <1>4, <2>1, <2>3, <4>1, <4>2
      <4> QED
        BY <1>4, <3>2, <4>2 DEF FriendInv
    <3> QED
      BY <1>4, <2>6, <3>1, <3>2
  <2>7. ASSUME NEW r \in Reqs, pc'[r] = "second", live'[con'[r]]
        PROVE  pair'[r] \in IF auto'[con'[r]] THEN friends' ELSE pendF'[con'[r]]
    <3>1. r # q
      BY <2>1, <2>7
    <3> QED
      BY <1>1, <1>2, <1>3, <1>4, <2>7, <3>1, FriendElse
  <2> QED
    BY <2>5, <2>6, <2>7 DEF FriendInv
<1> QED
  BY <1>5, <1>6 DEF InsertFriend, At

\* Only loadFriend makes a row of friend, and only it leaves one without reverse.
LEMMA FriendStep ==
  ASSUME StoreInv, FriendInv, [Next]_vars
  PROVE  FriendInv'
<1>1. ASSUME NEW q \in Reqs, Arrive(q) PROVE FriendInv'
  <2>1. \A r \in Reqs : pc'[r] = pc[r] \/ (r = q /\ pc[r] = "new" /\ pc'[r] \in Waiting)
    BY <1>1, StoreAssumption
       DEF Arrive, StoreInv, TypeOK, FirstCall, Kinds, HttpKinds, Waiting
  <2>2. UNCHANGED <<friends, pendF, live, auto, con, pair>>
    BY <1>1 DEF Arrive, tables, sessions
  <2>3. Quiet
    BY <2>1, <2>2 DEF Quiet, Waiting
  <2> QED
    BY <2>3, FriendKept
<1>2. ASSUME NEW q \in Reqs, GetConnection(q) PROVE FriendInv'
  <2>1. \A r \in Reqs : \/ pc'[r] = pc[r] /\ con'[r] = con[r]
                        \/ pc[r] \in Waiting /\ pc'[r] \notin {"second", "ok"}
    <3>1. PICK c, p : /\ con' = [con EXCEPT ![q] = c] /\ pc' = [pc EXCEPT ![q] = p]
                      /\ pc[q] \in Waiting /\ p \notin {"second", "ok"}
      BY <1>2, Borrow
    <3>2. pc \in [Reqs -> {"new"} \cup Waiting \cup Steps \cup Answered]
          /\ con \in [Reqs -> Conns \cup {None}]
      BY DEF StoreInv, TypeOK
    <3> QED
      BY <3>1, <3>2
  <2>2. UNCHANGED <<friends, pendF, live, auto, pair>>
    BY <1>2 DEF GetConnection, tables, sessions
  <2>3. Quiet
    BY <2>1, <2>2 DEF Quiet, Waiting
  <2> QED
    BY <2>3, FriendKept
<1>3. ASSUME NEW q \in Reqs, SelectEmail(q) PROVE FriendInv'
  BY <1>3, QuietMove, FriendKept
  DEF SelectEmail, tables, Return, Go, At, EndTransaction, Steps, RegSteps, PairSteps,
      StoreInv, TypeOK
<1>4. ASSUME NEW q \in Reqs, SelectName(q) PROVE FriendInv'
  BY <1>4, QuietMove, FriendKept
  DEF SelectName, tables, Return, Go, At, EndTransaction, Steps, RegSteps, PairSteps,
      StoreInv, TypeOK
<1>5. ASSUME NEW q \in Reqs, TakeId(q) PROVE FriendInv'
  BY <1>5, QuietMove, FriendKept
  DEF TakeId, tables, Go, At, Steps, RegSteps, PairSteps, StoreInv, TypeOK
<1>6. ASSUME NEW q \in Reqs, InsertUser(q) PROVE FriendInv'
  BY <1>6, QuietMove, FriendKept
  DEF InsertUser, tables, Go, At, Steps, RegSteps, PairSteps, StoreInv, TypeOK
<1>7. ASSUME NEW q \in Reqs, InsertFails(q) PROVE FriendInv'
  BY <1>7, QuietMove, FriendKept
  DEF InsertFails, tables, Return, At, EndTransaction, Steps, RegSteps, PairSteps,
      StoreInv, TypeOK
<1>8. ASSUME NEW q \in Reqs, Commit(q) PROVE FriendInv'
  BY <1>8, FriendCommit DEF Commit, Return, At, StoreInv, TypeOK
<1>9. ASSUME NEW q \in Reqs, CheckEmail(q) PROVE FriendInv'
  BY <1>9, QuietMove, FriendKept
  DEF CheckEmail, tables, Return, At, EndTransaction, Steps, RegSteps, PairSteps,
      StoreInv, TypeOK
<1>10. ASSUME NEW q \in Reqs, UpdatePwd(q) PROVE FriendInv'
  BY <1>10, QuietMove, FriendKept
  DEF UpdatePwd, Return, At, Steps, RegSteps, PairSteps, StoreInv, TypeOK
<1>11. ASSUME NEW q \in Reqs, CheckPwd(q) PROVE FriendInv'
  BY <1>11, QuietMove, FriendKept
  DEF CheckPwd, tables, Return, At, Steps, RegSteps, PairSteps, StoreInv, TypeOK
<1>12. ASSUME NEW q \in Reqs, GetFriend(q) PROVE FriendInv'
  BY <1>12, QuietMove, FriendKept
  DEF GetFriend, tables, Return, At, Steps, RegSteps, PairSteps, StoreInv, TypeOK
<1>13. ASSUME NEW q \in Reqs, LockFails(q) PROVE FriendInv'
  BY <1>13, QuietMove, FriendKept
  DEF LockFails, tables, Return, At, EndTransaction, Steps, RegSteps, PairSteps,
      StoreInv, TypeOK
<1>14. ASSUME NEW q \in Reqs, Broken(q) PROVE FriendInv'
  BY <1>14, QuietMove, FriendKept
  DEF Broken, tables, sessions, Return, Forget, Steps, RegSteps, PairSteps, StoreInv, TypeOK
<1>15. ASSUME NEW q \in Reqs, CommitUnheard(q) PROVE FriendInv'
  <2>1. CommitRows(con[q]) /\ pc[q] = "commit" /\ UNCHANGED <<auto, pair, pc, con>>
    BY <1>15 DEF CommitUnheard, At
  <2>2. \A c \in Conns \ {con[q]} : live'[c] = live[c]
    BY <1>15 DEF CommitUnheard, StoreInv, TypeOK
  <2> QED
    BY <2>1, <2>2, FriendCommit
<1>16. ASSUME NEW c \in Conns, Reconnect(c) PROVE FriendInv'
  <2>1. \A r \in Reqs : pc[r] = "second" => con[r] \in Conns \ {c}
    BY <1>16 DEF Reconnect, StoreInv, ConnInv, Steps, PairSteps
  <2>2. \A d \in Conns \ {c} : auto'[d] = auto[d] /\ live'[d] = live[d]
    BY <1>16 DEF Reconnect, StoreInv, TypeOK
  <2>3. UNCHANGED <<friends, pendF, pc, con, pair>>
    BY <1>16 DEF Reconnect, tables
  <2>4. Quiet
    BY <2>1, <2>2, <2>3 DEF Quiet
  <2> QED
    BY <2>4, FriendKept
<1>17. ASSUME NEW c \in Conns, ConnectionLost(c) PROVE FriendInv'
  <2>1. UNCHANGED <<friends, auto, pc, con, pair>>
    BY <1>17 DEF ConnectionLost, tables
  <2>2. \A d \in Conns : /\ d = c => ~live'[d] /\ pendF'[d] = {}
                         /\ d # c => live'[d] = live[d] /\ pendF'[d] = pendF[d]
    BY <1>17 DEF ConnectionLost, EndTransaction, StoreInv, TypeOK
  <2>3. \A r \in Reqs : pc[r] = "second" => con[r] \in Conns
    BY DEF StoreInv, ConnInv, Steps, PairSteps
  <2>4. \A r \in Reqs : pc[r] = "second" /\ live'[con[r]] =>
          live[con[r]] /\ pendF'[con[r]] = pendF[con[r]]
    BY <2>2, <2>3
  <2>5. Quiet
    BY <2>1, <2>2, <2>4 DEF Quiet
  <2> QED
    BY <2>5, FriendKept
<1>18. CASE UNCHANGED vars
  BY <1>18, FriendKept DEF vars, tables, sessions, Quiet
<1>19. ASSUME NEW q \in Reqs, GetUid(q) PROVE FriendInv'
  BY <1>19, QuietMove, FriendKept
  DEF GetUid, tables, Return, At, Steps, RegSteps, PairSteps, StoreInv, TypeOK
<1>20. ASSUME NEW q \in Reqs, FindPair(q) PROVE FriendInv'
  BY <1>20, QuietMove, FriendKept
  DEF FindPair, tables, Return, Go, At, Steps, RegSteps, PairSteps, StoreInv, TypeOK
<1>21. ASSUME NEW q \in Reqs, InsertFriend(q) PROVE FriendInv'
  BY <1>21, FriendInsert
<1>22. ASSUME NEW q \in Reqs, InsertFriendFails(q) PROVE FriendInv'
  BY <1>22, QuietMove, FriendKept
  DEF InsertFriendFails, tables, Return, At, EndTransaction, Forget, Steps, RegSteps,
      PairSteps, StoreInv, TypeOK
<1>23. ASSUME GhostEnds PROVE FriendInv'
  BY <1>23, FriendKept DEF GhostEnds, tables, Quiet
<1> QED
  BY <1>1, <1>2, <1>3, <1>4, <1>5, <1>6, <1>7, <1>8, <1>9, <1>10, <1>11, <1>12,
     <1>13, <1>14, <1>15, <1>16, <1>17, <1>18, <1>19, <1>20, <1>21, <1>22, <1>23
  DEF Next, Handle

-----------------------------------------------------------------------------
(* Theorems                                                                *)

AccountInv ==
  /\ StoreInv /\ CounterInv /\ PendInv /\ ModeInv /\ RowInv
  /\ KindInv /\ InsertedInv /\ RegistrationExact /\ FriendInv

\* The initial states of UserStore satisfy the invariant.
LEMMA InitAccount ==
  ASSUME Init
  PROVE  AccountInv
<1> USE StoreAssumption DEF Init, StoreAssumption
<1>1. StoreInv
  BY DEF StoreInv, TypeOK, ConnInv, Steps, RegSteps, PairSteps
<1>2. CounterInv /\ PendInv /\ ModeInv
  BY DEF CounterInv, PendInv, ModeInv, UniqueIn
<1>3. RowInv
  BY DEF RowInv, UidsUnique
<1>4. KindInv /\ InsertedInv
  BY DEF KindInv, InsertedInv, PairSteps
<1>5. RegistrationExact
  BY DEF RegistrationExact
<1>6. FriendInv
  BY DEF FriendInv
<1> QED
  BY <1>1, <1>2, <1>3, <1>4, <1>5, <1>6 DEF AccountInv

\* Every step of UserStore keeps the invariant.
LEMMA AccountStep ==
  ASSUME AccountInv, [Next]_vars
  PROVE  AccountInv'
<1>1. StoreInv'
  BY TypeStep, ConnStep DEF AccountInv, StoreInv
<1> QED
  BY <1>1, CounterStep, PendStep, ModeStep, RowStep, KindStep, InsertedStep, ExactStep,
     FriendStep
     DEF AccountInv

\* AccountInv is inductive: it holds in every state of UserStore.
THEOREM AccountInvariant == Spec => []AccountInv
<1>1. Init => AccountInv
  BY InitAccount
<1>2. AccountInv /\ [Next]_vars => AccountInv'
  BY AccountStep
<1> QED
  BY <1>1, <1>2, PTL DEF Spec

\* Every variable of UserStore keeps its type.
THEOREM StoreTypeCorrect == Spec => []TypeOK
<1>1. AccountInv => TypeOK
  BY DEF AccountInv, StoreInv
<1> QED
  BY <1>1, AccountInvariant, PTL

\* No two accounts have the same uid (RegUserTransaction, MysqlDao.cpp:111-131).
THEOREM UidsAreUnique == Spec => []UidsUnique
<1>1. AccountInv => UidsUnique
  BY DEF AccountInv, RowInv
<1> QED
  BY <1>1, AccountInvariant, PTL

\* The table user has exactly the accounts whose registration committed.
THEOREM RegistrationIsExact == Spec => []RegistrationExact
<1>1. AccountInv => RegistrationExact
  BY DEF AccountInv
<1> QED
  BY <1>1, AccountInvariant, PTL

\* A connection that is in the pool does not hold the lock of user_id.
THEOREM CounterLockReleased == Spec => []CounterIsFree
<1>1. AccountInv => CounterIsFree
  BY DEF AccountInv, CounterInv, CounterIsFree
<1> QED
  BY <1>1, AccountInvariant, PTL

\* A row of friend has its reverse unless a call of loadFriend made only one of the
\* two (MysqlDao.cpp:414-432).
THEOREM FriendsAreMutual == Spec => []FriendsMutual
<1>1. AccountInv => FriendsMutual
  BY DEF AccountInv, FriendInv, Half, FriendsMutual
<1> QED
  BY <1>1, AccountInvariant, PTL

-----------------------------------------------------------------------------
(* The connections of the pool                                             *)

\* A connection is lent, and to a request that is at a step of the DAO.
Lent(c) == \E q \in Reqs : con[q] = c /\ pc[q] \in Steps

\* What a step that neither lends a connection nor ends a call leaves alone.
PoolRests ==
  /\ UNCHANGED <<pool, con>>
  /\ \A q \in Reqs : pc[q] \in Steps => pc'[q] \in Steps
  /\ \A q \in Reqs : pc[q] = "refused" => pc'[q] = "refused" /\ req'[q] = req[q]

\* A call ends and its connection goes back.
Returns(q) == pc[q] \in Steps /\ req' = req /\ \E p \in Waiting \cup Answered : Return(q, p)

\* A call ends and its connection is destroyed.
Destroys(q) ==
  /\ pc[q] \in Steps /\ req' = req /\ req[q].kind = "reset"
  /\ dropped' = dropped \cup {con[q]} /\ idle' = idle
  /\ con' = [con EXCEPT ![q] = None]
  /\ pc' = [pc EXCEPT ![q] = "refused"]

\* Going on to the next step leaves the pool alone.
LEMMA GoRests ==
  ASSUME StoreInv, NEW q \in Reqs, pc[q] \in Steps, req' = req, NEW p \in Steps, Go(q, p)
  PROVE  PoolRests
BY DEF PoolRests, Go, StoreInv, TypeOK, Steps, RegSteps, PairSteps

\* Each step of UserStore lends a connection, takes one back, destroys one or does
\* none of these.
LEMMA PoolMoves ==
  ASSUME StoreInv, KindInv, [Next]_vars
  PROVE  PoolRests \/ \E q \in Reqs : GetConnection(q) \/ Returns(q) \/ Destroys(q)
<1> USE StoreAssumption
<1> DEFINE Moves == PoolRests \/ \E q \in Reqs : GetConnection(q) \/ Returns(q) \/ Destroys(q)
<1>1. ASSUME NEW q \in Reqs, Arrive(q) PROVE PoolRests
  BY <1>1 DEF Arrive, PoolRests, StoreInv, TypeOK, Steps, RegSteps, PairSteps
<1>2. ASSUME NEW q \in Reqs, SelectEmail(q) \/ SelectName(q) PROVE Moves
  BY <1>2, GoRests
  DEF SelectEmail, SelectName, At, Returns, Steps, RegSteps, PairSteps, Waiting, Answered
<1>3. ASSUME NEW q \in Reqs, TakeId(q) \/ InsertUser(q) PROVE PoolRests
  BY <1>3, GoRests DEF TakeId, InsertUser, At, Steps, RegSteps, PairSteps
<1>4. ASSUME NEW q \in Reqs, InsertFails(q) \/ Commit(q) PROVE Returns(q)
  BY <1>4
  DEF InsertFails, Commit, At, Returns, Steps, RegSteps, PairSteps, Waiting, Answered
<1>5. ASSUME NEW q \in Reqs, CheckEmail(q) PROVE Moves
  <2>1. pc[q] \in Steps /\ req' = req /\ req[q].kind = "reset"
    BY <1>5 DEF CheckEmail, At, KindInv, Steps
  <2>2. Returns(q) \/ Destroys(q)
    BY <1>5, <2>1 DEF CheckEmail, Returns, Destroys, Waiting, Answered
  <2> QED
    BY <2>2
<1>6. ASSUME NEW q \in Reqs, UpdatePwd(q) \/ CheckPwd(q) \/ GetFriend(q) \/ GetUid(q)
      PROVE Returns(q)
  BY <1>6
  DEF UpdatePwd, CheckPwd, GetFriend, GetUid, At, Returns, Steps, Waiting, Answered
<1>7. ASSUME NEW q \in Reqs, FindPair(q) \/ InsertFriend(q) PROVE Moves
  BY <1>7, GoRests
  DEF FindPair, InsertFriend, At, Returns, Steps, RegSteps, PairSteps, Waiting, Answered
<1>8. ASSUME NEW q \in Reqs, InsertFriendFails(q) \/ LockFails(q) \/ Broken(q)
      PROVE Returns(q)
  BY <1>8
  DEF InsertFriendFails, LockFails, Broken, At, Returns, Steps, RegSteps, PairSteps,
      Waiting, Answered
<1>9. ASSUME NEW q \in Reqs, CommitUnheard(q) PROVE PoolRests
  BY <1>9 DEF CommitUnheard, PoolRests
<1>10. ASSUME NEW c \in Conns, Reconnect(c) \/ ConnectionLost(c) PROVE PoolRests
  BY <1>10 DEF Reconnect, ConnectionLost, PoolRests
<1>11. CASE GhostEnds \/ UNCHANGED vars
  BY <1>11 DEF GhostEnds, vars, PoolRests
<1> QED
  BY <1>1, <1>2, <1>3, <1>4, <1>5, <1>6, <1>7, <1>8, <1>9, <1>10, <1>11
  DEF Next, Handle

\* A connection is idle, lent or destroyed.
LEMMA LentStep ==
  ASSUME StoreInv, KindInv, [Next]_vars, \A c \in Conns : c \in idle \cup dropped \/ Lent(c)
  PROVE  \A c \in Conns : c \in idle' \cup dropped' \/ Lent(c)'
<1>1. CASE PoolRests
  BY <1>1 DEF PoolRests, pool, Lent
<1>2. ASSUME NEW q \in Reqs, GetConnection(q)
      PROVE  \A c \in Conns : c \in idle' \cup dropped' \/ Lent(c)'
  <2>1. PICK d \in idle, p \in Steps :
          /\ con' = [con EXCEPT ![q] = d] /\ idle' = idle \ {d}
          /\ pc' = [pc EXCEPT ![q] = p]
    BY <1>2, Borrow DEF Steps, RegSteps, PairSteps
  <2>2. con[q] \notin Conns /\ dropped' = dropped
    BY <1>2, Borrow, StoreAssumption DEF GetConnection
  <2>3. Lent(d)'
    BY <2>1 DEF Lent, StoreInv, TypeOK
  <2>4. \A c \in Conns : Lent(c) => Lent(c)'
    BY <2>1, <2>2 DEF Lent, StoreInv, TypeOK
  <2> QED
    BY <2>1, <2>2, <2>3, <2>4
<1>3. ASSUME NEW q \in Reqs, Returns(q) \/ Destroys(q)
      PROVE  \A c \in Conns : c \in idle' \cup dropped' \/ Lent(c)'
  <2>1. /\ idle' \cup dropped' = idle \cup dropped \cup {con[q]}
        /\ con' = [con EXCEPT ![q] = None]
        /\ \A r \in Reqs \ {q} : pc'[r] = pc[r]
    BY <1>3 DEF Returns, Return, Destroys, StoreInv, TypeOK
  <2>2. \A c \in Conns \ {con[q]} : Lent(c) => Lent(c)'
    BY <2>1 DEF Lent, StoreInv, TypeOK
  <2> QED
    BY <2>1, <2>2
<1> QED
  BY <1>1, <1>2, <1>3, PoolMoves

Charged == {q \in Reqs : RefusedReset(q)}

\* Every destroyed connection has a refused reset of its own.
EachCharged ==
  \E f \in [dropped -> Charged] : \A c, d \in dropped : f[c] = f[d] => c = d

\* The charges stay, and a connection that is destroyed is charged to the request that
\* is refused in that step.
LEMMA ChargedStep ==
  ASSUME StoreInv, KindInv, [Next]_vars, EachCharged
  PROVE  EachCharged'
<1>1. PICK f \in [dropped -> Charged] : \A c, d \in dropped : f[c] = f[d] => c = d
  BY DEF EachCharged
<1>2. "refused" \notin Steps \cup Waiting
  BY DEF Steps, RegSteps, PairSteps, Waiting
<1>3. ASSUME dropped' = dropped, Charged \subseteq Charged'
      PROVE  EachCharged'
  <2>1. f \in [dropped' -> Charged']
    BY <1>1, <1>3
  <2> QED
    BY <1>1, <1>3, <2>1 DEF EachCharged
<1>4. CASE PoolRests
  <2>1. dropped' = dropped /\ Charged \subseteq Charged'
    BY <1>4 DEF PoolRests, pool, Charged, RefusedReset
  <2> QED
    BY <1>3, <2>1
<1>5. ASSUME NEW q \in Reqs, GetConnection(q) \/ Returns(q)
      PROVE  EachCharged'
  <2>1. /\ dropped' = dropped /\ req' = req /\ pc[q] # "refused"
        /\ \A r \in Reqs \ {q} : pc'[r] = pc[r]
    BY <1>2, <1>5 DEF GetConnection, Returns, Return, StoreInv, TypeOK
  <2>2. Charged \subseteq Charged'
    BY <2>1 DEF Charged, RefusedReset
  <2> QED
    BY <1>3, <2>1, <2>2
<1>6. ASSUME NEW q \in Reqs, Destroys(q)
      PROVE  EachCharged'
  <2>1. q \in Charged' /\ q \notin Charged /\ Charged \subseteq Charged'
    BY <1>2, <1>6 DEF Destroys, Charged, RefusedReset, StoreInv, TypeOK
  <2>2. dropped' = dropped \cup {con[q]} /\ con[q] \notin dropped
    BY <1>6 DEF Destroys, StoreInv, ConnInv
  <2> DEFINE g == [c \in dropped' |-> IF c = con[q] THEN q ELSE f[c]]
  <2>3. g \in [dropped' -> Charged']
    BY <1>1, <2>1, <2>2
  <2>4. \A c, d \in dropped' : g[c] = g[d] => c = d
    BY <1>1, <2>1, <2>2
  <2> QED
    BY <2>3, <2>4 DEF EachCharged
<1> QED
  BY <1>4, <1>5, <1>6, PoolMoves

\* No connection of the pool is lost but one for each refused reset (CheckEmail,
\* MysqlDao.cpp:187).
THEOREM ConnectionsAreKept == Spec => []ConnectionsKept
<1> DEFINE Kept == (\A c \in Conns : c \in idle \cup dropped \/ Lent(c)) /\ EachCharged
<1>1. ASSUME Init PROVE Kept
  <2>1. idle = Conns /\ dropped = {}
    BY <1>1 DEF Init
  <2> DEFINE none == [c \in {} |-> None]
  <2>2. none \in [{} -> Charged]
    OBVIOUS
  <2>3. EachCharged
    BY <2>1, <2>2 DEF EachCharged
  <2> QED
    BY <2>1, <2>3
<1>2. AccountInv /\ Kept /\ [Next]_vars => Kept'
  BY LentStep, ChargedStep DEF AccountInv
<1>3. Kept => ConnectionsKept
  BY DEF ConnectionsKept, Lent, EachCharged, Charged
<1> QED
  BY <1>1, <1>2, <1>3, AccountInvariant, PTL DEF Spec

-----------------------------------------------------------------------------
(* The book of accounts                                                    *)

(***************************************************************************)
(* Why the table is a book: a transaction reads accounts that exist, a     *)
(* password is changed only for those who knew the e-mail, and one that    *)
(* waits in a connection for somebody's COMMIT was set by a request that   *)
(* has been answered with success.                                         *)
(***************************************************************************)
BookInv ==
  /\ \A q \in Reqs : pc[q] = "new" => req[q] = None
  /\ \A q \in Reqs : newId[q] # 0 => pc[q] \in {"insert", "commit"} \cup Answered
  /\ \A c \in Conns : snap[c] # None => \A r \in snap[c] : Version(r)
  /\ \A q \in Reqs : pc[q] \in {"UpdatePwd", "updating"} => Book!Proven(q)
  /\ \A c \in Conns : \A r \in pend[c] :
       Inserted(c, r) \/ \E p \in Reqs : pc[p] = "ok" /\ Book!SetBy(p, r)

\* What a step can do to the request p on its way through the DAO.
Onward(p) ==
  /\ pc'[p] = "new" => pc[p] = "new" /\ req'[p] = req[p]
  /\ pc[p] = "ok" => pc'[p] = "ok"
  /\ newId'[p] # 0 => \/ pc'[p] = "insert"
                      \/ newId'[p] = newId[p] /\ pc'[p] \in {"commit"} \cup Answered
  /\ pc'[p] \in {"UpdatePwd", "updating"} =>
       pc[p] \in {"UpdatePwd", "updating"} \/ CheckEmail(p)

\* What a step can do to the sessions that changes no account and inserts none.
Undisturbed ==
  /\ \A c \in Conns : pend'[c] \in {pend[c], {}}
  /\ \A p \in Reqs, c \in Conns :
       (pc[p] = "commit" /\ con[p] = c /\ live[c] /\ pend'[c] # {}) =>
         /\ pc'[p] = "commit" /\ con'[p] = c /\ live'[c]
         /\ newId'[p] = newId[p] /\ req'[p] = req[p]

\* Every request goes forward only.
LEMMA OnwardStep ==
  ASSUME StoreInv, BookInv, [Next]_vars
  PROVE  \A p \in Reqs : Onward(p)
<1> USE StoreAssumption DEF Answered
<1>1. ASSUME NEW q \in Reqs, Arrive(q) PROVE \A p \in Reqs : Onward(p)
  BY <1>1 DEF Arrive, Onward, BookInv, StoreInv, TypeOK, FirstCall, Kinds, HttpKinds
<1>2. ASSUME NEW q \in Reqs, GetConnection(q) PROVE \A p \in Reqs : Onward(p)
  <2>1. /\ UNCHANGED <<newId, req>> /\ pc[q] \in Waiting
        /\ pc' = [pc EXCEPT ![q] = FirstStep[pc[q]]]
    BY <1>2 DEF GetConnection
  <2>2. /\ FirstStep[pc[q]] \in {"email", "checking", "updating", "password", "friends",
                                 "uid", "pair"}
        /\ FirstStep[pc[q]] = "updating" => pc[q] = "UpdatePwd"
    BY <2>1 DEF Waiting, FirstStep
  <2>3. \A p \in Reqs : /\ p # q => pc'[p] = pc[p]
                        /\ p = q => pc'[p] = FirstStep[pc[q]]
    BY <2>1 DEF StoreInv, TypeOK
  <2>4. newId[q] = 0
    BY <2>1 DEF BookInv, Waiting, StoreInv, TypeOK
  <2>5. ASSUME NEW p \in Reqs, p # q PROVE Onward(p)
    BY <2>1, <2>3, <2>5 DEF Onward, BookInv
  <2>6. Onward(q)
    BY <2>1, <2>2, <2>3, <2>4 DEF Onward, Waiting
  <2> QED
    BY <2>5, <2>6
<1>3. ASSUME NEW q \in Reqs, SelectEmail(q) PROVE \A p \in Reqs : Onward(p)
  BY <1>3 DEF SelectEmail, At, Onward, BookInv, StoreInv, TypeOK, Return, Go
<1>4. ASSUME NEW q \in Reqs, SelectName(q) PROVE \A p \in Reqs : Onward(p)
  BY <1>4 DEF SelectName, At, Onward, BookInv, StoreInv, TypeOK, Return, Go
<1>5. ASSUME NEW q \in Reqs, TakeId(q) PROVE \A p \in Reqs : Onward(p)
  BY <1>5 DEF TakeId, At, Onward, BookInv, StoreInv, TypeOK, Go
<1>6. ASSUME NEW q \in Reqs, InsertUser(q) PROVE \A p \in Reqs : Onward(p)
  BY <1>6 DEF InsertUser, At, Onward, BookInv, StoreInv, TypeOK, Go
<1>7. ASSUME NEW q \in Reqs, InsertFails(q) PROVE \A p \in Reqs : Onward(p)
  BY <1>7 DEF InsertFails, At, Onward, BookInv, StoreInv, TypeOK, Return
<1>8. ASSUME NEW q \in Reqs, Commit(q) PROVE \A p \in Reqs : Onward(p)
  BY <1>8 DEF Commit, At, Onward, BookInv, StoreInv, TypeOK, Return
<1>9. ASSUME NEW q \in Reqs, CheckEmail(q) PROVE \A p \in Reqs : Onward(p)
  BY <1>9 DEF CheckEmail, At, Onward, BookInv, StoreInv, TypeOK, Return
<1>10. ASSUME NEW q \in Reqs, UpdatePwd(q) PROVE \A p \in Reqs : Onward(p)
  BY <1>10 DEF UpdatePwd, At, Onward, BookInv, StoreInv, TypeOK, Return
<1>11. ASSUME NEW q \in Reqs, CheckPwd(q) PROVE \A p \in Reqs : Onward(p)
  BY <1>11 DEF CheckPwd, At, Onward, BookInv, StoreInv, TypeOK, Return
<1>12. ASSUME NEW q \in Reqs, GetFriend(q) PROVE \A p \in Reqs : Onward(p)
  BY <1>12 DEF GetFriend, At, Onward, BookInv, StoreInv, TypeOK, Return
<1>13. ASSUME NEW q \in Reqs, LockFails(q) PROVE \A p \in Reqs : Onward(p)
  BY <1>13 DEF LockFails, At, Onward, BookInv, StoreInv, TypeOK, Return
<1>14. ASSUME NEW q \in Reqs, Broken(q) PROVE \A p \in Reqs : Onward(p)
  BY <1>14 DEF Broken, Onward, BookInv, StoreInv, TypeOK, Return, Steps, RegSteps, PairSteps
<1>15. ASSUME NEW q \in Reqs, CommitUnheard(q) PROVE \A p \in Reqs : Onward(p)
  BY <1>15 DEF CommitUnheard, At, Onward, BookInv, StoreInv, TypeOK
<1>16. ASSUME NEW c \in Conns, Reconnect(c) PROVE \A p \in Reqs : Onward(p)
  BY <1>16 DEF Reconnect, Onward, BookInv, StoreInv, TypeOK
<1>17. ASSUME NEW c \in Conns, ConnectionLost(c) PROVE \A p \in Reqs : Onward(p)
  BY <1>17 DEF ConnectionLost, Onward, BookInv, StoreInv, TypeOK
<1>18. CASE UNCHANGED vars
  BY <1>18 DEF vars, Onward, BookInv
<1>19. ASSUME NEW q \in Reqs, GetUid(q) PROVE \A p \in Reqs : Onward(p)
  BY <1>19 DEF GetUid, At, Onward, BookInv, StoreInv, TypeOK, Return
<1>20. ASSUME NEW q \in Reqs, FindPair(q) PROVE \A p \in Reqs : Onward(p)
  BY <1>20 DEF FindPair, At, Onward, BookInv, StoreInv, TypeOK, Return, Go
<1>21. ASSUME NEW q \in Reqs, InsertFriend(q) PROVE \A p \in Reqs : Onward(p)
  BY <1>21 DEF InsertFriend, At, Onward, BookInv, StoreInv, TypeOK, Return, Go
<1>22. ASSUME NEW q \in Reqs, InsertFriendFails(q) PROVE \A p \in Reqs : Onward(p)
  BY <1>22 DEF InsertFriendFails, At, Onward, BookInv, StoreInv, TypeOK, Return
<1>23. ASSUME GhostEnds PROVE \A p \in Reqs : Onward(p)
  BY <1>23 DEF GhostEnds, Onward, BookInv, StoreInv, TypeOK
<1> QED
  BY <1>1, <1>2, <1>3, <1>4, <1>5, <1>6, <1>7, <1>8, <1>9, <1>10, <1>11, <1>12,
     <1>13, <1>14, <1>15, <1>16, <1>17, <1>18, <1>19, <1>20, <1>21, <1>22, <1>23
  DEF Next, Handle

\* Only the INSERT of a registration and the UPDATE of a reset change what a
\* transaction has not committed.
LEMMA UndisturbedStep ==
  ASSUME StoreInv, [Next]_vars,
         \A q \in Reqs : ~InsertUser(q) /\ ~UpdatePwd(q)
  PROVE  Undisturbed
<1> USE StoreAssumption
<1>1. ASSUME NEW q \in Reqs, Arrive(q) PROVE Undisturbed
  BY <1>1 DEF Arrive, Undisturbed, sessions
<1>2. ASSUME NEW q \in Reqs, GetConnection(q) PROVE Undisturbed
  BY <1>2, Borrow DEF GetConnection, Undisturbed, sessions, Waiting, StoreInv, TypeOK
<1>3. ASSUME NEW q \in Reqs, SelectEmail(q) PROVE Undisturbed
  <2>1. \A d \in Conns : pend'[d] \in {pend[d], {}}
    BY <1>3 DEF SelectEmail, EndTransaction, StoreInv, TypeOK
  <2> QED
    BY <1>3, <2>1 DEF SelectEmail, Undisturbed, Return, Go, EndTransaction, At, StoreInv,
         TypeOK
<1>4. ASSUME NEW q \in Reqs, SelectName(q) PROVE Undisturbed
  <2>1. \A d \in Conns : pend'[d] \in {pend[d], {}}
    BY <1>4 DEF SelectName, EndTransaction, StoreInv, TypeOK
  <2> QED
    BY <1>4, <2>1 DEF SelectName, Undisturbed, Return, Go, EndTransaction, At, StoreInv,
         TypeOK
<1>5. ASSUME NEW q \in Reqs, TakeId(q) PROVE Undisturbed
  BY <1>5 DEF TakeId, Undisturbed, Go, At
<1>6. ASSUME NEW q \in Reqs, InsertUser(q) PROVE Undisturbed
  BY <1>6
<1>7. ASSUME NEW q \in Reqs, InsertFails(q) PROVE Undisturbed
  <2>1. \A d \in Conns : pend'[d] \in {pend[d], {}}
    BY <1>7 DEF InsertFails, EndTransaction, StoreInv, TypeOK
  <2> QED
    BY <1>7, <2>1 DEF InsertFails, Undisturbed, Return, EndTransaction, At
<1>8. ASSUME NEW q \in Reqs, Commit(q) PROVE Undisturbed
  <2>1. \A d \in Conns : pend'[d] \in {pend[d], {}}
    BY <1>8 DEF Commit, CommitRows, EndTransaction, StoreInv, TypeOK
  <2> QED
    BY <1>8, <2>1 DEF Commit, Undisturbed, Return, CommitRows, EndTransaction, StoreInv,
         TypeOK
<1>9. ASSUME NEW q \in Reqs, CheckEmail(q) PROVE Undisturbed
  <2>1. \A d \in Conns : pend'[d] \in {pend[d], {}}
    BY <1>9 DEF CheckEmail, EndTransaction, StoreInv, TypeOK
  <2> QED
    BY <1>9, <2>1 DEF CheckEmail, Undisturbed, Return, EndTransaction, At, StoreInv, TypeOK
<1>10. ASSUME NEW q \in Reqs, UpdatePwd(q) PROVE Undisturbed
  BY <1>10
<1>11. ASSUME NEW q \in Reqs, CheckPwd(q) PROVE Undisturbed
  BY <1>11 DEF CheckPwd, Undisturbed, Return, At, StoreInv, TypeOK
<1>12. ASSUME NEW q \in Reqs, GetFriend(q) PROVE Undisturbed
  BY <1>12 DEF GetFriend, Undisturbed, Return, At
<1>13. ASSUME NEW q \in Reqs, LockFails(q) PROVE Undisturbed
  <2>1. \A d \in Conns : pend'[d] \in {pend[d], {}}
    BY <1>13 DEF LockFails, EndTransaction, StoreInv, TypeOK
  <2> QED
    BY <1>13, <2>1 DEF LockFails, Undisturbed, Return, EndTransaction, At, StoreInv, TypeOK
<1>14. ASSUME NEW q \in Reqs, Broken(q) PROVE Undisturbed
  BY <1>14 DEF Broken, Undisturbed, sessions, Return
<1>15. ASSUME NEW q \in Reqs, CommitUnheard(q) PROVE Undisturbed
  <2>1. \A d \in Conns : pend'[d] \in {pend[d], {}}
    BY <1>15 DEF CommitUnheard, CommitRows, EndTransaction, StoreInv, TypeOK
  <2> QED
    BY <1>15, <2>1 DEF CommitUnheard, Undisturbed, CommitRows, EndTransaction, StoreInv,
         TypeOK
<1>16. ASSUME NEW c \in Conns, Reconnect(c) PROVE Undisturbed
  BY <1>16 DEF Reconnect, Undisturbed
<1>17. ASSUME NEW c \in Conns, ConnectionLost(c) PROVE Undisturbed
  <2>1. \A d \in Conns : pend'[d] \in {pend[d], {}}
    BY <1>17 DEF ConnectionLost, EndTransaction, StoreInv, TypeOK
  <2> QED
    BY <1>17, <2>1 DEF ConnectionLost, Undisturbed, EndTransaction, StoreInv, TypeOK
<1>18. CASE UNCHANGED vars
  BY <1>18 DEF vars, Undisturbed, sessions
<1>19. ASSUME NEW q \in Reqs, GetUid(q) PROVE Undisturbed
  BY <1>19 DEF GetUid, Undisturbed, Return, At, StoreInv, TypeOK
<1>20. ASSUME NEW q \in Reqs, FindPair(q) PROVE Undisturbed
  BY <1>20 DEF FindPair, Undisturbed, Return, Go, At, StoreInv, TypeOK
<1>21. ASSUME NEW q \in Reqs, InsertFriend(q) PROVE Undisturbed
  BY <1>21 DEF InsertFriend, Undisturbed, Return, Go, At, StoreInv, TypeOK
<1>22. ASSUME NEW q \in Reqs, InsertFriendFails(q) PROVE Undisturbed
  <2>1. \A d \in Conns : pend'[d] \in {pend[d], {}}
    BY <1>22 DEF InsertFriendFails, EndTransaction, StoreInv, TypeOK
  <2> QED
    BY <1>22, <2>1 DEF InsertFriendFails, Undisturbed, Return, EndTransaction, At, StoreInv,
         TypeOK
<1>23. ASSUME GhostEnds PROVE Undisturbed
  BY <1>23 DEF GhostEnds, Undisturbed
<1> QED
  BY <1>1, <1>2, <1>3, <1>4, <1>5, <1>6, <1>7, <1>8, <1>9, <1>10, <1>11, <1>12,
     <1>13, <1>14, <1>15, <1>16, <1>17, <1>18, <1>19, <1>20, <1>21, <1>22, <1>23
  DEF Next, Handle

\* A snapshot is empty, the table, or the one that was there.
LEMMA SnapshotStep ==
  ASSUME StoreInv, [Next]_vars, NEW d \in Conns
  PROVE  snap'[d] \in {snap[d], None, rows}
<1>1. ASSUME NEW q \in Reqs, Arrive(q) PROVE snap'[d] \in {snap[d], None, rows}
  BY <1>1 DEF Arrive, sessions
<1>2. ASSUME NEW q \in Reqs, GetConnection(q) PROVE snap'[d] \in {snap[d], None, rows}
  BY <1>2 DEF GetConnection, sessions
<1>3. ASSUME NEW q \in Reqs, SelectEmail(q) PROVE snap'[d] \in {snap[d], None, rows}
  BY <1>3 DEF SelectEmail, EndTransaction, Base, StoreInv, TypeOK
<1>4. ASSUME NEW q \in Reqs, SelectName(q) PROVE snap'[d] \in {snap[d], None, rows}
  BY <1>4 DEF SelectName, EndTransaction, Select, Base, StoreInv, TypeOK
<1>5. ASSUME NEW q \in Reqs, TakeId(q) PROVE snap'[d] \in {snap[d], None, rows}
  BY <1>5 DEF TakeId
<1>6. ASSUME NEW q \in Reqs, InsertUser(q) PROVE snap'[d] \in {snap[d], None, rows}
  BY <1>6 DEF InsertUser
<1>7. ASSUME NEW q \in Reqs, InsertFails(q) PROVE snap'[d] \in {snap[d], None, rows}
  BY <1>7 DEF InsertFails, EndTransaction, StoreInv, TypeOK
<1>8. ASSUME NEW q \in Reqs, Commit(q) PROVE snap'[d] \in {snap[d], None, rows}
  BY <1>8 DEF Commit, CommitRows, EndTransaction, StoreInv, TypeOK
<1>9. ASSUME NEW q \in Reqs, CheckEmail(q) PROVE snap'[d] \in {snap[d], None, rows}
  BY <1>9 DEF CheckEmail, EndTransaction, Select, Base, StoreInv, TypeOK
<1>10. ASSUME NEW q \in Reqs, UpdatePwd(q) PROVE snap'[d] \in {snap[d], None, rows}
  BY <1>10 DEF UpdatePwd
<1>11. ASSUME NEW q \in Reqs, CheckPwd(q) PROVE snap'[d] \in {snap[d], None, rows}
  BY <1>11 DEF CheckPwd, Select, Base, StoreInv, TypeOK
<1>12. ASSUME NEW q \in Reqs, GetFriend(q) PROVE snap'[d] \in {snap[d], None, rows}
  BY <1>12 DEF GetFriend, Select, Base, StoreInv, TypeOK
<1>13. ASSUME NEW q \in Reqs, LockFails(q) PROVE snap'[d] \in {snap[d], None, rows}
  BY <1>13 DEF LockFails, EndTransaction, StoreInv, TypeOK
<1>14. ASSUME NEW q \in Reqs, Broken(q) PROVE snap'[d] \in {snap[d], None, rows}
  BY <1>14 DEF Broken, sessions
<1>15. ASSUME NEW q \in Reqs, CommitUnheard(q) PROVE snap'[d] \in {snap[d], None, rows}
  BY <1>15 DEF CommitUnheard, CommitRows, EndTransaction, StoreInv, TypeOK
<1>16. ASSUME NEW c \in Conns, Reconnect(c) PROVE snap'[d] \in {snap[d], None, rows}
  BY <1>16 DEF Reconnect
<1>17. ASSUME NEW c \in Conns, ConnectionLost(c) PROVE snap'[d] \in {snap[d], None, rows}
  BY <1>17 DEF ConnectionLost, EndTransaction, StoreInv, TypeOK
<1>18. CASE UNCHANGED vars
  BY <1>18 DEF vars, sessions
<1>19. ASSUME NEW q \in Reqs, GetUid(q) PROVE snap'[d] \in {snap[d], None, rows}
  BY <1>19 DEF GetUid, Select, Base, StoreInv, TypeOK
<1>20. ASSUME NEW q \in Reqs, FindPair(q) PROVE snap'[d] \in {snap[d], None, rows}
  BY <1>20 DEF FindPair, Select, Base, StoreInv, TypeOK
<1>21. ASSUME NEW q \in Reqs, InsertFriend(q) PROVE snap'[d] \in {snap[d], None, rows}
  BY <1>21 DEF InsertFriend
<1>22. ASSUME NEW q \in Reqs, InsertFriendFails(q) PROVE snap'[d] \in {snap[d], None, rows}
  BY <1>22 DEF InsertFriendFails, EndTransaction, StoreInv, TypeOK
<1>23. ASSUME GhostEnds PROVE snap'[d] \in {snap[d], None, rows}
  BY <1>23 DEF GhostEnds
<1> QED
  BY <1>1, <1>2, <1>3, <1>4, <1>5, <1>6, <1>7, <1>8, <1>9, <1>10, <1>11, <1>12,
     <1>13, <1>14, <1>15, <1>16, <1>17, <1>18, <1>19, <1>20, <1>21, <1>22, <1>23
  DEF Next, Handle

\* The UPDATE of a reset writes its password, to rows of its name only.
LEMMA PwdSet ==
  ASSUME StoreInv, NEW q \in Reqs, con[q] \in Conns, NEW r \in NewVersions(q)
  PROVE  r.name = req[q].name /\ r.pwd = req[q].pwd
<1>1. PICK t \in Over(rows, pend[con[q]]) :
        t.name = req[q].name /\ r = [t EXCEPT !.pwd = req[q].pwd]
  BY DEF NewVersions
<1>2. t \in Rows
  BY OverType DEF StoreInv, TypeOK
<1> QED
  BY <1>1, <1>2 DEF Rows

\* An e-mail that was right stays right: nobody renames an account or changes its e-mail.
LEMMA ProvenStays ==
  ASSUME AccountInv, [Next]_vars, NEW q \in Reqs, Book!Proven(q), req'[q] = req[q]
  PROVE  Book!Proven(q)'
<1>1. \A r \in rows : \E s \in rows' : SameAccount(r, s)
  BY AccountsKept DEF AccountInv
<1> QED
  BY <1>1 DEF Book!Proven, SameAccount

\* A request that was answered with success, and what it has set, stay so.
LEMMA SetByStays ==
  ASSUME AccountInv, BookInv, [Next]_vars, NEW p \in Reqs, NEW r,
         pc[p] = "ok", Book!SetBy(p, r)
  PROVE  pc'[p] = "ok" /\ Book!SetBy(p, r)'
<1>1. pc'[p] = "ok"
  BY OnwardStep DEF AccountInv, Onward
<1>2. req'[p] = req[p]
  BY SettledStep DEF AccountInv, Settled
<1> QED
  BY <1>1, <1>2, ProvenStays DEF Book!SetBy

\* What a SELECT finds is an account of the table: only the transaction of a
\* registration that is about to commit has a row that is none.
LEMMA ViewVersions ==
  ASSUME StoreInv, PendInv, BookInv, NEW q \in Reqs, con[q] \in Conns, pc[q] # "commit",
         NEW r \in View(con[q])
  PROVE  Version(r)
<1>1. CASE r \in Base(con[q])
  BY <1>1 DEF Base, BookInv, Version, SameAccount
<1>2. CASE r \in pend[con[q]]
  <2>1. ~Inserted(con[q], r)
    BY StoreAssumption DEF Inserted, StoreInv, ConnInv
  <2> QED
    BY <1>2, <2>1 DEF PendInv
<1> QED
  BY <1>1, <1>2 DEF View, Over

\* A reset comes to its UPDATE only through CheckEmail.
LEMMA CheckedStep ==
  ASSUME AccountInv, BookInv, [Next]_vars, NEW q \in Reqs,
         pc'[q] \in {"UpdatePwd", "updating"}
  PROVE  Book!Proven(q)'
<1>1. pc[q] \in {"UpdatePwd", "updating"} \/ CheckEmail(q)
  BY OnwardStep DEF AccountInv, Onward
<1>2. CASE pc[q] \in {"UpdatePwd", "updating"}
  <2>1. req'[q] = req[q]
    BY <1>2, SettledStep DEF AccountInv, Settled
  <2> QED
    BY <1>2, <2>1, ProvenStays DEF BookInv
<1>3. CASE CheckEmail(q)
  <2>1. con[q] \in Conns /\ pc[q] = "checking" /\ req'[q] = req[q]
    BY <1>3 DEF CheckEmail, At, AccountInv, StoreInv, ConnInv, Steps
  <2>2. PICK r \in View(con[q]) : r.name = req[q].name /\ r.email = req[q].email
    BY <1>3 DEF CheckEmail, Return, AccountInv, StoreInv, TypeOK
  <2>3. Version(r)
    BY <2>1, ViewVersions DEF AccountInv
  <2>4. Book!Proven(q)
    BY <2>2, <2>3 DEF Version, SameAccount, Book!Proven
  <2> QED
    BY <2>1, <2>4, ProvenStays
<1> QED
  BY <1>1, <1>2, <1>3

\* What a connection has not committed is the row of a registration, or was set by
\* a request that has been answered with success.
LEMMA OwedStep ==
  ASSUME AccountInv, BookInv, [Next]_vars, NEW c \in Conns, NEW r \in pend'[c]
  PROVE  Inserted(c, r)' \/ \E p \in Reqs : pc'[p] = "ok" /\ Book!SetBy(p, r)'
<1>1. r \in pend[c] => Inserted(c, r) \/ \E p \in Reqs : pc[p] = "ok" /\ Book!SetBy(p, r)
  BY DEF BookInv
<1>2. ASSUME NEW p \in Reqs, pc[p] = "ok", Book!SetBy(p, r)
      PROVE  pc'[p] = "ok" /\ Book!SetBy(p, r)'
  BY <1>2, SetByStays
<1>3. ASSUME NEW q \in Reqs, InsertUser(q)
      PROVE  \/ r \in pend[c] /\ (Inserted(c, r) => Inserted(c, r)')
             \/ Inserted(c, r)'
  <2>1. /\ pend' = [pend EXCEPT ![con[q]] = @ \cup {NewRow(q)}]
        /\ pc[q] = "insert" /\ pc' = [pc EXCEPT ![q] = "commit"]
        /\ live[con[q]] /\ UNCHANGED <<con, live, newId, req>>
    BY <1>3 DEF InsertUser, At, Go
  <2>2. CASE r \in pend[c]
    BY <2>1, <2>2 DEF Inserted, NewRow
  <2>3. CASE r \notin pend[c]
    <3>1. c = con[q] /\ r = NewRow(q)
      BY <2>1, <2>3 DEF AccountInv, StoreInv, TypeOK
    <3> QED
      BY <2>1, <3>1 DEF Inserted, NewRow, AccountInv, StoreInv, TypeOK
  <2> QED
    BY <2>2, <2>3
<1>4. ASSUME NEW q \in Reqs, UpdatePwd(q)
      PROVE  \/ r \in pend[c] /\ (Inserted(c, r) => Inserted(c, r)')
             \/ pc'[q] = "ok" /\ Book!SetBy(q, r)'
  <2>1. /\ pc[q] = "updating" /\ pc' = [pc EXCEPT ![q] = "ok"]
        /\ con' = [con EXCEPT ![q] = None]
        /\ con[q] \in Conns /\ UNCHANGED <<live, newId, req>>
    BY <1>4 DEF UpdatePwd, At, Return, AccountInv, StoreInv, ConnInv, Steps
  <2>2. r \in pend[c] \/ r \in NewVersions(q)
    BY <1>4 DEF UpdatePwd, Over, AccountInv, StoreInv, TypeOK
  <2>3. CASE r \in pend[c]
    BY <2>1, <2>3 DEF Inserted, NewRow, AccountInv, StoreInv, TypeOK
  <2>4. CASE r \in NewVersions(q)
    <3>1. r.name = req[q].name /\ r.pwd = req[q].pwd
      BY <2>1, <2>4, PwdSet DEF AccountInv
    <3>2. req[q].kind = "reset" /\ Book!Proven(q)
      BY <2>1 DEF AccountInv, KindInv, BookInv
    <3>3. Book!Proven(q)'
      BY <2>1, <3>2, ProvenStays
    <3> QED
      BY <2>1, <3>1, <3>2, <3>3 DEF Book!SetBy, AccountInv, StoreInv, TypeOK
  <2> QED
    BY <2>2, <2>3, <2>4
<1>5. CASE \A q \in Reqs : ~InsertUser(q) /\ ~UpdatePwd(q)
  <2>1. Undisturbed
    BY <1>5, UndisturbedStep DEF AccountInv
  <2>2. r \in pend[c] /\ pend'[c] # {}
    BY <2>1 DEF Undisturbed
  <2>3. Inserted(c, r) => Inserted(c, r)'
    BY <2>1, <2>2 DEF Undisturbed, Inserted, NewRow
  <2> QED
    BY <1>1, <1>2, <2>2, <2>3
<1> QED
  BY <1>1, <1>2, <1>3, <1>4, <1>5

\* The book stays one.
LEMMA BookStep ==
  ASSUME AccountInv, BookInv, [Next]_vars
  PROVE  BookInv'
<1>1. \A p \in Reqs : Onward(p)
  BY OnwardStep DEF AccountInv
<1>2. \A q \in Reqs : pc'[q] = "new" => req'[q] = None
  BY <1>1 DEF Onward, BookInv
<1>3. \A q \in Reqs : newId'[q] # 0 => pc'[q] \in {"insert", "commit"} \cup Answered
  BY <1>1 DEF Onward
<1>4. ASSUME NEW c \in Conns, snap'[c] # None, NEW r \in snap'[c] PROVE Version(r)'
  <2>1. snap'[c] \in {snap[c], None, rows}
    BY SnapshotStep DEF AccountInv
  <2>2. Version(r)
    BY <1>4, <2>1 DEF BookInv, Version, SameAccount
  <2>3. \A t \in rows : \E s \in rows' : SameAccount(t, s)
    BY AccountsKept DEF AccountInv
  <2> QED
    BY <2>2, <2>3 DEF Version, SameAccount
<1> QED
  BY <1>2, <1>3, <1>4, CheckedStep, OwedStep DEF BookInv

-----------------------------------------------------------------------------
(* Every step of the store is a step of the book, or none                  *)

\* What the clients have been told.
Told == [q \in Reqs |-> IF pc[q] \in Answered THEN pc[q] ELSE "none"]

\* A step that changes neither the table, nor a uid, nor what a client was told.
LEMMA NothingTold ==
  ASSUME UNCHANGED <<rows, req, newId>>,
         \A p \in Reqs : pc'[p] = pc[p] \/ {pc[p], pc'[p]} \cap Answered = {}
  PROVE  UNCHANGED Book!vars
<1>1. Told' = Told
  BY DEF Told
<1> QED
  BY <1>1 DEF Told, Book!vars

\* A handler goes on to p without an answer.
LEMMA GoesOn ==
  ASSUME StoreInv, NEW q \in Reqs, NEW p, UNCHANGED <<rows, req, newId>>,
         pc' = [pc EXCEPT ![q] = p], {pc[q], p} \cap Answered = {}
  PROVE  UNCHANGED Book!vars
<1>1. \A r \in Reqs : pc'[r] = IF r = q THEN p ELSE pc[r]
  BY DEF StoreInv, TypeOK
<1> QED
  BY <1>1, NothingTold

\* One client is told a.
LEMMA OneTold ==
  ASSUME StoreInv, NEW q \in Reqs, NEW a \in Answered, pc[q] \in Steps,
         pc' = [pc EXCEPT ![q] = a]
  PROVE  Told' = [Told EXCEPT ![q] = a] /\ Told[q] = "none" /\ req[q] # None
<1>1. pc[q] \notin Answered \cup {"new"}
  BY DEF Steps, RegSteps, PairSteps, Answered
<1>2. Told' = [Told EXCEPT ![q] = a] /\ Told[q] = "none"
  BY <1>1 DEF Told, StoreInv, TypeOK
<1>3. req[q] # None
  BY <1>1, StoreAssumption DEF StoreInv, ConnInv
<1> QED
  BY <1>2, <1>3

\* An answer that enters nothing and sets nothing.
LEMMA Answers ==
  ASSUME AccountInv, NEW q \in Reqs, NEW a \in Answered, pc[q] \in Steps,
         UNCHANGED <<rows, req, newId>>, pc' = [pc EXCEPT ![q] = a],
         pc[q] \in RegSteps =>
           a = "lost" \/ (a = "refused" /\ (newId[q] = 0 \/ Book!Fresh(newId[q]))),
         pc[q] \in {"checking", "updating"} => a = "refused",
         pc[q] \notin RegSteps => a # "lost"
  PROVE  Book!Answer(q)
<1>1. Told' = [Told EXCEPT ![q] = a] /\ Told[q] = "none" /\ req[q] # None
  BY OneTold DEF AccountInv
<1>2. CASE pc[q] \in RegSteps
  <2>1. Book!Pending(q, "register")
    BY <1>1, <1>2 DEF AccountInv, StoreInv, ConnInv, Book!Pending, Told
  <2> QED
    BY <1>1, <1>2, <2>1 DEF Book!Answer, Told
<1>3. CASE pc[q] \in {"checking", "updating"}
  <2>1. Book!Pending(q, "reset")
    BY <1>1, <1>3 DEF AccountInv, KindInv, Book!Pending, Told
  <2> QED
    BY <1>1, <1>3, <2>1 DEF Book!Answer, Told
<1>4. CASE pc[q] \in {"password", "friends", "uid"} \cup PairSteps
  <2>1. \E k \in {"login", "chat", "friend"} : Book!Pending(q, k)
    BY <1>1, <1>4 DEF AccountInv, KindInv, Book!Pending, Told
  <2>2. a \in {"ok", "refused"}
    BY <1>4 DEF Answered, RegSteps, PairSteps
  <2> QED
    BY <1>1, <2>1, <2>2 DEF Book!Answer, Told
<1> QED
  BY <1>2, <1>3, <1>4 DEF Steps

\* The uid of a registration whose connection works is one that no account has.
LEMMA FreshUid ==
  ASSUME AccountInv, NEW q \in Reqs, pc[q] \in {"insert", "commit"}, live[con[q]]
  PROVE  newId[q] = lastId + 1 /\ Book!Fresh(newId[q]) /\ newId[q] \in Nat \ {0}
<1>1. con[q] \in Conns
  BY DEF AccountInv, StoreInv, ConnInv, Steps, RegSteps
<1>2. newId[q] = lastId + 1 /\ lastId \in Nat
  BY <1>1 DEF AccountInv, CounterInv, StoreInv, TypeOK
<1>3. \A r \in rows : r.uid <= lastId /\ r.uid \in Nat
  BY DEF AccountInv, RowInv, StoreInv, TypeOK, Rows
<1> QED
  BY <1>2, <1>3 DEF Book!Fresh

\* TakeId gives a uid that no account has: nobody else has raised user_id, and the
\* connection has not either.
LEMMA TakeGives ==
  ASSUME AccountInv, BookInv, NEW q \in Reqs, TakeId(q)
  PROVE  Book!Give(q)
<1>1. con[q] \in Conns /\ pc[q] = "id"
  BY DEF TakeId, At, AccountInv, StoreInv, ConnInv, Steps, RegSteps
<1>2. pendId[con[q]] = 0
  BY <1>1, StoreAssumption DEF AccountInv, CounterInv, StoreInv, ConnInv
<1>3. newId' = [newId EXCEPT ![q] = lastId + 1] /\ lastId \in Nat /\ newId \in [Reqs -> Nat]
  BY <1>2 DEF TakeId, AccountInv, StoreInv, TypeOK
<1>4. newId'[q] \in Nat \ {0} /\ Book!Fresh(newId'[q])
  <2>1. \A r \in rows : r.uid <= lastId /\ r.uid \in Nat
    BY DEF AccountInv, RowInv, StoreInv, TypeOK, Rows
  <2> QED
    BY <1>3, <2>1 DEF Book!Fresh
<1>5. newId[q] = 0 /\ newId' = [newId EXCEPT ![q] = newId'[q]]
  BY <1>1, <1>3 DEF BookInv, Answered
<1>6. Book!Pending(q, "register")
  BY <1>1, StoreAssumption
  DEF AccountInv, StoreInv, ConnInv, RegSteps, Answered, Book!Pending
<1>7. UNCHANGED <<rows, req>> /\ Told' = Told
  BY <1>1 DEF TakeId, Go, tables, Told, Answered, AccountInv, StoreInv, TypeOK
<1> QED
  BY <1>4, <1>5, <1>6, <1>7 DEF Book!Give, Told

\* A COMMIT enters the account of its registration, and what it makes visible besides
\* was set by requests that have been answered.
LEMMA CommitEnters ==
  ASSUME AccountInv, BookInv, [Next]_vars, NEW q \in Reqs, At(q, "commit"),
         CommitRows(con[q])
  PROVE  /\ NewRow(q) \in rows'
         /\ Book!Repassworded(rows' \ {NewRow(q)}, {p \in Reqs : pc[p] = "ok"})
<1>1. con[q] \in Conns /\ pc[q] = "commit" /\ live[con[q]]
  BY DEF At, AccountInv, StoreInv, ConnInv, Steps, RegSteps
<1>2. rows' = Over(rows, pend[con[q]])
  BY DEF CommitRows
<1>3. NewRow(q) \in rows'
  BY <1>1, <1>2 DEF AccountInv, InsertedInv, Over
<1>4. ASSUME NEW r \in rows
      PROVE  \E s \in rows' \ {NewRow(q)} : SameAccount(r, s)
  <2>1. PICK s \in rows' : SameAccount(r, s)
    BY AccountsKept DEF AccountInv
  <2>2. r.uid <= lastId /\ r.uid \in Nat
    BY DEF AccountInv, RowInv, StoreInv, TypeOK, Rows
  <2>3. NewRow(q).uid = lastId + 1 /\ lastId \in Nat
    BY <1>1, FreshUid DEF NewRow, AccountInv, StoreInv, TypeOK
  <2>4. s # NewRow(q)
    BY <2>1, <2>2, <2>3 DEF SameAccount
  <2> QED
    BY <2>1, <2>4
<1>5. ASSUME NEW s \in rows' \ {NewRow(q)}, s \notin rows
      PROVE  \E r \in rows, p \in Reqs : pc[p] = "ok" /\ SameAccount(r, s) /\ Book!SetBy(p, s)
  <2>1. s \in pend[con[q]]
    BY <1>2, <1>5 DEF Over
  <2>2. ~Inserted(con[q], s)
    BY <1>1, <1>5, StoreAssumption DEF Inserted, AccountInv, StoreInv, ConnInv
  <2>3. Version(s)
    BY <1>1, <2>1, <2>2 DEF AccountInv, PendInv
  <2>4. PICK p \in Reqs : pc[p] = "ok" /\ Book!SetBy(p, s)
    BY <1>1, <2>1, <2>2 DEF BookInv
  <2>5. PICK r \in rows : SameAccount(r, s)
    BY <2>3 DEF Version, SameAccount
  <2> QED
    BY <2>4, <2>5
<1>6. \A r, s \in rows' : r.uid = s.uid => r = s
  BY RowStep DEF AccountInv, RowInv, UidsUnique
<1> QED
  BY <1>3, <1>4, <1>5, <1>6 DEF Book!Repassworded, Book!SameAccount, SameAccount

\* Whether the client hears of it or not, a COMMIT is Register of the book.
LEMMA CommitRegisters ==
  ASSUME AccountInv, BookInv, [Next]_vars, NEW q \in Reqs, Commit(q) \/ CommitUnheard(q)
  PROVE  Book!Register(q)
<1>1. At(q, "commit") /\ CommitRows(con[q]) /\ UNCHANGED <<req, newId>>
  BY DEF Commit, CommitUnheard
<1>2. pc[q] = "commit" /\ live[con[q]]
  BY <1>1 DEF At
<1>3. NewRow(q) \in rows' /\
      Book!Repassworded(rows' \ {NewRow(q)}, {p \in Reqs : pc[p] = "ok"})
  BY <1>1, CommitEnters
<1>4. Book!Done = {p \in Reqs : pc[p] = "ok"} /\ Book!Entry(q) = NewRow(q)
  BY DEF Book!Done, Answered, Book!Entry, NewRow
<1>5. Book!Pending(q, "register") /\ Book!Fresh(newId[q])
  BY <1>2, FreshUid, StoreAssumption
  DEF AccountInv, StoreInv, ConnInv, RegSteps, Answered, Book!Pending
<1>6. Told' = Told \/ Told' = [Told EXCEPT ![q] = "ok"]
  <2>1. CASE Commit(q)
    BY <1>2, <2>1, OneTold
    DEF Commit, Return, AccountInv, Answered, Steps, RegSteps
  <2>2. CASE CommitUnheard(q)
    BY <2>2 DEF CommitUnheard, Told
  <2> QED
    BY <2>1, <2>2
<1> QED
  BY <1>1, <1>3, <1>4, <1>5, <1>6 DEF Book!Register, Told

\* An UPDATE that is answered is Reset of the book, though in a transaction that
\* another request has left open nothing is visible yet.
LEMMA UpdateResets ==
  ASSUME AccountInv, BookInv, [Next]_vars, NEW q \in Reqs, UpdatePwd(q)
  PROVE  Book!Reset(q)
<1>1. /\ con[q] \in Conns /\ pc[q] = "updating" /\ UNCHANGED <<req, newId>>
      /\ pc' = [pc EXCEPT ![q] = "ok"]
  BY DEF UpdatePwd, At, Return, AccountInv, StoreInv, ConnInv, Steps
<1>2. Book!Proven(q) /\ req[q].kind = "reset"
  BY <1>1 DEF BookInv, AccountInv, KindInv
<1>3. Told' = [Told EXCEPT ![q] = "ok"] /\ Told[q] = "none" /\ req[q] # None
  BY <1>1, OneTold DEF AccountInv, Answered, Steps
<1>4. \A r \in rows : \E s \in rows' : SameAccount(r, s)
  BY AccountsKept DEF AccountInv
<1>5. ASSUME NEW s \in rows', s \notin rows
      PROVE  \E r \in rows : SameAccount(r, s) /\ Book!SetBy(q, s)
  <2>1. s \in NewVersions(q)
    BY <1>5 DEF UpdatePwd, Over
  <2>2. Version(s)
    BY <1>1, <2>1, VersionsAreVersions DEF AccountInv
  <2>3. s.name = req[q].name /\ s.pwd = req[q].pwd
    BY <1>1, <2>1, PwdSet DEF AccountInv
  <2>4. PICK r \in rows : SameAccount(r, s)
    BY <2>2 DEF Version, SameAccount
  <2> QED
    BY <1>2, <2>3, <2>4 DEF Book!SetBy
<1>6. \A r, s \in rows' : r.uid = s.uid => r = s
  BY RowStep DEF AccountInv, RowInv, UidsUnique
<1>7. Book!Repassworded(rows', Book!Done \cup {q})
  BY <1>4, <1>5, <1>6 DEF Book!Repassworded, Book!SameAccount, SameAccount
<1> QED
  BY <1>1, <1>2, <1>3, <1>7 DEF Book!Reset, Book!Pending, Told

\* Whatever is done to the table, the book says what it was.
LEMMA BookMoves ==
  ASSUME AccountInv, BookInv, [Next]_vars
  PROVE  [Book!Next]_(Book!vars)
<1> USE DEF Answered
<1>1. ASSUME NEW q \in Reqs, Arrive(q) PROVE [Book!Next]_(Book!vars)
  <2>1. /\ pc[q] = "new" /\ req[q] = None /\ UNCHANGED <<rows, newId>>
        /\ \E r \in Requests : req' = [req EXCEPT ![q] = r]
    BY <1>1 DEF Arrive, tables, BookInv
  <2>2. pc'[q] \notin Answered /\ \A p \in Reqs \ {q} : pc'[p] = pc[p]
    BY <1>1, StoreAssumption
    DEF Arrive, FirstCall, Kinds, HttpKinds, AccountInv, StoreInv, TypeOK
  <2>3. Told' = Told
    BY <2>1, <2>2 DEF Told
  <2> QED
    BY <2>1, <2>3 DEF Book!Next, Book!Ask, Told
<1>2. ASSUME NEW q \in Reqs, GetConnection(q) PROVE [Book!Next]_(Book!vars)
  <2>1. UNCHANGED <<rows, req, newId>> /\ pc[q] \in Waiting
    BY <1>2 DEF GetConnection, tables
  <2>2. PICK p \in {"email", "checking", "updating", "password", "friends", "uid",
                    "pair"} : pc' = [pc EXCEPT ![q] = p]
    BY <1>2, Borrow DEF AccountInv
  <2> QED
    BY <2>1, <2>2, GoesOn DEF AccountInv, Waiting
<1>3. ASSUME NEW q \in Reqs, SelectEmail(q) PROVE [Book!Next]_(Book!vars)
  <2>1. pc[q] = "email" /\ UNCHANGED <<rows, req, newId>>
    BY <1>3 DEF SelectEmail, At, tables
  <2>2. PICK p \in {"refused", "name"} : pc' = [pc EXCEPT ![q] = p]
    BY <1>3 DEF SelectEmail, Return, Go
  <2>3. pc[q] \in RegSteps => newId[q] = 0 \/ Book!Fresh(newId[q])
    BY <2>1 DEF BookInv, RegSteps
  <2>4. CASE p \in Answered
    BY <2>1, <2>2, <2>3, <2>4, Answers DEF Book!Next, Steps, RegSteps, PairSteps
  <2>5. CASE p = "name"
    BY <2>1, <2>2, <2>5, GoesOn DEF AccountInv
  <2> QED
    BY <2>2, <2>4, <2>5
<1>4. ASSUME NEW q \in Reqs, SelectName(q) PROVE [Book!Next]_(Book!vars)
  <2>1. pc[q] = "name" /\ UNCHANGED <<rows, req, newId>>
    BY <1>4 DEF SelectName, At, tables
  <2>2. PICK p \in {"refused", "id"} : pc' = [pc EXCEPT ![q] = p]
    BY <1>4 DEF SelectName, Return, Go
  <2>3. pc[q] \in RegSteps => newId[q] = 0 \/ Book!Fresh(newId[q])
    BY <2>1 DEF BookInv, RegSteps
  <2>4. CASE p \in Answered
    BY <2>1, <2>2, <2>3, <2>4, Answers DEF Book!Next, Steps, RegSteps, PairSteps
  <2>5. CASE p = "id"
    BY <2>1, <2>2, <2>5, GoesOn DEF AccountInv
  <2> QED
    BY <2>2, <2>4, <2>5
<1>5. ASSUME NEW q \in Reqs, TakeId(q) PROVE [Book!Next]_(Book!vars)
  BY <1>5, TakeGives DEF Book!Next
<1>6. ASSUME NEW q \in Reqs, InsertUser(q) PROVE [Book!Next]_(Book!vars)
  BY <1>6, GoesOn DEF InsertUser, Go, At, tables, AccountInv
<1>7. ASSUME NEW q \in Reqs, InsertFails(q) PROVE [Book!Next]_(Book!vars)
  <2>1. pc[q] = "insert" /\ UNCHANGED <<rows, req, newId>>
    BY <1>7 DEF InsertFails, At, tables
  <2>2. pc' = [pc EXCEPT ![q] = "refused"]
    BY <1>7 DEF InsertFails, Return
  <2>3. pc[q] \in RegSteps => newId[q] = 0 \/ Book!Fresh(newId[q])
    BY <1>7, FreshUid DEF InsertFails, At
  <2> QED
    BY <2>1, <2>2, <2>3, Answers DEF Book!Next, Steps, RegSteps, PairSteps
<1>8. ASSUME NEW q \in Reqs, Commit(q) PROVE [Book!Next]_(Book!vars)
  BY <1>8, CommitRegisters DEF Book!Next
<1>9. ASSUME NEW q \in Reqs, CheckEmail(q) PROVE [Book!Next]_(Book!vars)
  <2>1. pc[q] = "checking" /\ UNCHANGED <<rows, req, newId>>
    BY <1>9 DEF CheckEmail, At, tables
  <2>2. PICK p \in {"refused", "UpdatePwd"} : pc' = [pc EXCEPT ![q] = p]
    BY <1>9 DEF CheckEmail, Return
  <2>4. CASE p \in Answered
    BY <2>1, <2>2, <2>4, Answers DEF Book!Next, Steps, RegSteps, PairSteps
  <2>5. CASE p = "UpdatePwd"
    BY <2>1, <2>2, <2>5, GoesOn DEF AccountInv
  <2> QED
    BY <2>2, <2>4, <2>5
<1>10. ASSUME NEW q \in Reqs, UpdatePwd(q) PROVE [Book!Next]_(Book!vars)
  BY <1>10, UpdateResets DEF Book!Next
<1>11. ASSUME NEW q \in Reqs, CheckPwd(q) PROVE [Book!Next]_(Book!vars)
  <2>1. pc[q] = "password" /\ UNCHANGED <<rows, req, newId>>
    BY <1>11 DEF CheckPwd, At, tables
  <2>2. PICK p \in {"refused", "GetFriend"} : pc' = [pc EXCEPT ![q] = p]
    BY <1>11 DEF CheckPwd, Return
  <2>4. CASE p \in Answered
    BY <2>1, <2>2, <2>4, Answers DEF Book!Next, Steps, RegSteps, PairSteps
  <2>5. CASE p = "GetFriend"
    BY <2>1, <2>2, <2>5, GoesOn DEF AccountInv
  <2> QED
    BY <2>2, <2>4, <2>5
<1>12. ASSUME NEW q \in Reqs, GetFriend(q) PROVE [Book!Next]_(Book!vars)
  <2>1. pc[q] = "friends" /\ UNCHANGED <<rows, req, newId>>
    BY <1>12 DEF GetFriend, At, tables
  <2>2. pc' = [pc EXCEPT ![q] = "ok"]
    BY <1>12 DEF GetFriend, Return
  <2> QED
    BY <2>1, <2>2, Answers DEF Book!Next, Steps, RegSteps, PairSteps
<1>13. ASSUME NEW q \in Reqs, LockFails(q) PROVE [Book!Next]_(Book!vars)
  <2>1. pc[q] \in {"id", "updating"} /\ UNCHANGED <<rows, req, newId>>
    BY <1>13 DEF LockFails, At, tables
  <2>2. pc' = [pc EXCEPT ![q] = "refused"]
    BY <1>13 DEF LockFails, Return
  <2>3. pc[q] \in RegSteps => newId[q] = 0 \/ Book!Fresh(newId[q])
    BY <2>1 DEF BookInv, RegSteps
  <2> QED
    BY <2>1, <2>2, <2>3, Answers DEF Book!Next, Steps, RegSteps, PairSteps
<1>14. ASSUME NEW q \in Reqs, Broken(q) PROVE [Book!Next]_(Book!vars)
  <2>1. PICK a \in Answered : /\ pc' = [pc EXCEPT ![q] = a]
                              /\ pc[q] \in RegSteps => a = "lost"
                              /\ pc[q] \in {"checking", "updating"} => a = "refused"
                              /\ pc[q] \notin RegSteps => a # "lost"
    BY <1>14 DEF Broken, Return, RegSteps, PairSteps
  <2>2. pc[q] \in Steps /\ UNCHANGED <<rows, req, newId>>
    BY <1>14 DEF Broken, tables
  <2> QED
    BY <2>1, <2>2, Answers DEF Book!Next
<1>15. ASSUME NEW q \in Reqs, CommitUnheard(q) PROVE [Book!Next]_(Book!vars)
  BY <1>15, CommitRegisters DEF Book!Next
<1>16. ASSUME NEW c \in Conns, Reconnect(c) PROVE [Book!Next]_(Book!vars)
  BY <1>16, NothingTold DEF Reconnect, tables
<1>17. ASSUME NEW c \in Conns, ConnectionLost(c) PROVE [Book!Next]_(Book!vars)
  BY <1>17, NothingTold DEF ConnectionLost, tables
<1>18. CASE UNCHANGED vars
  BY <1>18, NothingTold DEF vars, tables
<1>19. ASSUME NEW q \in Reqs, GetUid(q) PROVE [Book!Next]_(Book!vars)
  <2>1. pc[q] = "uid" /\ UNCHANGED <<rows, req, newId>>
    BY <1>19 DEF GetUid, At, tables
  <2>2. PICK p \in {"ok", "refused", "loadFriend"} : pc' = [pc EXCEPT ![q] = p]
    BY <1>19 DEF GetUid, Return
  <2>4. CASE p \in Answered
    BY <2>1, <2>2, <2>4, Answers DEF Book!Next, Steps, RegSteps, PairSteps
  <2>5. CASE p = "loadFriend"
    BY <2>1, <2>2, <2>5, GoesOn DEF AccountInv
  <2> QED
    BY <2>2, <2>4, <2>5
<1>20. ASSUME NEW q \in Reqs, FindPair(q) PROVE [Book!Next]_(Book!vars)
  <2>1. pc[q] = "pair" /\ UNCHANGED <<rows, req, newId>>
    BY <1>20 DEF FindPair, At, tables
  <2>2. PICK p \in {"ok", "first"} : pc' = [pc EXCEPT ![q] = p]
    BY <1>20 DEF FindPair, Return, Go
  <2>4. CASE p \in Answered
    BY <2>1, <2>2, <2>4, Answers DEF Book!Next, Steps, RegSteps, PairSteps
  <2>5. CASE p = "first"
    BY <2>1, <2>2, <2>5, GoesOn DEF AccountInv
  <2> QED
    BY <2>2, <2>4, <2>5
<1>21. ASSUME NEW q \in Reqs, InsertFriend(q) PROVE [Book!Next]_(Book!vars)
  <2>1. pc[q] \in {"first", "second"} /\ UNCHANGED <<rows, req, newId>>
    BY <1>21 DEF InsertFriend, At, tables
  <2>2. PICK p \in {"ok", "second"} : pc' = [pc EXCEPT ![q] = p]
    BY <1>21 DEF InsertFriend, Return, Go
  <2>4. CASE p \in Answered
    BY <2>1, <2>2, <2>4, Answers DEF Book!Next, Steps, RegSteps, PairSteps
  <2>5. CASE p = "second"
    BY <2>1, <2>2, <2>5, GoesOn DEF AccountInv
  <2> QED
    BY <2>2, <2>4, <2>5
<1>22. ASSUME NEW q \in Reqs, InsertFriendFails(q) PROVE [Book!Next]_(Book!vars)
  <2>1. pc[q] \in {"first", "second"} /\ UNCHANGED <<rows, req, newId>>
    BY <1>22 DEF InsertFriendFails, At, tables
  <2>2. pc' = [pc EXCEPT ![q] = "ok"]
    BY <1>22 DEF InsertFriendFails, Return
  <2> QED
    BY <2>1, <2>2, Answers DEF Book!Next, Steps, RegSteps, PairSteps
<1>23. ASSUME GhostEnds PROVE [Book!Next]_(Book!vars)
  BY <1>23, NothingTold DEF GhostEnds, tables
<1> QED
  BY <1>1, <1>2, <1>3, <1>4, <1>5, <1>6, <1>7, <1>8, <1>9, <1>10, <1>11, <1>12,
     <1>13, <1>14, <1>15, <1>16, <1>17, <1>18, <1>19, <1>20, <1>21, <1>22, <1>23
  DEF Next, Handle

\* The table user of GateServer's database is a book of accounts (RegUserTransaction,
\* CheckEmail, UpdatePwd): accounts are entered under new uids, by the requests that are told
\* them, and keep their names and e-mails; passwords are those a request has set that
\* named the e-mail of its account.
THEOREM KeepsBook == Spec => KeepsAccounts
<1>1. Init => AccountInv /\ BookInv /\ Book!Init
  <2>1. ASSUME Init PROVE BookInv
    BY <2>1 DEF Init, BookInv
  <2>2. ASSUME Init PROVE Book!Init
    <3>1. Told = [q \in Reqs |-> "none"]
      BY <2>2 DEF Init, Told, Answered
    <3> QED
      BY <2>2, <3>1 DEF Init, Book!Init, Told
  <2> QED
    BY <2>1, <2>2, InitAccount
<1>2. AccountInv /\ BookInv /\ [Next]_vars => AccountInv' /\ BookInv'
  BY AccountStep, BookStep
<1>3. AccountInv /\ BookInv /\ [Next]_vars => [Book!Next]_(Book!vars)
  BY BookMoves
<1> QED
  BY <1>1, <1>2, <1>3, PTL DEF Spec, KeepsAccounts, Book!Spec
=============================================================================
