------------------------------ MODULE UserStore ------------------------------
(***************************************************************************)
(* The accounts and friends of GateServer in MySQL.  Registration, reset   *)
(* and login are HTTP requests; main runs one io thread, which handles     *)
(* them one after the other.  Lookups of a uid and friend requests come    *)
(* over gRPC, on as many threads as there are calls.  All of them borrow   *)
(* their connections from one pool.                                        *)
(*                                                                         *)
(* MySQL is modelled as MysqlDao.cpp uses it, with InnoDB's defaults: a    *)
(* connection with autocommit off is in a transaction, whose SELECTs see   *)
(* the snapshot its first one took and its own changes, and whose changed  *)
(* rows stay locked until COMMIT or ROLLBACK; an UPDATE works on the last  *)
(* committed rows and waits for their locks.  MySQL may notice later than  *)
(* GateServer that a connection is broken; its transaction keeps its locks *)
(* until then.  The table definitions are not in the repository: an INSERT *)
(* that repeats a name, an email or a pair of friends may fail or not.     *)
(*                                                                         *)
(* The pool hands out its oldest connection and its checker moves idle     *)
(* ones to the back at any time, so a request may get any idle one.        *)
(***************************************************************************)
EXTENDS Naturals, FiniteSets

CONSTANTS
  Conns,       (* the connections of the pool                               *)
  Reqs,        (* requests, each handled once                               *)
  Requests,    (* what a request can be: [kind, name, email, pwd]; of kind  *)
               (* "friend", name is the asker's email                       *)
  Accounts,    (* the rows of the table user before the first request       *)
  FirstId,     (* user_id.id before the first request                       *)
  MaxFaults,   (* bound: connections that break                             *)
  None         (* no connection, no snapshot                                *)

HttpKinds == {"register", "reset", "login"}
Kinds == HttpKinds \cup {"chat", "friend"}
Rows  == [uid : Nat, name : {r.name : r \in Requests \cup Accounts},
          email : {r.email : r \in Requests \cup Accounts},
          pwd : {r.pwd : r \in Requests \cup Accounts}]

ASSUME StoreAssumption ==
  /\ FirstId \in Nat /\ MaxFaults \in Nat
  /\ \A r \in Requests : r.kind \in Kinds
  /\ Accounts \subseteq Rows
  /\ \A r \in Accounts : r.uid \in 1 .. FirstId
  /\ \A r, s \in Accounts : r.uid = s.uid => r = s
  /\ None \notin Conns \cup Requests

VARIABLES
  rows,     (* MySQL: the committed rows of the table user                  *)
  lastId,   (* MySQL: the committed value of user_id.id                     *)
  friends,  (* MySQL: the committed pairs of the table friend               *)
  auto,     (* the connection is in autocommit mode                         *)
  snap,     (* the snapshot its transaction reads, None before the first    *)
  pend,     (* the rows its transaction has changed or inserted             *)
  pendId,   (* the value it has given user_id.id, 0 if it has not           *)
  pendF,    (* the pairs of friends it has inserted                         *)
  live,     (* the connection works                                         *)
  ghosts,   (* MySQL: transactions of connections it thinks still work      *)
  idle,     (* MySqlPool: the connections in the pool                       *)
  dropped,  (* connections destroyed by a caller that did not return them   *)
  req,      (* what a request is, None before it arrives                    *)
  pc,       (* where its handler is                                         *)
  con,      (* the connection it has borrowed                               *)
  newId,    (* the uid it read from user_id                                 *)
  pair,     (* loadFriend: the two uids, kept if only one row was inserted  *)
  faults    (* connections broken so far                                    *)

tables   == <<rows, lastId, friends>>
sessions == <<auto, snap, pend, pendId, pendF, live, ghosts>>
pool     == <<idle, dropped>>
vars == <<tables, sessions, pool, req, pc, con, newId, pair, faults>>

\* Calls of the DAO that wait for a connection, and its steps with one.
Waiting  == {"RegUser", "CheckEmail", "UpdatePwd", "CheckPwd", "GetFriend", "GetUid",
             "loadFriend"}
RegSteps == {"email", "name", "id", "insert", "commit"}
PairSteps == {"pair", "first", "second"}
Steps    == RegSteps \cup PairSteps \cup
            {"checking", "updating", "password", "friends", "uid"}
Answered == {"ok", "refused", "lost"}

TypeOK ==
  /\ rows \subseteq Rows /\ lastId \in Nat /\ friends \subseteq Nat \X Nat
  /\ auto \in [Conns -> BOOLEAN] /\ live \in [Conns -> BOOLEAN]
  /\ snap \in [Conns -> {None} \cup SUBSET Rows]
  /\ pend \in [Conns -> SUBSET Rows] /\ pendId \in [Conns -> Nat]
  /\ pendF \in [Conns -> SUBSET (Nat \X Nat)]
  /\ ghosts \subseteq [id : BOOLEAN, rows : SUBSET Rows, pairs : SUBSET (Nat \X Nat)]
  /\ idle \subseteq Conns /\ dropped \subseteq Conns
  /\ req \in [Reqs -> Requests \cup {None}]
  /\ pc \in [Reqs -> {"new"} \cup Waiting \cup Steps \cup Answered]
  /\ con \in [Reqs -> Conns \cup {None}]
  /\ newId \in [Reqs -> Nat] /\ pair \in [Reqs -> Nat \X Nat]
  /\ faults \in 0 .. MaxFaults

Init ==
  /\ rows = Accounts /\ lastId = FirstId /\ friends = {}
  /\ auto = [c \in Conns |-> TRUE] /\ live = [c \in Conns |-> TRUE]
  /\ snap = [c \in Conns |-> None]
  /\ pend = [c \in Conns |-> {}] /\ pendId = [c \in Conns |-> 0]
  /\ pendF = [c \in Conns |-> {}] /\ ghosts = {}
  /\ idle = Conns /\ dropped = {}
  /\ req = [q \in Reqs |-> None]
  /\ pc = [q \in Reqs |-> "new"]
  /\ con = [q \in Reqs |-> None]
  /\ newId = [q \in Reqs |-> 0] /\ pair = [q \in Reqs |-> <<0, 0>>]
  /\ faults = 0

-----------------------------------------------------------------------------
(* MySQL                                                                   *)

\* An UPDATE changes the password only.
SameAccount(r, s) == r.uid = s.uid /\ r.name = s.name /\ r.email = s.email

\* The rows of t with those of p instead of their older versions.
Over(t, p) == p \cup {r \in t : \A s \in p : ~SameAccount(r, s)}

\* What a SELECT on c reads from, and the snapshot it leaves.
Base(c)  == IF auto[c] \/ snap[c] = None THEN rows ELSE snap[c]
View(c)  == Over(Base(c), pend[c])
Select(c) == snap' = [snap EXCEPT ![c] = IF auto[c] THEN None ELSE Base(c)]

\* The transaction of c is over, by COMMIT, ROLLBACK or the loss of c.
EndTransaction(c) ==
  /\ snap' = [snap EXCEPT ![c] = None]
  /\ pend' = [pend EXCEPT ![c] = {}]
  /\ pendId' = [pendId EXCEPT ![c] = 0]
  /\ pendF' = [pendF EXCEPT ![c] = {}]

\* Another transaction holds the lock of user_id's row, or of a row of n.
IdLocked(c) == (\E d \in Conns \ {c} : pendId[d] # 0) \/ (\E g \in ghosts : g.id)
NameLocked(c, n) ==
  \E r \in UNION {pend[d] : d \in Conns \ {c}} \cup UNION {g.rows : g \in ghosts} : r.name = n

-----------------------------------------------------------------------------
(* MySqlPool                                                               *)

FirstStep == [RegUser |-> "email", CheckEmail |-> "checking", UpdatePwd |-> "updating",
              CheckPwd |-> "password", GetFriend |-> "friends", GetUid |-> "uid",
              loadFriend |-> "pair"]

GetConnection(q) ==
  /\ pc[q] \in Waiting
  /\ \E c \in idle :
       /\ con' = [con EXCEPT ![q] = c]
       /\ idle' = idle \ {c}
  /\ pc' = [pc EXCEPT ![q] = FirstStep[pc[q]]]
  /\ UNCHANGED <<tables, sessions, dropped, req, newId, pair, faults>>

\* The handler leaves the DAO for p and its connection goes back.
Return(q, p) ==
  /\ idle' = idle \cup {con[q]}
  /\ con' = [con EXCEPT ![q] = None]
  /\ pc' = [pc EXCEPT ![q] = p]
  /\ UNCHANGED dropped

At(q, p) == pc[q] = p /\ live[con[q]]

Go(q, p) == pc' = [pc EXCEPT ![q] = p] /\ UNCHANGED <<pool, con>>

\* checkConnectionPro and reconnect: a broken idle connection is replaced.
Reconnect(c) ==
  /\ c \in idle /\ ~live[c]
  /\ live' = [live EXCEPT ![c] = TRUE]
  /\ auto' = [auto EXCEPT ![c] = TRUE]
  /\ UNCHANGED <<tables, snap, pend, pendId, pendF, ghosts, pool, req, pc, con, newId,
                 pair, faults>>

-----------------------------------------------------------------------------
(* RegUserTransaction                                                      *)

\* setAutoCommit(false) and SELECT ... WHERE email.  The mode is not set back.
SelectEmail(q) ==
  /\ At(q, "email")
  /\ auto' = [auto EXCEPT ![con[q]] = FALSE]
  /\ \/ /\ \E r \in View(con[q]) : r.email = req[q].email
        /\ EndTransaction(con[q]) /\ Return(q, "refused")
     \/ /\ \A r \in View(con[q]) : r.email # req[q].email
        /\ snap' = [snap EXCEPT ![con[q]] = Base(con[q])]
        /\ Go(q, "name") /\ UNCHANGED <<pend, pendId, pendF>>
  /\ UNCHANGED <<tables, live, ghosts, req, newId, pair, faults>>

SelectName(q) ==
  /\ At(q, "name")
  /\ \/ /\ \E r \in View(con[q]) : r.name = req[q].name
        /\ EndTransaction(con[q]) /\ Return(q, "refused")
     \/ /\ \A r \in View(con[q]) : r.name # req[q].name
        /\ Select(con[q])
        /\ Go(q, "id") /\ UNCHANGED <<pend, pendId, pendF>>
  /\ UNCHANGED <<tables, auto, live, ghosts, req, newId, pair, faults>>

\* MUTANT of TakeId: SELECT id comes before the UPDATE.
TakeIdBefore(q) ==
  /\ At(q, "id") /\ ~IdLocked(con[q])
  /\ pendId' = [pendId EXCEPT ![con[q]] = lastId + 1]
  /\ newId' = [newId EXCEPT ![q] = lastId]
  /\ Go(q, "insert")
  /\ UNCHANGED <<tables, auto, snap, pend, pendF, live, ghosts, req, pair, faults>>

\* UPDATE user_id SET id = id + 1, once no other transaction has it locked, and
\* SELECT id, which reads the transaction's own change.
TakeId(q) ==
  /\ At(q, "id") /\ ~IdLocked(con[q])
  /\ LET last == IF pendId[con[q]] # 0 THEN pendId[con[q]] ELSE lastId IN
       /\ pendId' = [pendId EXCEPT ![con[q]] = last + 1]
       /\ newId' = [newId EXCEPT ![q] = last + 1]
  /\ Go(q, "insert")
  /\ UNCHANGED <<tables, auto, snap, pend, pendF, live, ghosts, req, pair, faults>>

\* MUTANT of NewRow: setString(2, email) and setString(3, name).
RowSwapped(q) == [uid |-> newId[q], name |-> req[q].email, email |-> req[q].name,
                  pwd |-> req[q].pwd]

NewRow(q) == [uid |-> newId[q], name |-> req[q].name, email |-> req[q].email,
              pwd |-> req[q].pwd]

InsertUser(q) ==
  /\ At(q, "insert")
  /\ pend' = [pend EXCEPT ![con[q]] = @ \cup {NewRow(q)}]
  /\ Go(q, "commit")
  /\ UNCHANGED <<tables, auto, snap, pendId, pendF, live, ghosts, req, newId, pair, faults>>

\* MUTANT of InsertFails: no rollback in the catch block.
InsertFailsKept(q) ==
  /\ At(q, "insert")
  /\ \E r \in rows : r.email = req[q].email \/ r.name = req[q].name
  /\ Return(q, "refused")
  /\ UNCHANGED <<tables, sessions, req, newId, pair, faults>>

\* The INSERT fails on a unique key: rollback in the catch block.
InsertFails(q) ==
  /\ At(q, "insert")
  /\ \E r \in rows : r.email = req[q].email \/ r.name = req[q].name
  /\ EndTransaction(con[q]) /\ Return(q, "refused")
  /\ UNCHANGED <<tables, auto, live, ghosts, req, newId, pair, faults>>

\* COMMIT, with whatever the connection had not committed before.
CommitRows(c) ==
  /\ rows' = Over(rows, pend[c])
  /\ lastId' = IF pendId[c] # 0 THEN pendId[c] ELSE lastId
  /\ friends' = friends \cup pendF[c]
  /\ EndTransaction(c)

\* MUTANT of Commit: the function returns the uid without a commit.
CommitForgotten(q) ==
  /\ At(q, "commit") /\ Return(q, "ok")
  /\ UNCHANGED <<tables, sessions, req, newId, pair, faults>>

Commit(q) ==
  /\ At(q, "commit")
  /\ CommitRows(con[q]) /\ Return(q, "ok")
  /\ UNCHANGED <<auto, live, ghosts, req, newId, pair, faults>>

-----------------------------------------------------------------------------
(* CheckEmail, UpdatePwd, CheckPwd, GetFriend                              *)

\* A name without a row: the function returns without giving the connection
\* back, which is destroyed.
CheckEmail(q) ==
  /\ At(q, "checking")
  /\ \/ /\ \E r \in View(con[q]) :
             /\ r.name = req[q].name
             /\ Return(q, IF r.email = req[q].email THEN "UpdatePwd" ELSE "refused")
        /\ Select(con[q]) /\ UNCHANGED <<pend, pendId, pendF>>
     \/ /\ \A r \in View(con[q]) : r.name # req[q].name
        /\ dropped' = dropped \cup {con[q]}
        /\ EndTransaction(con[q])
        /\ con' = [con EXCEPT ![q] = None]
        /\ pc' = [pc EXCEPT ![q] = "refused"]
        /\ UNCHANGED idle
  /\ UNCHANGED <<tables, auto, live, ghosts, req, newId, pair, faults>>

\* MUTANT of UpdatePwd: the connection is not returned.
UpdatePwdKeeps(q) ==
  /\ At(q, "updating") /\ ~NameLocked(con[q], req[q].name)
  /\ pc' = [pc EXCEPT ![q] = "ok"]
  /\ UNCHANGED <<tables, sessions, pool, con, req, newId, pair, faults>>

\* MUTANT of NewVersions: UPDATE user SET pwd, for every row.
AllVersions(q) ==
  {[r EXCEPT !.pwd = req[q].pwd] : r \in Over(rows, pend[con[q]])}

\* The last committed rows of the name, and the transaction's own, with the new
\* password.
NewVersions(q) ==
  {[r EXCEPT !.pwd = req[q].pwd] :
     r \in {t \in Over(rows, pend[con[q]]) : t.name = req[q].name}}

\* UPDATE user SET pwd, and true whatever the number of rows it changed.
UpdatePwd(q) ==
  /\ At(q, "updating") /\ ~NameLocked(con[q], req[q].name)
  /\ \/ /\ auto[con[q]]
        /\ rows' = Over(rows, NewVersions(q)) /\ UNCHANGED pend
     \/ /\ ~auto[con[q]]
        /\ pend' = [pend EXCEPT ![con[q]] = Over(@, NewVersions(q))] /\ UNCHANGED rows
  /\ Return(q, "ok")
  /\ UNCHANGED <<lastId, friends, auto, snap, pendId, pendF, live, ghosts, req, newId,
                 pair, faults>>

CheckPwd(q) ==
  /\ At(q, "password")
  /\ \/ \E r \in View(con[q]) :
          /\ r.email = req[q].email
          /\ Return(q, IF r.pwd = req[q].pwd THEN "GetFriend" ELSE "refused")
     \/ /\ \A r \in View(con[q]) : r.email # req[q].email
        /\ Return(q, "refused")
  /\ Select(con[q])
  /\ UNCHANGED <<tables, auto, pend, pendId, pendF, live, ghosts, req, newId, pair, faults>>

\* The friends are read on a connection of their own.
GetFriend(q) ==
  /\ At(q, "friends") /\ Return(q, "ok")
  /\ Select(con[q])
  /\ UNCHANGED <<tables, auto, pend, pendId, pendF, live, ghosts, req, newId, pair, faults>>

-----------------------------------------------------------------------------
(* GetUid, loadFriend                                                      *)

\* A chat message or a friend request needs the uid of the email's owner.
GetUid(q) ==
  /\ At(q, "uid")
  /\ \/ /\ \E r \in View(con[q]) : r.email = req[q].email
        /\ Return(q, IF req[q].kind = "friend" THEN "loadFriend" ELSE "ok")
     \/ /\ \A r \in View(con[q]) : r.email # req[q].email
        /\ Return(q, "refused")
  /\ Select(con[q])
  /\ UNCHANGED <<tables, auto, pend, pendId, pendF, live, ghosts, req, newId, pair, faults>>

\* The SELECTs of the two uids.
FindPair(q) ==
  /\ At(q, "pair")
  /\ \/ \E r, s \in View(con[q]) :
          /\ r.email = req[q].name /\ s.email = req[q].email
          /\ pair' = [pair EXCEPT ![q] = <<r.uid, s.uid>>]
          /\ Go(q, "first")
     \/ /\ \E e \in {req[q].name, req[q].email} : \A r \in View(con[q]) : r.email # e
        /\ Return(q, "ok") /\ UNCHANGED pair
  /\ Select(con[q])
  /\ UNCHANGED <<tables, auto, pend, pendId, pendF, live, ghosts, req, newId, faults>>

Reversed(p) == <<p[2], p[1]>>

\* MUTANT of Row: setInt(1, user_uid) and setInt(2, target_uid) in both INSERTs.
RowTwice(q) == pair[q]

\* What the next INSERT INTO friend adds.
Row(q) == IF pc[q] = "first" THEN pair[q] ELSE Reversed(pair[q])

\* The pair is of no more use, unless one of its two rows is in.
Forget(q) == pair' = [pair EXCEPT ![q] = IF pc[q] = "second" THEN @ ELSE <<0, 0>>]

\* The two INSERTs, which only a connection with autocommit off does together.
InsertFriend(q) ==
  /\ At(q, "first") \/ At(q, "second")
  /\ \/ /\ auto[con[q]]
        /\ friends' = friends \cup {Row(q)} /\ UNCHANGED pendF
     \/ /\ ~auto[con[q]]
        /\ pendF' = [pendF EXCEPT ![con[q]] = @ \cup {Row(q)}] /\ UNCHANGED friends
  /\ \/ pc[q] = "first" /\ Go(q, "second") /\ UNCHANGED pair
     \/ pc[q] = "second" /\ Return(q, "ok") /\ pair' = [pair EXCEPT ![q] = <<0, 0>>]
  /\ UNCHANGED <<rows, lastId, auto, snap, pend, pendId, live, ghosts, req, newId, faults>>

\* An INSERT fails on a unique key, or waits for the transaction that has inserted
\* the same pair until the wait ends with an error.  There is no rollback.
InsertFriendFails(q) ==
  /\ At(q, "first") \/ At(q, "second")
  /\ \/ Row(q) \in friends \cup pendF[con[q]] /\ UNCHANGED <<snap, pend, pendId, pendF>>
     \/ /\ Row(q) \in UNION {pendF[d] : d \in Conns \ {con[q]}} \cup
                       UNION {g.pairs : g \in ghosts}
        /\ EndTransaction(con[q]) \/ UNCHANGED <<snap, pend, pendId, pendF>>
  /\ Return(q, "ok") /\ Forget(q)
  /\ UNCHANGED <<tables, auto, live, ghosts, req, newId, faults>>

-----------------------------------------------------------------------------
(* Requests and errors                                                     *)

FirstCall == [register |-> "RegUser", reset |-> "CheckEmail", login |-> "CheckPwd",
              chat |-> "GetUid", friend |-> "GetUid"]

\* The handler of an HTTP request runs on the io thread.
HttpRuns(q) == pc[q] \notin {"new"} \cup Answered /\ req[q].kind \in HttpKinds

\* HandlePost, alone on the io thread, or a call of GetUseruid.
Arrive(q) ==
  /\ pc[q] = "new"
  /\ \E r \in Requests :
       /\ r.kind \in HttpKinds => \A p \in Reqs : ~HttpRuns(p)
       /\ req' = [req EXCEPT ![q] = r]
       /\ pc' = [pc EXCEPT ![q] = FirstCall[r.kind]]
  /\ UNCHANGED <<tables, sessions, pool, con, newId, pair, faults>>

\* The wait for a lock ends with an error, which each catch block handles in its
\* way: innodb_lock_wait_timeout undoes the statement, and RegUserTransaction rolls
\* back; InnoDB rolls back the victim of a deadlock itself.
LockFails(q) ==
  /\ \/ At(q, "id") /\ IdLocked(con[q]) /\ EndTransaction(con[q])
     \/ /\ At(q, "updating") /\ NameLocked(con[q], req[q].name)
        /\ EndTransaction(con[q]) \/ UNCHANGED <<snap, pend, pendId, pendF>>
  /\ Return(q, "refused")
  /\ UNCHANGED <<tables, auto, live, ghosts, req, newId, pair, faults>>

\* The connection breaks: MySQL rolls back what it had not committed, at once or
\* when it notices.
ConnectionLost(c) ==
  /\ faults < MaxFaults /\ faults' = faults + 1
  /\ live[c] /\ c \notin dropped
  /\ live' = [live EXCEPT ![c] = FALSE]
  /\ EndTransaction(c)
  /\ \/ UNCHANGED ghosts
     \/ ghosts' = ghosts \cup {[id |-> pendId[c] # 0, rows |-> pend[c], pairs |-> pendF[c]]}
  /\ UNCHANGED <<tables, auto, pool, req, pc, con, newId, pair>>

\* MySQL notices, and rolls back.
GhostEnds ==
  /\ \E g \in ghosts : ghosts' = ghosts \ {g}
  /\ UNCHANGED <<tables, auto, snap, pend, pendId, pendF, live, pool, req, pc, con, newId,
                 pair, faults>>

\* It breaks when the COMMIT has been done and its answer has not arrived.
CommitUnheard(q) ==
  /\ At(q, "commit")
  /\ faults < MaxFaults /\ faults' = faults + 1
  /\ live' = [live EXCEPT ![con[q]] = FALSE]
  /\ CommitRows(con[q])
  /\ UNCHANGED <<auto, ghosts, pool, req, pc, con, newId, pair>>

\* A statement on a broken connection throws.  In RegUserTransaction the rollback
\* of the catch block throws again, out of the handler: the client gets no answer.
\* GetUseruid answers Success whatever loadFriend returns.
Broken(q) ==
  /\ pc[q] \in Steps /\ ~live[con[q]]
  /\ Return(q, CASE pc[q] \in RegSteps -> "lost"
                 [] pc[q] \in PairSteps -> "ok"
                 [] OTHER -> "refused")
  /\ Forget(q)
  /\ UNCHANGED <<tables, sessions, req, newId, faults>>

-----------------------------------------------------------------------------
Handle(q) ==
  \/ GetConnection(q)
  \/ SelectEmail(q) \/ SelectName(q) \/ TakeId(q)
  \/ InsertUser(q) \/ InsertFails(q) \/ Commit(q)
  \/ CheckEmail(q) \/ UpdatePwd(q) \/ CheckPwd(q) \/ GetFriend(q)
  \/ GetUid(q) \/ FindPair(q) \/ InsertFriend(q) \/ InsertFriendFails(q)
  \/ LockFails(q) \/ Broken(q)

Next ==
  \/ \E q \in Reqs : Arrive(q) \/ Handle(q) \/ CommitUnheard(q)
  \/ \E c \in Conns : Reconnect(c) \/ ConnectionLost(c)
  \/ GhostEnds

Spec == Init /\ [][Next]_vars

\* A handler that can go on does; the pool's checker runs once a minute.
FairSpec ==
  /\ Spec
  /\ \A q \in Reqs : WF_vars(Handle(q))
  /\ \A c \in Conns : WF_vars(Reconnect(c))

-----------------------------------------------------------------------------
(* Properties                                                              *)

\* No two accounts have the same uid: a registration raises user_id before it reads
\* it, in the transaction of its INSERT, so no value is used twice, also when the
\* registration before was rolled back or its connection broke around the COMMIT.
UidsUnique == \A r, s \in rows : r.uid = s.uid => r = s

\* A registration that was answered with a uid is in the table, and the table has
\* no account of a registration that was refused.
RegistrationExact ==
  /\ \A q \in Reqs : (pc[q] = "ok" /\ req[q].kind = "register") =>
       \E r \in rows : r.uid = newId[q] /\ r.name = req[q].name /\ r.email = req[q].email
  /\ \A r \in rows : r.uid > FirstId =>
       \E q \in Reqs : /\ newId[q] = r.uid /\ pc[q] \in {"ok", "commit", "lost"}
                       /\ req[q].name = r.name /\ req[q].email = r.email

\* A connection in the pool holds no lock on user_id: every way out of
\* RegUserTransaction commits or rolls back, so that no registration waits for a
\* transaction nobody is going to end.
CounterIsFree == \A c \in Conns : pendId[c] # 0 => \E q \in Reqs : con[q] = c

\* A request to reset a password that was refused.
RefusedReset(q) == pc[q] = "refused" /\ req[q].kind = "reset"

\* The pool loses connections in one way only: each is in the pool or in use, whichever
\* way the functions of MysqlDao are left and whatever breaks, but for those CheckEmail
\* destroys, and every one of these was the price of another refused reset.
ConnectionsKept ==
  /\ \A c \in Conns : c \in idle \cup dropped \/ \E q \in Reqs : con[q] = c /\ pc[q] \in Steps
  /\ \E f \in [dropped -> {q \in Reqs : RefusedReset(q)}] :
       \A c, d \in dropped : f[c] = f[d] => c = d

\* Friends are friends of each other: a row of friend has its reverse, unless a
\* call of loadFriend is between its two INSERTs or only the second one failed.
FriendsMutual ==
  \A p \in friends : Reversed(p) \in friends \/ \E q \in Reqs : pair[q] = p /\ pc[q] # "first"

\* The table user is a book of accounts: no account is lost or changes its name or its
\* e-mail, one is entered by each registration that was answered with its uid and by
\* none that was refused, and a password changes only to one whose reset was answered
\* with success and named the e-mail of an account of that name: over transactions
\* that commit late, with another request, without an answer, or not at all.
Book == INSTANCE AccountBook WITH
  book <- rows, number <- newId,
  answer <- [q \in Reqs |-> IF pc[q] \in Answered THEN pc[q] ELSE "none"]

KeepsAccounts == Book!Spec

\* Every request is answered, or fails without an answer, unless CheckEmail has
\* destroyed all connections: nobody waits for a lock for ever.
EveryRequestAnswered ==
  \A q \in Reqs : pc[q] # "new" ~> (pc[q] \in Answered \/ dropped = Conns)

\* What LogicSystem.cpp:226 says of /reset_pwd: it updates the password to the
\* newest one.  After a reset was answered with success, and with no other of the
\* same name, the table holds the password it set.
ResetIsStored ==
  \A q \in Reqs :
    (pc[q] = "ok" /\ req[q].kind = "reset"
     /\ \A p \in Reqs \ {q} :
          req[p] = None \/ req[p].kind # "reset" \/ req[p].name # req[q].name)
    => \A r \in rows : r.name = req[q].name => r.pwd = req[q].pwd
=============================================================================
