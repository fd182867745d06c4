-------------------------- MODULE ChatRoutingProofs --------------------------
(***************************************************************************)
(* Theorems about ChatRouting, for any sets of users, servers and clients  *)
(* and any bounds.                                                         *)
(***************************************************************************)
EXTENDS ChatRouting, TLAPS

Busy == {"uid", "server", "route", "wait", "save1", "save2"}

(***************************************************************************)
(* The strengthening of TypeOK: a thread inside a handler has a message,   *)
(* of its own, that was read from a client and addresses a user.           *)
(***************************************************************************)
SentInv ==
  \A m \in Msgs : stage[m] # "unsent" =>
    from[m] \in Clients /\ to[m] \in Users \cup {Everyone}

CurInv ==
  \A s \in Servers :
    /\ pc[s] \notin Busy => cur[s] = 0
    /\ pc[s] \in Busy => /\ cur[s] \in Msgs
                         /\ stage[cur[s]] = "handling"
                         /\ to[cur[s]] \in Users

OneHandler == \A s, t \in Servers : cur[s] = cur[t] /\ cur[s] # 0 => s = t

DownInv == \A s \in Servers : ~up[s] => pc[s] = "idle" /\ sessions[s] = <<>>

ThreadInv == TypeOK /\ SentInv /\ CurInv /\ OneHandler /\ DownInv

(***************************************************************************)
(* The strengthening of AtMostOneDelivery: once m is handed over nobody    *)
(* who holds it can hand it over again.                                    *)
(***************************************************************************)
CallInv ==
  \A m \in Msgs : call[m].st # "none" =>
    /\ stage[m] \notin {"unsent", "wire"}
    /\ to[m] \in Users
    /\ \A s \in Servers : cur[s] = m => pc[s] \in {"wait", "save1", "save2"}

HandedInv ==
  \A m \in Msgs, c \in Clients : Got(c, m) =>
    /\ stage[m] \notin {"unsent", "wire"}
    /\ call[m].st # "sent"
    /\ \A s \in Servers : cur[s] = m => pc[s] \in {"wait", "save1", "save2"}

DeliveryInv == CallInv /\ HandedInv /\ AtMostOneDelivery

NameInv == \A c \in Clients : name[c] \in {None, Owner[c]}

Handed(m) == \E c \in Clients : Owner[c] = to[m] /\ Got(c, m)

SaveInv ==
  /\ \A m \in Msgs : call[m].st = "found" => Handed(m)
  /\ \A s \in Servers : pc[s] \in {"save1", "save2"} => Handed(cur[s])
  /\ \A p \in Users \X Users : \A m \in history[p] : stage[m] # "unsent"

Save2Inv ==
  \A s \in Servers : pc[s] = "save2" /\ redis[s] =>
    cur[s] \in history[<<Owner[from[cur[s]]], to[cur[s]]>>]
-----------------------------------------------------------------------------
(* Removing a session from the vector *)

\* sessions.erase leaves a vector of sessions.
LEMMA EraseType ==
  ASSUME NEW v \in Seq(Clients), NEW c
  PROVE  Erase(v, c) \in Seq(Clients)
<1>1. CASE \E i \in 1 .. Len(v) : v[i] = c
  <2> DEFINE i == CHOOSE i \in 1 .. Len(v) : v[i] = c
  <2>1. i \in 1 .. Len(v)  BY <1>1
  <2> HIDE DEF i
  <2>2. SubSeq(v, 1, i - 1) \in Seq(Clients) /\ SubSeq(v, i + 1, Len(v)) \in Seq(Clients)
    BY <2>1
  <2>3. RemoveAt(v, i) \in Seq(Clients)  BY <2>2 DEF RemoveAt
  <2> QED  BY <1>1, <2>3 DEF Erase, i
<1>2. CASE ~ \E i \in 1 .. Len(v) : v[i] = c
  BY <1>2 DEF Erase
<1> QED  BY <1>1, <1>2

\* The initial state has no threads inside a handler.
LEMMA InitThread == Init => ThreadInv
  BY RoutingAssumption
  DEF Init, ThreadInv, TypeOK, SentInv, CurInv, OneHandler, DownInv,
    Phases, Stages, PCs, Calls, Busy, Msgs

\* 0, no message, is not a message.
LEMMA ZeroNotMsg == 0 \notin Msgs
  BY RoutingAssumption DEF Msgs

(***************************************************************************)
(* What the parts of an action do to the types.                            *)
(***************************************************************************)
LEMMA RefuseType ==
  ASSUME TypeOK, NEW s \in Servers, Refuse(s)
  PROVE  /\ stage' \in [Msgs -> Stages] /\ pc' \in [Servers -> PCs]
         /\ cur' \in [Servers -> Msgs \cup {0}]
         /\ dst' \in [Servers -> Servers \cup {None}]
  BY DEF TypeOK, Refuse, Stages, PCs

\* The thread goes on with its message.
LEMMA ContinueType ==
  ASSUME TypeOK, NEW s \in Servers, NEW p \in PCs, Continue(s, p)
  PROVE  /\ stage' \in [Msgs -> Stages] /\ pc' \in [Servers -> PCs]
         /\ cur' \in [Servers -> Msgs \cup {0}]
  BY DEF TypeOK, Continue

\* A message is queued for a session.
LEMMA AsyncSendType ==
  ASSUME TypeOK, NEW c \in Clients, NEW m \in Msgs, AsyncSend(c, m)
  PROVE  inbox' \in [Clients -> Seq(Msgs)]
  BY DEF TypeOK, AsyncSend

\* A user list has the names of sessions.
LEMMA BroadcastType ==
  ASSUME TypeOK, NEW v \in Seq(Clients), NEW nm \in [Clients -> Users \cup {None}],
         BroadcastUserList(v, nm)
  PROVE  roster' \in [Clients -> SUBSET (Users \cup {None})]
<1>1. Members(v) \subseteq Clients  BY DEF Members, ToSet
<1>2. NamesIn(v, nm) \subseteq Users \cup {None}  BY <1>1 DEF NamesIn
<1> QED  BY <1>2 DEF TypeOK, BroadcastUserList

\* The session the loop finds is a session of the vector.
LEMMA FirstNamedType ==
  ASSUME TypeOK, NEW s \in Servers, NEW u, NEW i, FirstNamed(sessions[s], u, i)
  PROVE  i \in 1 .. Len(sessions[s]) /\ sessions[s][i] \in Clients /\ name[sessions[s][i]] = u
  BY DEF TypeOK, FirstNamed

\* Every step of the system keeps the types.
LEMMA TypeStep ==
  ASSUME TypeOK, SentInv, CurInv, [Next]_vars
  PROVE  TypeOK'
<1> USE RoutingAssumption DEF TypeOK, statusVars, redisVars, ioVars, procVars, clientVars,
        viewVars, msgVars
<1>1. ASSUME NEW s \in Servers, PublishCount(s) PROVE TypeOK'
  BY <1>1 DEF PublishCount, PCs
<1>2. ASSUME NEW s \in Servers, ResolveUid(s) PROVE TypeOK'
  <2>1. UNCHANGED <<statusVars, count, history, up, redis, sessions, phase, at, name,
                    wfail, roster, inbox, call, from, to, faults>>
    BY <1>2 DEF ResolveUid
  <2>2. stage' \in [Msgs -> Stages]
    BY <1>2, RefuseType, ContinueType DEF ResolveUid, PCs
  <2>3. pc' \in [Servers -> PCs]
    BY <1>2, RefuseType, ContinueType DEF ResolveUid, PCs
  <2>4. cur' \in [Servers -> Msgs \cup {0}]
    BY <1>2, RefuseType, ContinueType DEF ResolveUid, PCs
  <2>5. dst' \in [Servers -> Servers \cup {None}]
    BY <1>2, RefuseType, ContinueType DEF ResolveUid
  <2> QED  BY <2>1, <2>2, <2>3, <2>4, <2>5
<1>3. ASSUME NEW s \in Servers, LookupFails(s) PROVE TypeOK'
  <2>1. UNCHANGED <<statusVars, count, history, up, redis, sessions, phase, at, name,
                    wfail, roster, inbox, call, from, to>>
    BY <1>3 DEF LookupFails
  <2>2. stage' \in [Msgs -> Stages]
    BY <1>3, RefuseType, ContinueType DEF LookupFails
  <2>3. pc' \in [Servers -> PCs]
    BY <1>3, RefuseType, ContinueType DEF LookupFails
  <2>4. cur' \in [Servers -> Msgs \cup {0}]
    BY <1>3, RefuseType, ContinueType DEF LookupFails
  <2>5. dst' \in [Servers -> Servers \cup {None}]
    BY <1>3, RefuseType, ContinueType DEF LookupFails
  <2>6. faults' \in 0 .. MaxFaults
    BY <1>3 DEF LookupFails, Fault
  <2> QED  BY <2>1, <2>2, <2>3, <2>4, <2>5, <2>6
<1>4. ASSUME NEW s \in Servers, ResolveServer(s) PROVE TypeOK'
  <2>1. UNCHANGED <<statusVars, count, history, up, redis, sessions, phase, at, name,
                    wfail, roster, inbox, call, from, to, faults>>
    BY <1>4 DEF ResolveServer
  <2>2. stage' \in [Msgs -> Stages]
    BY <1>4, RefuseType, ContinueType DEF ResolveServer, PCs
  <2>3. pc' \in [Servers -> PCs]
    BY <1>4, RefuseType, ContinueType DEF ResolveServer, PCs
  <2>4. cur' \in [Servers -> Msgs \cup {0}]
    BY <1>4, RefuseType, ContinueType DEF ResolveServer, PCs
  <2>5. dst' \in [Servers -> Servers \cup {None}]
    BY <1>4, RefuseType, CurInv DEF ResolveServer, CurInv, Working, Busy
  <2> QED  BY <2>1, <2>2, <2>3, <2>4, <2>5
<1>5. ASSUME NEW s \in Servers, DeliverLocal(s) PROVE TypeOK'
  <2>1. UNCHANGED <<statusVars, count, history, up, redis, sessions, phase, at, name,
                    wfail, roster, call, from, to, faults>>
    BY <1>5 DEF DeliverLocal
  <2>2. inbox' \in [Clients -> Seq(Msgs)]
    BY <1>5, AsyncSendType, FirstNamedType DEF DeliverLocal, CurInv, Working, Busy
  <2>3. stage' \in [Msgs -> Stages]
    BY <1>5, RefuseType, ContinueType DEF DeliverLocal, PCs
  <2>4. pc' \in [Servers -> PCs]
    BY <1>5, RefuseType, ContinueType DEF DeliverLocal, PCs
  <2>5. cur' \in [Servers -> Msgs \cup {0}]
    BY <1>5, RefuseType, ContinueType DEF DeliverLocal, PCs
  <2>6. dst' \in [Servers -> Servers \cup {None}]
    BY <1>5, RefuseType, ContinueType DEF DeliverLocal
  <2> QED  BY <2>1, <2>2, <2>3, <2>4, <2>5, <2>6
<1>6. ASSUME NEW s \in Servers, CallPeer(s) PROVE TypeOK'
  <2>1. UNCHANGED <<statusVars, count, history, up, redis, sessions, dst, phase, at,
                    name, wfail, roster, inbox, from, to, faults>>
    BY <1>6 DEF CallPeer
  <2>2. stage' \in [Msgs -> Stages]
    BY <1>6, RefuseType, ContinueType DEF CallPeer, PCs
  <2>3. pc' \in [Servers -> PCs]
    BY <1>6, RefuseType, ContinueType DEF CallPeer, PCs
  <2>4. cur' \in [Servers -> Msgs \cup {0}]
    BY <1>6, RefuseType, ContinueType DEF CallPeer, PCs
  <2>5. call' \in [Msgs -> Calls]
    BY <1>6 DEF CallPeer, Calls
  <2> QED  BY <2>1, <2>2, <2>3, <2>4, <2>5
<1>7. ASSUME NEW s \in Servers, PeerAnswers(s) PROVE TypeOK'
  <2>1. UNCHANGED <<statusVars, count, history, up, redis, sessions, phase, at, name,
                    wfail, roster, inbox, call, from, to, faults>>
    BY <1>7 DEF PeerAnswers
  <2>2. stage' \in [Msgs -> Stages]
    BY <1>7, RefuseType, ContinueType DEF PeerAnswers, PCs
  <2>3. pc' \in [Servers -> PCs]
    BY <1>7, RefuseType, ContinueType DEF PeerAnswers, PCs
  <2>4. cur' \in [Servers -> Msgs \cup {0}]
    BY <1>7, RefuseType, ContinueType DEF PeerAnswers, PCs
  <2>5. dst' \in [Servers -> Servers \cup {None}]
    BY <1>7, RefuseType, ContinueType DEF PeerAnswers
  <2> QED  BY <2>1, <2>2, <2>3, <2>4, <2>5
<1>8. ASSUME NEW s \in Servers, PeerCallFails(s) PROVE TypeOK'
  <2>1. UNCHANGED <<statusVars, count, history, up, redis, sessions, phase, at, name,
                    wfail, roster, inbox, call, from, to>>
    BY <1>8 DEF PeerCallFails
  <2>2. stage' \in [Msgs -> Stages]
    BY <1>8, RefuseType, ContinueType DEF PeerCallFails
  <2>3. pc' \in [Servers -> PCs]
    BY <1>8, RefuseType, ContinueType DEF PeerCallFails
  <2>4. cur' \in [Servers -> Msgs \cup {0}]
    BY <1>8, RefuseType, ContinueType DEF PeerCallFails
  <2>5. dst' \in [Servers -> Servers \cup {None}]
    BY <1>8, RefuseType, ContinueType DEF PeerCallFails
  <2>6. faults' \in 0 .. MaxFaults
    BY <1>8 DEF PeerCallFails, Fault
  <2> QED  BY <2>1, <2>2, <2>3, <2>4, <2>5, <2>6
<1>9. ASSUME NEW s \in Servers, SaveSenderKey(s) PROVE TypeOK'
  <2>1. UNCHANGED <<statusVars, count, up, redis, sessions, dst, phase, at, name,
                    wfail, roster, inbox, call, from, to, faults>>
    BY <1>9 DEF SaveSenderKey
  <2>2. history' \in [Users \X Users -> SUBSET Msgs]
    <3>1. cur[s] \in Msgs  BY <1>9 DEF SaveSenderKey, Working, CurInv, Busy
    <3>2. CASE redis[s]  BY <1>9, <3>1, <3>2 DEF SaveSenderKey, ZAdd
    <3>3. CASE ~redis[s]  BY <1>9, <3>3 DEF SaveSenderKey, ZAdd
    <3> QED  BY <3>2, <3>3
  <2>3. stage' \in [Msgs -> Stages]
    BY <1>9, RefuseType, ContinueType DEF SaveSenderKey, PCs
  <2>4. pc' \in [Servers -> PCs]
    BY <1>9, RefuseType, ContinueType DEF SaveSenderKey, PCs
  <2>5. cur' \in [Servers -> Msgs \cup {0}]
    BY <1>9, RefuseType, ContinueType DEF SaveSenderKey, PCs
  <2> QED  BY <2>1, <2>2, <2>3, <2>4, <2>5
<1>10. ASSUME NEW s \in Servers, SaveRecverKey(s) PROVE TypeOK'
  <2>1. UNCHANGED <<statusVars, count, up, redis, sessions, phase, at, name, wfail,
                    roster, inbox, call, from, to, faults>>
    BY <1>10 DEF SaveRecverKey
  <2>2. history' \in [Users \X Users -> SUBSET Msgs]
    <3>1. cur[s] \in Msgs  BY <1>10 DEF SaveRecverKey, Working, CurInv, Busy
    <3>2. CASE redis[s]  BY <1>10, <3>1, <3>2 DEF SaveRecverKey, ZAdd
    <3>3. CASE ~redis[s]  BY <1>10, <3>3 DEF SaveRecverKey, ZAdd
    <3> QED  BY <3>2, <3>3
  <2>3. stage' \in [Msgs -> Stages]
    BY <1>10 DEF SaveRecverKey, Stages
  <2>4. pc' \in [Servers -> PCs]
    BY <1>10 DEF SaveRecverKey, PCs
  <2>5. cur' \in [Servers -> Msgs \cup {0}]
    BY <1>10 DEF SaveRecverKey
  <2>6. dst' \in [Servers -> Servers \cup {None}]
    BY <1>10 DEF SaveRecverKey
  <2> QED  BY <2>1, <2>2, <2>3, <2>4, <2>5, <2>6
<1>11. ASSUME NEW s \in Servers, Crash(s) PROVE TypeOK'
  <2>1. UNCHANGED <<statusVars, count, history, redis, at, inbox, from, to>>
    BY <1>11 DEF Crash
  <2>2. up' \in [Servers -> BOOLEAN]
    BY <1>11 DEF Crash
  <2>3. sessions' \in [Servers -> Seq(Clients)]
    BY <1>11 DEF Crash
  <2>4. pc' \in [Servers -> PCs]
    BY <1>11 DEF Crash, PCs
  <2>5. cur' \in [Servers -> Msgs \cup {0}]
    BY <1>11 DEF Crash
  <2>6. dst' \in [Servers -> Servers \cup {None}]
    BY <1>11 DEF Crash
  <2>7. phase' \in [Clients -> Phases]
    BY <1>11 DEF Crash, Phases
  <2>8. name' \in [Clients -> Users \cup {None}]
    BY <1>11 DEF Crash
  <2>9. roster' \in [Clients -> SUBSET (Users \cup {None})]
    BY <1>11 DEF Crash
  <2>10. wfail' \in [Clients -> BOOLEAN]
    BY <1>11 DEF Crash
  <2>11. stage' \in [Msgs -> Stages]
    BY <1>11 DEF Crash, Stages
  <2>12. call' \in [Msgs -> Calls]
    BY <1>11 DEF Crash, Calls
  <2>13. faults' \in 0 .. MaxFaults
    BY <1>11 DEF Crash, Fault
  <2> QED
    BY <2>1, <2>2, <2>3, <2>4, <2>5, <2>6, <2>7, <2>8, <2>9, <2>10, <2>11, <2>12, <2>13
<1>12. ASSUME NEW s \in Servers, Restart(s) PROVE TypeOK'
  BY <1>12 DEF Restart
<1>13. ASSUME NEW s \in Servers, RedisLost(s) PROVE TypeOK'
  BY <1>13 DEF RedisLost, Fault
<1>14. ASSUME NEW s \in Servers, NEW m \in Msgs, GetReplyMessage(s, m) PROVE TypeOK'
  <2>1. UNCHANGED <<statusVars, count, history, up, redis, sessions, pc, cur, dst,
                    phase, at, name, wfail, roster, stage, from, to, faults>>
    BY <1>14 DEF GetReplyMessage
  <2>2. inbox' \in [Clients -> Seq(Msgs)]
    BY <1>14, AsyncSendType, FirstNamedType DEF GetReplyMessage
  <2>3. call' \in [Msgs -> Calls]
    <3>1. PICK r \in {"found", "absent"} : call' = [call EXCEPT ![m] = [st |-> r, dst |-> s]]
      BY <1>14 DEF GetReplyMessage
    <3> QED  BY <3>1 DEF Calls
  <2> QED  BY <2>1, <2>2, <2>3
<1>15. ASSUME NEW s \in Servers, NEW c \in Clients, AddSession(s, c) PROVE TypeOK'
  BY <1>15 DEF AddSession, PCs, Phases
<1>16. ASSUME NEW s \in Servers, NEW c \in Clients, ReadName(s, c) PROVE TypeOK'
  <2>1. UNCHANGED <<statusVars, count, history, up, redis, sessions, pc, cur, dst,
                    phase, at, wfail, inbox, stage, call, from, to, faults>>
    BY <1>16 DEF ReadName
  <2>2. name' \in [Clients -> Users \cup {None}]
    BY <1>16 DEF ReadName
  <2>3. roster' \in [Clients -> SUBSET (Users \cup {None})]
    BY <1>16, BroadcastType, <2>2 DEF ReadName
  <2> QED  BY <2>1, <2>2, <2>3
<1>17. ASSUME NEW s \in Servers, NEW c \in Clients, ReadPrivate(s, c) PROVE TypeOK'
  BY <1>17 DEF ReadPrivate, PCs, Stages
<1>18. ASSUME NEW s \in Servers, NEW c \in Clients, ReadPublic(s, c) PROVE TypeOK'
  <2>1. UNCHANGED <<statusVars, count, history, up, redis, sessions, pc, cur, dst,
                    phase, at, name, wfail, roster, call, from, to, faults>>
    BY <1>18 DEF ReadPublic
  <2>2. stage' \in [Msgs -> Stages]
    BY <1>18 DEF ReadPublic, Stages
  <2>3. inbox' \in [Clients -> Seq(Msgs)]
    BY <1>18 DEF ReadPublic
  <2> QED  BY <2>1, <2>2, <2>3
<1>19. ASSUME NEW s \in Servers, NEW c \in Clients, ReadError(s, c) PROVE TypeOK'
  <2>1. UNCHANGED <<statusVars, count, history, up, redis, cur, dst, at, name, wfail,
                    inbox, call, from, to, faults>>
    BY <1>19 DEF ReadError
  <2>2. sessions' \in [Servers -> Seq(Clients)]
    BY <1>19, EraseType DEF ReadError, RemoveClient
  <2>3. roster' \in [Clients -> SUBSET (Users \cup {None})]
    BY <1>19, BroadcastType, <2>2 DEF ReadError, RemoveClient
  <2>4. pc' \in [Servers -> PCs]
    BY <1>19 DEF ReadError, RemoveClient, PCs
  <2>5. phase' \in [Clients -> Phases]
    BY <1>19 DEF ReadError, Phases
  <2>6. stage' \in [Msgs -> Stages]
    BY <1>19 DEF ReadError, Stages
  <2> QED  BY <2>1, <2>2, <2>3, <2>4, <2>5, <2>6
<1>20. ASSUME NEW s \in Servers, NEW c \in Clients, WriteError(s, c) PROVE TypeOK'
  <2>1. UNCHANGED <<statusVars, count, history, up, redis, cur, dst, phase, at, name,
                    inbox, stage, call, from, to, faults>>
    BY <1>20 DEF WriteError
  <2>2. sessions' \in [Servers -> Seq(Clients)]
    BY <1>20, EraseType DEF WriteError, RemoveClient
  <2>3. roster' \in [Clients -> SUBSET (Users \cup {None})]
    BY <1>20, BroadcastType, <2>2 DEF WriteError, RemoveClient
  <2>4. pc' \in [Servers -> PCs]
    BY <1>20 DEF WriteError, RemoveClient, PCs
  <2>5. wfail' \in [Clients -> BOOLEAN]
    BY <1>20 DEF WriteError
  <2> QED  BY <2>1, <2>2, <2>3, <2>4, <2>5
<1>21. ASSUME NEW c \in Clients, GetChatServer(c) PROVE TypeOK'
  <2>1. UNCHANGED <<count, history, up, redis, sessions, pc, cur, dst, name, wfail,
                    roster, inbox, stage, call, from, to>>
    BY <1>21 DEF GetChatServer
  <2>2. /\ userServer' \in [Users -> Servers \cup {None}]
        /\ at' \in [Clients -> Servers \cup {None}]
    BY <1>21 DEF GetChatServer
  <2>3. phase' \in [Clients -> Phases]  BY <1>21 DEF GetChatServer, Phases
  <2>4. /\ asking' = None /\ seen' = [t \in Servers |-> None]
        /\ UNCHANGED faults
    BY <1>21 DEF GetChatServer
  <2> QED  BY <2>1, <2>2, <2>3, <2>4
<1>22. ASSUME NEW c \in Clients, Leave(c) PROVE TypeOK'
  <2>1. UNCHANGED <<statusVars, count, history, up, redis, sessions, pc, cur, dst, at,
                    name, wfail, roster, inbox, stage, call, from, to, faults>>
    BY <1>22 DEF Leave
  <2>2. phase' \in [Clients -> Phases]
    <3>1. PICK p \in {"gone", "left"} : phase' = [phase EXCEPT ![c] = p]
      BY <1>22 DEF Leave
    <3> QED  BY <3>1 DEF Phases
  <2> QED  BY <2>1, <2>2
<1>23. ASSUME NEW c \in Clients, NEW u \in Users \cup {Everyone}, Send(c, u)
       PROVE  TypeOK'
  BY <1>23 DEF Send, Stages
<1>24. ASSUME UNCHANGED vars PROVE TypeOK'
  BY <1>24 DEF vars
<1>25. ASSUME StatusRestart PROVE TypeOK'
  BY <1>25 DEF StatusRestart, Fault
<1>26. ASSUME NEW c \in Clients, ReadCount(c) PROVE TypeOK'
  <2>1. UNCHANGED <<userServer, count, history, up, redis, sessions, pc, cur, dst, phase,
                    at, name, wfail, roster, inbox, stage, call, from, to>>
    BY <1>26 DEF ReadCount
  <2>2. asking' \in Clients \cup {None}  BY <1>26 DEF ReadCount
  <2>3. seen' \in [Servers -> Nat \cup {None}]
    <3>1. PICK t \in Healthy, k \in Nat : seen' = [seen EXCEPT ![t] = k]
      <4>1. \A t \in Healthy : count[t] \in Nat  BY RoutingAssumption
      <4> QED  BY <1>26, <4>1 DEF ReadCount
    <3> QED  BY <3>1
  <2>4. faults' \in 0 .. MaxFaults  BY <1>26 DEF ReadCount, Fault
  <2> QED  BY <2>1, <2>2, <2>3, <2>4
<1> QED
  BY <1>1, <1>2, <1>3, <1>4, <1>5, <1>6, <1>7, <1>8, <1>9, <1>10, <1>11, <1>12, <1>13,
     <1>14, <1>15, <1>16, <1>17, <1>18, <1>19, <1>20, <1>21, <1>22, <1>23, <1>24, <1>25,
     <1>26
  DEF Next, ServerStep, SessionStep, ClientStep

(***************************************************************************)
(* The other parts of ThreadInv.                                           *)
(***************************************************************************)
LEMMA RefuseCur ==
  ASSUME TypeOK, CurInv, OneHandler, UNCHANGED to,
         NEW s \in Servers, pc[s] \in Busy, Refuse(s)
  PROVE  CurInv' /\ OneHandler'
<1>1. CurInv'
  <2> SUFFICES ASSUME NEW t \in Servers
               PROVE  /\ pc'[t] \notin Busy => cur'[t] = 0
                      /\ pc'[t] \in Busy => /\ cur'[t] \in Msgs
                                            /\ stage'[cur'[t]] = "handling"
                                            /\ to'[cur'[t]] \in Users
    BY DEF CurInv
  <2>1. CASE t = s  BY <2>1 DEF TypeOK, Refuse, Busy
  <2>2. CASE t # s
    <3>1. pc'[t] = pc[t] /\ cur'[t] = cur[t]  BY <2>2 DEF Refuse
    <3>2. pc[t] \in Busy => cur[t] # cur[s]  BY <2>2 DEF CurInv, OneHandler, Msgs
    <3> QED  BY <3>1, <3>2 DEF CurInv, Refuse
  <2> QED  BY <2>1, <2>2
<1>2. OneHandler'  BY DEF OneHandler, Refuse
<1> QED  BY <1>1, <1>2

\* A thread that goes on keeps its message.
LEMMA ContinueCur ==
  ASSUME TypeOK, CurInv, OneHandler, UNCHANGED to,
         NEW s \in Servers, pc[s] \in Busy, NEW p \in Busy, Continue(s, p)
  PROVE  CurInv' /\ OneHandler'
  BY DEF CurInv, OneHandler, Continue

\* A message keeps the sender and the addressee it was sent with.
LEMMA SentStep ==
  ASSUME TypeOK, SentInv, CurInv, [Next]_vars
  PROVE  SentInv'
<1> USE RoutingAssumption DEF TypeOK, SentInv, CurInv, Busy, redisVars, ioVars,
        procVars, clientVars, viewVars, msgVars
<1>1. ASSUME NEW s \in Servers, PublishCount(s) PROVE SentInv'
  BY <1>1 DEF PublishCount
<1>2. ASSUME NEW s \in Servers, ResolveUid(s) PROVE SentInv'
  BY <1>2 DEF ResolveUid, Working, Continue, Refuse
<1>3. ASSUME NEW s \in Servers, LookupFails(s) PROVE SentInv'
  BY <1>3 DEF LookupFails, Working, Refuse
<1>4. ASSUME NEW s \in Servers, ResolveServer(s) PROVE SentInv'
  BY <1>4 DEF ResolveServer, Working, Continue, Refuse
<1>5. ASSUME NEW s \in Servers, DeliverLocal(s) PROVE SentInv'
  BY <1>5 DEF DeliverLocal, Working, Continue, Refuse
<1>6. ASSUME NEW s \in Servers, CallPeer(s) PROVE SentInv'
  BY <1>6 DEF CallPeer, Continue
<1>7. ASSUME NEW s \in Servers, PeerAnswers(s) PROVE SentInv'
  BY <1>7 DEF PeerAnswers, Working, Continue, Refuse
<1>8. ASSUME NEW s \in Servers, PeerCallFails(s) PROVE SentInv'
  BY <1>8 DEF PeerCallFails, Working, Refuse
<1>9. ASSUME NEW s \in Servers, SaveSenderKey(s) PROVE SentInv'
  BY <1>9 DEF SaveSenderKey, Continue
<1>10. ASSUME NEW s \in Servers, SaveRecverKey(s) PROVE SentInv'
  BY <1>10 DEF SaveRecverKey, Working
<1>11. ASSUME NEW s \in Servers, Crash(s) PROVE SentInv'
  <2>1. \A m \in Msgs : stage'[m] # "unsent" => stage[m] # "unsent" \/ m = cur[s]
    BY <1>11 DEF Crash
  <2>2. cur[s] \in Msgs => stage[cur[s]] # "unsent"  BY ZeroNotMsg
  <2>3. UNCHANGED msgVars  BY <1>11 DEF Crash
  <2> QED  BY <2>1, <2>2, <2>3
<1>12. ASSUME NEW s \in Servers, Restart(s) PROVE SentInv'
  BY <1>12 DEF Restart
<1>13. ASSUME NEW s \in Servers, RedisLost(s) PROVE SentInv'
  BY <1>13 DEF RedisLost
<1>14. ASSUME NEW s \in Servers, NEW m \in Msgs, GetReplyMessage(s, m) PROVE SentInv'
  BY <1>14 DEF GetReplyMessage
<1>15. ASSUME NEW s \in Servers, NEW c \in Clients, AddSession(s, c) PROVE SentInv'
  BY <1>15 DEF AddSession
<1>16. ASSUME NEW s \in Servers, NEW c \in Clients, ReadName(s, c) PROVE SentInv'
  BY <1>16 DEF ReadName
<1>17. ASSUME NEW s \in Servers, NEW c \in Clients, ReadPrivate(s, c) PROVE SentInv'
  BY <1>17 DEF ReadPrivate, NextOnWire
<1>18. ASSUME NEW s \in Servers, NEW c \in Clients, ReadPublic(s, c) PROVE SentInv'
  BY <1>18 DEF ReadPublic, NextOnWire
<1>19. ASSUME NEW s \in Servers, NEW c \in Clients, ReadError(s, c) PROVE SentInv'
  BY <1>19 DEF ReadError
<1>20. ASSUME NEW s \in Servers, NEW c \in Clients, WriteError(s, c) PROVE SentInv'
  BY <1>20 DEF WriteError
<1>21. ASSUME NEW c \in Clients, GetChatServer(c) PROVE SentInv'
  BY <1>21 DEF GetChatServer
<1>22. ASSUME NEW c \in Clients, Leave(c) PROVE SentInv'
  BY <1>22 DEF Leave
<1>23. ASSUME NEW c \in Clients, NEW u \in Users \cup {Everyone}, Send(c, u)
       PROVE  SentInv'
  BY <1>23 DEF Send
<1>24. ASSUME UNCHANGED vars PROVE SentInv'
  BY <1>24 DEF vars
<1>25. ASSUME StatusRestart PROVE SentInv'
  BY <1>25 DEF StatusRestart
<1>26. ASSUME NEW c \in Clients, ReadCount(c) PROVE SentInv'
  BY <1>26 DEF ReadCount
<1> QED
  BY <1>1, <1>2, <1>3, <1>4, <1>5, <1>6, <1>7, <1>8, <1>9, <1>10, <1>11, <1>12, <1>13,
     <1>14, <1>15, <1>16, <1>17, <1>18, <1>19, <1>20, <1>21, <1>22, <1>23, <1>24, <1>25,
     <1>26
  DEF Next, ServerStep, SessionStep, ClientStep

\* Every thread inside a handler has a message of its own in every next state.
LEMMA CurStep ==
  ASSUME TypeOK, SentInv, CurInv, OneHandler, [Next]_vars
  PROVE  CurInv' /\ OneHandler'
<1> USE RoutingAssumption DEF ioVars, msgVars
<1>1. ASSUME NEW s \in Servers, PublishCount(s) PROVE CurInv' /\ OneHandler'
  BY <1>1 DEF PublishCount, CurInv, OneHandler, Busy
<1>2. ASSUME NEW s \in Servers, ResolveUid(s) PROVE CurInv' /\ OneHandler'
  BY <1>2, RefuseCur, ContinueCur DEF ResolveUid, Working, Busy
<1>3. ASSUME NEW s \in Servers, LookupFails(s) PROVE CurInv' /\ OneHandler'
  BY <1>3, RefuseCur, ContinueCur DEF LookupFails, Working, Busy
<1>4. ASSUME NEW s \in Servers, ResolveServer(s) PROVE CurInv' /\ OneHandler'
  BY <1>4, RefuseCur, ContinueCur DEF ResolveServer, Working, Busy
<1>5. ASSUME NEW s \in Servers, DeliverLocal(s) PROVE CurInv' /\ OneHandler'
  BY <1>5, RefuseCur, ContinueCur DEF DeliverLocal, Working, Busy
<1>6. ASSUME NEW s \in Servers, CallPeer(s) PROVE CurInv' /\ OneHandler'
  BY <1>6, RefuseCur, ContinueCur DEF CallPeer, Working, Busy
<1>7. ASSUME NEW s \in Servers, PeerAnswers(s) PROVE CurInv' /\ OneHandler'
  BY <1>7, RefuseCur, ContinueCur DEF PeerAnswers, Working, Busy
<1>8. ASSUME NEW s \in Servers, PeerCallFails(s) PROVE CurInv' /\ OneHandler'
  BY <1>8, RefuseCur, ContinueCur DEF PeerCallFails, Working, Busy
<1>9. ASSUME NEW s \in Servers, SaveSenderKey(s) PROVE CurInv' /\ OneHandler'
  BY <1>9, RefuseCur, ContinueCur DEF SaveSenderKey, Working, Busy
<1>10. ASSUME NEW s \in Servers, SaveRecverKey(s) PROVE CurInv' /\ OneHandler'
  <2>1. stage' = [stage EXCEPT ![cur[s]] = "ok"] /\ pc' = [pc EXCEPT ![s] = "idle"]
    BY <1>10 DEF SaveRecverKey
  <2>2. cur' = [cur EXCEPT ![s] = 0] /\ UNCHANGED to /\ pc[s] \in Busy
    BY <1>10 DEF SaveRecverKey, Working, Busy
  <2>3. ASSUME NEW t \in Servers, t # s PROVE pc[t] \in Busy => cur[t] # cur[s]
    BY <2>2, <2>3 DEF CurInv, OneHandler, Msgs
  <2>4. CurInv'  BY <2>1, <2>2, <2>3 DEF TypeOK, CurInv, Busy
  <2>5. OneHandler'  BY <2>2 DEF OneHandler
  <2> QED  BY <2>4, <2>5
<1>11. ASSUME NEW s \in Servers, Crash(s) PROVE CurInv' /\ OneHandler'
  <2>1. pc' = [pc EXCEPT ![s] = "idle"] /\ cur' = [cur EXCEPT ![s] = 0] /\ UNCHANGED to
    BY <1>11 DEF Crash
  <2>2. ASSUME NEW t \in Servers, t # s, pc[t] \in Busy
        PROVE  cur[t] \in Msgs /\ stage'[cur[t]] = "handling"
    <3>1. cur[t] \in Msgs /\ cur[t] # cur[s] /\ stage[cur[t]] = "handling"
      BY <2>2 DEF CurInv, OneHandler, Msgs
    <3> QED  BY <1>11, <3>1 DEF Crash
  <2>3. CurInv'  BY <2>1, <2>2 DEF TypeOK, CurInv, Busy
  <2>4. OneHandler'  BY <2>1 DEF OneHandler
  <2> QED  BY <2>3, <2>4
<1>12. ASSUME NEW s \in Servers, Restart(s) PROVE CurInv' /\ OneHandler'
  BY <1>12 DEF Restart, CurInv, OneHandler
<1>13. ASSUME NEW s \in Servers, RedisLost(s) PROVE CurInv' /\ OneHandler'
  BY <1>13 DEF RedisLost, CurInv, OneHandler
<1>14. ASSUME NEW s \in Servers, NEW m \in Msgs, GetReplyMessage(s, m)
       PROVE  CurInv' /\ OneHandler'
  BY <1>14 DEF GetReplyMessage, CurInv, OneHandler
<1>15. ASSUME NEW s \in Servers, NEW c \in Clients, AddSession(s, c)
       PROVE  CurInv' /\ OneHandler'
  BY <1>15 DEF AddSession, IoIdle, CurInv, OneHandler, Busy
<1>16. ASSUME NEW s \in Servers, NEW c \in Clients, ReadName(s, c)
       PROVE  CurInv' /\ OneHandler'
  BY <1>16 DEF ReadName, CurInv, OneHandler
<1>17. ASSUME NEW s \in Servers, NEW c \in Clients, ReadPrivate(s, c)
       PROVE  CurInv' /\ OneHandler'
  <2>1. PICK m \in Msgs : /\ stage[m] = "wire" /\ to[m] # Everyone
                          /\ stage' = [stage EXCEPT ![m] = "handling"]
                          /\ cur' = [cur EXCEPT ![s] = m]
    BY <1>17 DEF ReadPrivate, NextOnWire
  <2>2. pc' = [pc EXCEPT ![s] = "uid"] /\ UNCHANGED to
    BY <1>17 DEF ReadPrivate
  <2>3. to[m] \in Users  BY <2>1 DEF SentInv
  <2>4. ASSUME NEW t \in Servers PROVE cur[t] # m
    BY <2>1 DEF CurInv, Msgs
  <2>5. CurInv'  BY <2>1, <2>2, <2>3 DEF TypeOK, CurInv, Busy
  <2>6. OneHandler'  BY <2>1, <2>4 DEF OneHandler
  <2> QED  BY <2>5, <2>6
<1>18. ASSUME NEW s \in Servers, NEW c \in Clients, ReadPublic(s, c)
       PROVE  CurInv' /\ OneHandler'
  BY <1>18 DEF ReadPublic, CurInv, OneHandler
<1>19. ASSUME NEW s \in Servers, NEW c \in Clients, ReadError(s, c)
       PROVE  CurInv' /\ OneHandler'
  BY <1>19 DEF ReadError, IoIdle, RemoveClient, CurInv, OneHandler, Busy
<1>20. ASSUME NEW s \in Servers, NEW c \in Clients, WriteError(s, c)
       PROVE  CurInv' /\ OneHandler'
  BY <1>20 DEF WriteError, IoIdle, RemoveClient, CurInv, OneHandler, Busy
<1>21. ASSUME NEW c \in Clients, GetChatServer(c) PROVE CurInv' /\ OneHandler'
  BY <1>21 DEF GetChatServer, CurInv, OneHandler
<1>22. ASSUME NEW c \in Clients, Leave(c) PROVE CurInv' /\ OneHandler'
  BY <1>22 DEF Leave, CurInv, OneHandler
<1>23. ASSUME NEW c \in Clients, NEW u \in Users \cup {Everyone}, Send(c, u)
       PROVE  CurInv' /\ OneHandler'
  BY <1>23 DEF Send, CurInv, OneHandler
<1>24. ASSUME UNCHANGED vars PROVE CurInv' /\ OneHandler'
  BY <1>24 DEF vars, CurInv, OneHandler
<1>25. ASSUME StatusRestart PROVE CurInv' /\ OneHandler'
  BY <1>25 DEF StatusRestart, CurInv, OneHandler
<1>26. ASSUME NEW c \in Clients, ReadCount(c) PROVE CurInv' /\ OneHandler'
  BY <1>26 DEF ReadCount, CurInv, OneHandler
<1> QED
  BY <1>1, <1>2, <1>3, <1>4, <1>5, <1>6, <1>7, <1>8, <1>9, <1>10, <1>11, <1>12, <1>13,
     <1>14, <1>15, <1>16, <1>17, <1>18, <1>19, <1>20, <1>21, <1>22, <1>23, <1>24, <1>25,
     <1>26
  DEF Next, ServerStep, SessionStep, ClientStep

\* A server that is down has no sessions and no handler, until it runs again.
LEMMA DownStep ==
  ASSUME TypeOK, DownInv, [Next]_vars
  PROVE  DownInv'
<1> USE RoutingAssumption DEF TypeOK, DownInv, redisVars, ioVars, procVars, clientVars,
        viewVars, msgVars
<1>1. ASSUME NEW s \in Servers, PublishCount(s) PROVE DownInv'
  BY <1>1 DEF PublishCount
<1>2. ASSUME NEW s \in Servers, ResolveUid(s) PROVE DownInv'
  BY <1>2 DEF ResolveUid, Working, Continue, Refuse
<1>3. ASSUME NEW s \in Servers, LookupFails(s) PROVE DownInv'
  BY <1>3 DEF LookupFails, Refuse
<1>4. ASSUME NEW s \in Servers, ResolveServer(s) PROVE DownInv'
  BY <1>4 DEF ResolveServer, Working, Continue, Refuse
<1>5. ASSUME NEW s \in Servers, DeliverLocal(s) PROVE DownInv'
  BY <1>5 DEF DeliverLocal, Continue, Refuse
<1>6. ASSUME NEW s \in Servers, CallPeer(s) PROVE DownInv'
  BY <1>6 DEF CallPeer, Working, Continue
<1>7. ASSUME NEW s \in Servers, PeerAnswers(s) PROVE DownInv'
  BY <1>7 DEF PeerAnswers, Working, Continue, Refuse
<1>8. ASSUME NEW s \in Servers, PeerCallFails(s) PROVE DownInv'
  BY <1>8 DEF PeerCallFails, Refuse
<1>9. ASSUME NEW s \in Servers, SaveSenderKey(s) PROVE DownInv'
  BY <1>9 DEF SaveSenderKey, Working, Continue
<1>10. ASSUME NEW s \in Servers, SaveRecverKey(s) PROVE DownInv'
  BY <1>10 DEF SaveRecverKey
<1>11. ASSUME NEW s \in Servers, Crash(s) PROVE DownInv'
  BY <1>11 DEF Crash
<1>12. ASSUME NEW s \in Servers, Restart(s) PROVE DownInv'
  BY <1>12 DEF Restart
<1>13. ASSUME NEW s \in Servers, RedisLost(s) PROVE DownInv'
  BY <1>13 DEF RedisLost
<1>14. ASSUME NEW s \in Servers, NEW m \in Msgs, GetReplyMessage(s, m) PROVE DownInv'
  BY <1>14 DEF GetReplyMessage
<1>15. ASSUME NEW s \in Servers, NEW c \in Clients, AddSession(s, c) PROVE DownInv'
  BY <1>15 DEF AddSession, IoIdle
<1>16. ASSUME NEW s \in Servers, NEW c \in Clients, ReadName(s, c) PROVE DownInv'
  BY <1>16 DEF ReadName
<1>17. ASSUME NEW s \in Servers, NEW c \in Clients, ReadPrivate(s, c) PROVE DownInv'
  BY <1>17 DEF ReadPrivate, Readable, IoIdle
<1>18. ASSUME NEW s \in Servers, NEW c \in Clients, ReadPublic(s, c) PROVE DownInv'
  BY <1>18 DEF ReadPublic
<1>19. ASSUME NEW s \in Servers, NEW c \in Clients, ReadError(s, c) PROVE DownInv'
  BY <1>19 DEF ReadError, IoIdle, RemoveClient
<1>20. ASSUME NEW s \in Servers, NEW c \in Clients, WriteError(s, c) PROVE DownInv'
  BY <1>20 DEF WriteError, IoIdle, RemoveClient
<1>21. ASSUME NEW c \in Clients, GetChatServer(c) PROVE DownInv'
  BY <1>21 DEF GetChatServer
<1>22. ASSUME NEW c \in Clients, Leave(c) PROVE DownInv'
  BY <1>22 DEF Leave
<1>23. ASSUME NEW c \in Clients, NEW u \in Users \cup {Everyone}, Send(c, u)
       PROVE  DownInv'
  BY <1>23 DEF Send
<1>24. ASSUME UNCHANGED vars PROVE DownInv'
  BY <1>24 DEF vars
<1>25. ASSUME StatusRestart PROVE DownInv'
  BY <1>25 DEF StatusRestart
<1>26. ASSUME NEW c \in Clients, ReadCount(c) PROVE DownInv'
  BY <1>26 DEF ReadCount
<1> QED
  BY <1>1, <1>2, <1>3, <1>4, <1>5, <1>6, <1>7, <1>8, <1>9, <1>10, <1>11, <1>12, <1>13,
     <1>14, <1>15, <1>16, <1>17, <1>18, <1>19, <1>20, <1>21, <1>22, <1>23, <1>24, <1>25,
     <1>26
  DEF Next, ServerStep, SessionStep, ClientStep

\* The io threads: each message is handled by one thread at a time, from where it
\* was read to where the sender is told (TcpChatServer::send_private_msg).
THEOREM ThreadInvariant == Spec => []ThreadInv
<1>1. Init => ThreadInv  BY InitThread
<1>2. ThreadInv /\ [Next]_vars => ThreadInv'
  BY TypeStep, SentStep, CurStep, DownStep DEF ThreadInv
<1> QED  BY <1>1, <1>2, PTL DEF Spec

\* Every variable keeps its type.
THEOREM TypeCorrect == Spec => []TypeOK
  BY ThreadInvariant, PTL DEF ThreadInv

\* Only AddSession and RemoveClient change a vector, and both hold the lock until
\* the size is written.
LEMMA CountStep ==
  ASSUME TypeOK, CurInv, DownInv, CountIsSessions, [Next]_vars
  PROVE  CountIsSessions'
<1> USE RoutingAssumption DEF TypeOK, CurInv, DownInv, CountIsSessions, MutexFree,
        redisVars, ioVars, procVars, clientVars, viewVars, msgVars
<1>1. ASSUME NEW s \in Servers, PublishCount(s) PROVE CountIsSessions'
  BY <1>1 DEF PublishCount
<1>2. ASSUME NEW s \in Servers, ResolveUid(s) PROVE CountIsSessions'
  BY <1>2 DEF ResolveUid, Working, Continue, Refuse
<1>3. ASSUME NEW s \in Servers, LookupFails(s) PROVE CountIsSessions'
  BY <1>3 DEF LookupFails, Working, Refuse
<1>4. ASSUME NEW s \in Servers, ResolveServer(s) PROVE CountIsSessions'
  BY <1>4 DEF ResolveServer, Working, Continue, Refuse
<1>5. ASSUME NEW s \in Servers, DeliverLocal(s) PROVE CountIsSessions'
  BY <1>5 DEF DeliverLocal, Working, Continue, Refuse
<1>6. ASSUME NEW s \in Servers, CallPeer(s) PROVE CountIsSessions'
  BY <1>6 DEF CallPeer, Working, Continue
<1>7. ASSUME NEW s \in Servers, PeerAnswers(s) PROVE CountIsSessions'
  BY <1>7 DEF PeerAnswers, Working, Continue, Refuse
<1>8. ASSUME NEW s \in Servers, PeerCallFails(s) PROVE CountIsSessions'
  BY <1>8 DEF PeerCallFails, Working, Refuse
<1>9. ASSUME NEW s \in Servers, SaveSenderKey(s) PROVE CountIsSessions'
  BY <1>9 DEF SaveSenderKey, Working, Continue
<1>10. ASSUME NEW s \in Servers, SaveRecverKey(s) PROVE CountIsSessions'
  BY <1>10 DEF SaveRecverKey, Working
<1>11. ASSUME NEW s \in Servers, Crash(s) PROVE CountIsSessions'
  BY <1>11 DEF Crash
<1>12. ASSUME NEW s \in Servers, Restart(s) PROVE CountIsSessions'
  BY <1>12 DEF Restart
<1>13. ASSUME NEW s \in Servers, RedisLost(s) PROVE CountIsSessions'
  BY <1>13 DEF RedisLost
<1>14. ASSUME NEW s \in Servers, NEW m \in Msgs, GetReplyMessage(s, m)
       PROVE  CountIsSessions'
  BY <1>14 DEF GetReplyMessage
<1>15. ASSUME NEW s \in Servers, NEW c \in Clients, AddSession(s, c)
       PROVE  CountIsSessions'
  BY <1>15 DEF AddSession
<1>16. ASSUME NEW s \in Servers, NEW c \in Clients, ReadName(s, c)
       PROVE  CountIsSessions'
  BY <1>16 DEF ReadName
<1>17. ASSUME NEW s \in Servers, NEW c \in Clients, ReadPrivate(s, c)
       PROVE  CountIsSessions'
  BY <1>17 DEF ReadPrivate, Readable, IoIdle
<1>18. ASSUME NEW s \in Servers, NEW c \in Clients, ReadPublic(s, c)
       PROVE  CountIsSessions'
  BY <1>18 DEF ReadPublic
<1>19. ASSUME NEW s \in Servers, NEW c \in Clients, ReadError(s, c)
       PROVE  CountIsSessions'
  BY <1>19 DEF ReadError, RemoveClient
<1>20. ASSUME NEW s \in Servers, NEW c \in Clients, WriteError(s, c)
       PROVE  CountIsSessions'
  BY <1>20 DEF WriteError, RemoveClient
<1>21. ASSUME NEW c \in Clients, GetChatServer(c) PROVE CountIsSessions'
  BY <1>21 DEF GetChatServer
<1>22. ASSUME NEW c \in Clients, Leave(c) PROVE CountIsSessions'
  BY <1>22 DEF Leave
<1>23. ASSUME NEW c \in Clients, NEW u \in Users \cup {Everyone}, Send(c, u)
       PROVE  CountIsSessions'
  BY <1>23 DEF Send
<1>24. ASSUME UNCHANGED vars PROVE CountIsSessions'
  BY <1>24 DEF vars
<1>25. ASSUME StatusRestart PROVE CountIsSessions'
  BY <1>25 DEF StatusRestart
<1>26. ASSUME NEW c \in Clients, ReadCount(c) PROVE CountIsSessions'
  BY <1>26 DEF ReadCount
<1> QED
  BY <1>1, <1>2, <1>3, <1>4, <1>5, <1>6, <1>7, <1>8, <1>9, <1>10, <1>11, <1>12, <1>13,
     <1>14, <1>15, <1>16, <1>17, <1>18, <1>19, <1>20, <1>21, <1>22, <1>23, <1>24, <1>25,
     <1>26
  DEF Next, ServerStep, SessionStep, ClientStep

\* No sessions, and a count of 0.
LEMMA InitCount == Init => CountIsSessions
  BY DEF Init, CountIsSessions

\* The load StatusServer reads is right whenever no thread holds mtx_ to change it,
\* through double removals, crashes and restarts, as long as Redis can be written.
THEOREM CountCorrect == Spec => []CountIsSessions
<1>1. ThreadInv /\ CountIsSessions /\ [Next]_vars => CountIsSessions'
  BY CountStep DEF ThreadInv
<1> QED  BY InitCount, ThreadInvariant, <1>1, PTL DEF Spec

(***************************************************************************)
(* AtMostOneDelivery.                                                      *)
(***************************************************************************)
LEMMA RefuseDelivery ==
  ASSUME TypeOK, CurInv, DeliveryInv, UNCHANGED <<to, call, inbox>>,
         NEW s \in Servers, pc[s] \in Busy, Refuse(s)
  PROVE  DeliveryInv'
<1> USE ZeroNotMsg DEF TypeOK, Refuse
<1>1. \A m \in Msgs : /\ stage[m] \notin {"unsent", "wire"} =>
                           stage'[m] \notin {"unsent", "wire"}
                      /\ \A t \in Servers : cur'[t] = m =>
                                              t # s /\ cur[t] = m /\ pc'[t] = pc[t]
  OBVIOUS
<1>2. CallInv'  BY <1>1 DEF DeliveryInv, CallInv
<1>3. HandedInv'  BY <1>1 DEF DeliveryInv, HandedInv, Got
<1>4. AtMostOneDelivery'  BY DEF DeliveryInv, AtMostOneDelivery, Private
<1> QED  BY <1>2, <1>3, <1>4 DEF DeliveryInv

\* A thread that goes on with its message, having handed over nothing, leaves
\* everybody's evidence as it was.
LEMMA ContinueDelivery ==
  ASSUME TypeOK, DeliveryInv, UNCHANGED <<to, call, inbox>>,
         NEW s \in Servers, NEW p \in PCs, Continue(s, p),
         pc[s] \in {"wait", "save1", "save2"} => p \in {"wait", "save1", "save2"}
  PROVE  DeliveryInv'
<1> USE DEF TypeOK, Continue
<1>1. \A t \in Servers : pc[t] \in {"wait", "save1", "save2"} =>
                           pc'[t] \in {"wait", "save1", "save2"}
  OBVIOUS
<1>2. CallInv'  BY <1>1 DEF DeliveryInv, CallInv
<1>3. HandedInv'  BY <1>1 DEF DeliveryInv, HandedInv, Got
<1>4. AtMostOneDelivery'  BY DEF DeliveryInv, AtMostOneDelivery, Private
<1> QED  BY <1>2, <1>3, <1>4 DEF DeliveryInv

\* What async_send changes: one session has got one more message.
LEMMA HandOver ==
  ASSUME TypeOK, NEW c \in Clients, NEW m \in Msgs, AsyncSend(c, m)
  PROVE  /\ Got(c, m)'
         /\ \A d \in Clients, k \in Msgs : Got(d, k)' <=> (Got(d, k) \/ (d = c /\ k = m))
<1>1. inbox'[c] = Append(inbox[c], m)  BY DEF TypeOK, AsyncSend
<1>2. \A d \in Clients : d # c => inbox'[d] = inbox[d]  BY DEF AsyncSend
<1>3. inbox[c] \in Seq(Msgs)  BY DEF TypeOK
<1>4. /\ Len(inbox'[c]) = Len(inbox[c]) + 1 /\ inbox'[c][Len(inbox[c]) + 1] = m
      /\ \A i \in 1 .. Len(inbox[c]) : inbox'[c][i] = inbox[c][i]
  BY <1>1, <1>3
<1>5. Len(inbox[c]) \in Nat  BY <1>3
<1>6. Got(c, m)'  BY <1>4, <1>5 DEF Got
<1>7. ASSUME NEW k \in Msgs PROVE Got(c, k)' <=> (Got(c, k) \/ k = m)
  BY <1>4, <1>5 DEF Got
<1>8. ASSUME NEW d \in Clients, d # c, NEW k \in Msgs PROVE Got(d, k)' <=> Got(d, k)
  BY <1>2, <1>8 DEF Got
<1> QED  BY <1>6, <1>7, <1>8

\* A message nobody has got is handed to one session: it has been handed over once.
LEMMA HandOnce ==
  ASSUME TypeOK, NEW c \in Clients, NEW m \in Msgs, AsyncSend(c, m), UNCHANGED to,
         \A d \in Clients : ~Got(d, m), AtMostOneDelivery
  PROVE  AtMostOneDelivery'
<1>1. inbox'[c] = Append(inbox[c], m)  BY DEF TypeOK, AsyncSend
<1>2. \A d \in Clients : d # c => inbox'[d] = inbox[d]  BY DEF AsyncSend
<1>3. \A d \in Clients : inbox[d] \in Seq(Msgs) /\ Len(inbox[d]) \in Nat  BY DEF TypeOK
<1>4. /\ Len(inbox'[c]) = Len(inbox[c]) + 1 /\ inbox'[c][Len(inbox[c]) + 1] = m
      /\ \A i \in 1 .. Len(inbox[c]) : inbox'[c][i] = inbox[c][i]
  BY <1>1, <1>3
<1>5. ASSUME NEW d \in Clients, NEW i \in 1 .. Len(inbox'[d])
      PROVE  \/ d = c /\ i = Len(inbox[c]) + 1 /\ inbox'[d][i] = m
             \/ i \in 1 .. Len(inbox[d]) /\ inbox'[d][i] = inbox[d][i] /\ inbox'[d][i] # m
  <2>1. CASE d = c /\ i = Len(inbox[c]) + 1  BY <1>4, <2>1
  <2>2. CASE ~(d = c /\ i = Len(inbox[c]) + 1)
    <3>1. i \in 1 .. Len(inbox[d]) /\ inbox'[d][i] = inbox[d][i]
      BY <1>2, <1>3, <1>4, <2>2
    <3> QED  BY <3>1 DEF Got
  <2> QED  BY <2>1, <2>2
<1>6. SUFFICES ASSUME NEW k \in Msgs, Private(k)', NEW d \in Clients, NEW e \in Clients,
                      NEW i \in 1 .. Len(inbox'[d]), NEW j \in 1 .. Len(inbox'[e]),
                      inbox'[d][i] = k, inbox'[e][j] = k
               PROVE  d = e /\ i = j
  BY DEF AtMostOneDelivery
<1>7. CASE k = m  BY <1>5, <1>6, <1>7
<1>8. CASE k # m
  <2>1. /\ i \in 1 .. Len(inbox[d]) /\ inbox[d][i] = k
        /\ j \in 1 .. Len(inbox[e]) /\ inbox[e][j] = k
    BY <1>5, <1>6, <1>8
  <2> QED  BY <1>6, <2>1 DEF AtMostOneDelivery, Private
<1> QED  BY <1>7, <1>8

\* No step hands a message over that has been, or may still be, handed over.
LEMMA DeliveryStep ==
  ASSUME ThreadInv, DeliveryInv, [Next]_vars
  PROVE  DeliveryInv'
<1> USE ZeroNotMsg DEF ThreadInv, redisVars, ioVars, procVars, clientVars, viewVars,
        msgVars

<1>1. ASSUME NEW s \in Servers, PublishCount(s) PROVE DeliveryInv'
  BY <1>1
  DEF PublishCount, CurInv, SentInv, DeliveryInv, CallInv, HandedInv, AtMostOneDelivery,
        Got, Private, Busy
<1>2. ASSUME NEW s \in Servers, ResolveUid(s) PROVE DeliveryInv'
  BY <1>2, RefuseDelivery, ContinueDelivery DEF ResolveUid, Working, Busy, PCs
<1>3. ASSUME NEW s \in Servers, LookupFails(s) PROVE DeliveryInv'
  BY <1>3, RefuseDelivery, ContinueDelivery DEF LookupFails, Working, Busy
<1>4. ASSUME NEW s \in Servers, ResolveServer(s) PROVE DeliveryInv'
  BY <1>4, RefuseDelivery, ContinueDelivery DEF ResolveServer, Working, Busy, PCs
<1>5. ASSUME NEW s \in Servers, DeliverLocal(s) PROVE DeliveryInv'
  <2>1. cur[s] \in Msgs /\ stage[cur[s]] = "handling" /\ pc[s] = "route"
       /\ UNCHANGED <<to, call>>
    BY <1>5 DEF DeliverLocal, Working, CurInv, Busy
  <2>2. call[cur[s]].st = "none" /\ \A d \in Clients : ~Got(d, cur[s])
    BY <2>1 DEF DeliveryInv, CallInv, HandedInv
  <2>3. ASSUME NEW i, FirstNamed(sessions[s], to[cur[s]], i),
               AsyncSend(sessions[s][i], cur[s]), Continue(s, "save1")
        PROVE  DeliveryInv'
    <3>1. sessions[s][i] \in Clients  BY <2>3, FirstNamedType
    <3>2. AtMostOneDelivery'  BY <2>1, <2>2, <2>3, <3>1, HandOnce DEF DeliveryInv
    <3>3. /\ UNCHANGED <<stage, cur>>
          /\ \A t \in Servers : pc[t] \in {"wait", "save1", "save2"} =>
                                  pc'[t] \in {"wait", "save1", "save2"}
          /\ pc'[s] = "save1"
      BY <2>3 DEF Continue, TypeOK
    <3>4. CallInv'  BY <2>1, <3>3 DEF DeliveryInv, CallInv
    <3>5. ASSUME NEW k \in Msgs, NEW d \in Clients, Got(d, k)'
          PROVE  Got(d, k) \/ k = cur[s]
      BY <2>1, <2>3, <3>1, <3>5, HandOver
    <3>6. ASSUME NEW t \in Servers, cur[t] = cur[s] PROVE t = s
      BY <2>1, <3>6 DEF OneHandler
    <3>7. HandedInv'
      <4> SUFFICES ASSUME NEW k \in Msgs, NEW d \in Clients, Got(d, k)'
                   PROVE  /\ stage[k] \notin {"unsent", "wire"} /\ call[k].st # "sent"
                          /\ \A t \in Servers : cur[t] = k =>
                                                  pc'[t] \in {"wait", "save1", "save2"}
        BY <2>1, <3>3 DEF HandedInv
      <4>1. CASE Got(d, k)  BY <3>3, <4>1 DEF DeliveryInv, HandedInv
      <4>2. CASE k = cur[s]  BY <2>1, <2>2, <3>3, <3>6, <4>2
      <4> QED  BY <3>5, <4>1, <4>2
    <3> QED  BY <3>2, <3>4, <3>7 DEF DeliveryInv
  <2>4. CASE Refuse(s) /\ UNCHANGED inbox  BY <2>1, <2>4, RefuseDelivery DEF Busy
  <2> QED  BY <1>5, <2>3, <2>4 DEF DeliverLocal
<1>6. ASSUME NEW s \in Servers, CallPeer(s) PROVE DeliveryInv'
  <2>1. cur[s] \in Msgs /\ stage[cur[s]] = "handling" /\ to[cur[s]] \in Users /\ pc[s] = "route"
    BY <1>6 DEF CallPeer, Working, CurInv, Busy
  <2>2. \A d \in Clients : ~Got(d, cur[s])  BY <2>1 DEF DeliveryInv, HandedInv
  <2>3. UNCHANGED <<to, inbox, stage, cur>> /\ pc' = [pc EXCEPT ![s] = "wait"]
    BY <1>6 DEF CallPeer, Continue
  <2>4. \A m \in Msgs : m # cur[s] => call'[m] = call[m]  BY <1>6 DEF CallPeer
  <2>5. \A t \in Servers : /\ cur[t] = cur[s] => t = s
                           /\ pc[t] \in {"wait", "save1", "save2"} =>
                                pc'[t] \in {"wait", "save1", "save2"}
    BY <2>1, <2>3 DEF OneHandler
  <2>6. CallInv'
    <3> SUFFICES ASSUME NEW m \in Msgs, call'[m].st # "none"
                 PROVE  /\ stage[m] \notin {"unsent", "wire"} /\ to[m] \in Users
                        /\ \A t \in Servers : cur[t] = m =>
                                                pc'[t] \in {"wait", "save1", "save2"}
      BY <2>3 DEF CallInv
    <3>1. CASE m = cur[s]
      <4>1. pc'[s] = "wait"  BY <2>3 DEF TypeOK
      <4> QED  BY <2>1, <2>5, <3>1, <4>1
    <3>2. CASE m # cur[s]  BY <2>4, <2>5, <3>2 DEF DeliveryInv, CallInv
    <3> QED  BY <3>1, <3>2
  <2>7. HandedInv'  BY <2>2, <2>3, <2>4, <2>5 DEF DeliveryInv, HandedInv, Got
  <2>8. AtMostOneDelivery'  BY <2>3 DEF DeliveryInv, AtMostOneDelivery, Private
  <2> QED  BY <2>6, <2>7, <2>8 DEF DeliveryInv
<1>7. ASSUME NEW s \in Servers, PeerAnswers(s) PROVE DeliveryInv'
  BY <1>7, RefuseDelivery, ContinueDelivery DEF PeerAnswers, Working, Busy, PCs
<1>8. ASSUME NEW s \in Servers, PeerCallFails(s) PROVE DeliveryInv'
  BY <1>8, RefuseDelivery, ContinueDelivery DEF PeerCallFails, Working, Busy
<1>9. ASSUME NEW s \in Servers, SaveSenderKey(s) PROVE DeliveryInv'
  BY <1>9, RefuseDelivery, ContinueDelivery DEF SaveSenderKey, PCs
<1>10. ASSUME NEW s \in Servers, SaveRecverKey(s) PROVE DeliveryInv'
  BY <1>10
  DEF SaveRecverKey, ZAdd, TypeOK, DeliveryInv, CallInv, HandedInv, AtMostOneDelivery,
        Got, Private
<1>11. ASSUME NEW s \in Servers, Crash(s) PROVE DeliveryInv'
  BY <1>11
  DEF Crash, TypeOK, DeliveryInv, CallInv, HandedInv, AtMostOneDelivery, Got, Private
<1>12. ASSUME NEW s \in Servers, Restart(s) PROVE DeliveryInv'
  BY <1>12 DEF Restart, DeliveryInv, CallInv, HandedInv, AtMostOneDelivery, Got, Private
<1>13. ASSUME NEW s \in Servers, RedisLost(s) PROVE DeliveryInv'
  BY <1>13
  DEF RedisLost, DeliveryInv, CallInv, HandedInv, AtMostOneDelivery, Got, Private
<1>14. ASSUME NEW s \in Servers, NEW m \in Msgs, GetReplyMessage(s, m)
       PROVE  DeliveryInv'
  <2>1. call[m].st = "sent" /\ UNCHANGED <<to, stage, cur, pc>>
    BY <1>14 DEF GetReplyMessage
  <2>2. PICK r \in {"found", "absent"} : call' = [call EXCEPT ![m] = [st |-> r, dst |-> s]]
    BY <1>14 DEF GetReplyMessage
  <2>3. /\ call'[m].st \notin {"none", "sent"}
        /\ \A k \in Msgs : k # m => call'[k] = call[k]
    BY <2>2 DEF TypeOK
  <2>4. CallInv'  BY <2>1, <2>3 DEF DeliveryInv, CallInv
  <2>5. \A d \in Clients : ~Got(d, m)  BY <2>1 DEF DeliveryInv, HandedInv
  <2>6. ASSUME NEW i, FirstNamed(sessions[s], to[m], i), AsyncSend(sessions[s][i], m)
        PROVE  HandedInv' /\ AtMostOneDelivery'
    <3>1. sessions[s][i] \in Clients  BY <2>6, FirstNamedType
    <3>2. AtMostOneDelivery'  BY <2>1, <2>5, <2>6, <3>1, HandOnce DEF DeliveryInv
    <3>3. ASSUME NEW k \in Msgs, NEW d \in Clients, Got(d, k)' PROVE Got(d, k) \/ k = m
      BY <2>6, <3>1, <3>3, HandOver
    <3>4. HandedInv'  BY <2>1, <2>3, <3>3 DEF DeliveryInv, HandedInv, CallInv
    <3> QED  BY <3>2, <3>4
  <2>7. CASE UNCHANGED inbox
    <3>1. HandedInv'  BY <2>1, <2>3, <2>7 DEF DeliveryInv, HandedInv, Got
    <3>2. AtMostOneDelivery'  BY <2>1, <2>7 DEF DeliveryInv, AtMostOneDelivery, Private
    <3> QED  BY <2>4, <3>1, <3>2 DEF DeliveryInv
  <2> QED  BY <1>14, <2>4, <2>6, <2>7 DEF GetReplyMessage, DeliveryInv
<1>15. ASSUME NEW s \in Servers, NEW c \in Clients, AddSession(s, c) PROVE DeliveryInv'
  BY <1>15
  DEF AddSession, IoIdle, DeliveryInv, CallInv, HandedInv, AtMostOneDelivery, Got,
        Private
<1>16. ASSUME NEW s \in Servers, NEW c \in Clients, ReadName(s, c) PROVE DeliveryInv'
  BY <1>16
  DEF ReadName, DeliveryInv, CallInv, HandedInv, AtMostOneDelivery, Got, Private
<1>17. ASSUME NEW s \in Servers, NEW c \in Clients, ReadPrivate(s, c) PROVE DeliveryInv'
  BY <1>17
  DEF ReadPrivate, Readable, IoIdle, NextOnWire, DeliveryInv, CallInv, HandedInv,
        AtMostOneDelivery, Got, Private
<1>18. ASSUME NEW s \in Servers, NEW c \in Clients, ReadPublic(s, c) PROVE DeliveryInv'
  <2>1. PICK m \in Msgs :
          /\ stage[m] = "wire" /\ to[m] = Everyone
          /\ stage' = [stage EXCEPT ![m] = "ok"]
          /\ inbox' = [d \in Clients |-> IF d \in Members(sessions[s]) \ {c}
                                         THEN Append(inbox[d], m) ELSE inbox[d]]
    BY <1>18 DEF ReadPublic, NextOnWire
  <2>2. UNCHANGED <<to, call, cur, pc>>  BY <1>18 DEF ReadPublic
  <2>3. call[m].st = "none" /\ \A t \in Servers : cur[t] # m
    BY <2>1 DEF DeliveryInv, CallInv, CurInv
  <2>4. \A k \in Msgs : stage[k] \notin {"unsent", "wire"} =>
                          stage'[k] \notin {"unsent", "wire"}
    BY <2>1 DEF TypeOK
  <2>5. CallInv'  BY <2>2, <2>4 DEF DeliveryInv, CallInv
  <2>6. ASSUME NEW d \in Clients, NEW i \in 1 .. Len(inbox'[d]), inbox'[d][i] # m
        PROVE  i \in 1 .. Len(inbox[d]) /\ inbox'[d][i] = inbox[d][i]
    <3>1. CASE inbox'[d] = inbox[d]  BY <3>1
    <3>2. CASE inbox'[d] = Append(inbox[d], m)
      <4>1. inbox[d] \in Seq(Msgs) /\ Len(inbox[d]) \in Nat  BY DEF TypeOK
      <4> QED  BY <2>6, <3>2, <4>1
    <3> QED  BY <2>1, <3>1, <3>2
  <2>7. ASSUME NEW k \in Msgs, NEW d \in Clients, Got(d, k)' PROVE Got(d, k) \/ k = m
    BY <2>6, <2>7 DEF Got
  <2>8. stage'[m] = "ok"  BY <2>1 DEF TypeOK
  <2>9. HandedInv'  BY <2>2, <2>3, <2>4, <2>7, <2>8 DEF DeliveryInv, HandedInv
  <2>10. AtMostOneDelivery'
    <3>1. ~Private(m)  BY <2>1, RoutingAssumption DEF Private
    <3>2. SUFFICES ASSUME NEW k \in Msgs, Private(k), NEW d \in Clients, NEW e \in Clients,
                          NEW i \in 1 .. Len(inbox'[d]), NEW j \in 1 .. Len(inbox'[e]),
                          inbox'[d][i] = k, inbox'[e][j] = k
                   PROVE  d = e /\ i = j
      BY <2>2 DEF AtMostOneDelivery, Private
    <3>3. k # m  BY <3>1, <3>2
    <3>4. /\ i \in 1 .. Len(inbox[d]) /\ inbox[d][i] = k
          /\ j \in 1 .. Len(inbox[e]) /\ inbox[e][j] = k
      BY <2>6, <3>2, <3>3
    <3> QED  BY <3>2, <3>4 DEF DeliveryInv, AtMostOneDelivery
  <2> QED  BY <2>5, <2>9, <2>10 DEF DeliveryInv
<1>19. ASSUME NEW s \in Servers, NEW c \in Clients, ReadError(s, c) PROVE DeliveryInv'
  BY <1>19
  DEF ReadError, IoIdle, RemoveClient, DeliveryInv, CallInv, HandedInv,
        AtMostOneDelivery, Got, Private
<1>20. ASSUME NEW s \in Servers, NEW c \in Clients, WriteError(s, c) PROVE DeliveryInv'
  <2>1. /\ UNCHANGED <<to, stage, call, inbox, cur>>
        /\ pc[s] = "idle" /\ pc' = [pc EXCEPT ![s] = "publish"]
    BY <1>20 DEF WriteError, IoIdle, RemoveClient
  <2>2. \A t \in Servers : pc[t] \in {"wait", "save1", "save2"} => pc'[t] = pc[t]
    BY <2>1 DEF TypeOK
  <2>3. CallInv'  BY <2>1, <2>2 DEF DeliveryInv, CallInv
  <2>4. HandedInv'  BY <2>1, <2>2 DEF DeliveryInv, HandedInv, Got
  <2>5. AtMostOneDelivery'  BY <2>1 DEF DeliveryInv, AtMostOneDelivery, Private
  <2> QED  BY <2>3, <2>4, <2>5 DEF DeliveryInv
<1>21. ASSUME NEW c \in Clients, GetChatServer(c) PROVE DeliveryInv'
  BY <1>21
  DEF GetChatServer, DeliveryInv, CallInv, HandedInv, AtMostOneDelivery, Got, Private
<1>22. ASSUME NEW c \in Clients, Leave(c) PROVE DeliveryInv'
  BY <1>22 DEF Leave, DeliveryInv, CallInv, HandedInv, AtMostOneDelivery, Got, Private
<1>23. ASSUME NEW c \in Clients, NEW u \in Users \cup {Everyone}, Send(c, u)
       PROVE  DeliveryInv'
  BY <1>23 DEF Send, DeliveryInv, CallInv, HandedInv, AtMostOneDelivery, Got, Private
<1>24. ASSUME UNCHANGED vars PROVE DeliveryInv'
  BY <1>24 DEF vars, DeliveryInv, CallInv, HandedInv, AtMostOneDelivery, Got, Private
<1>25. ASSUME StatusRestart PROVE DeliveryInv'
  BY <1>25
  DEF StatusRestart, DeliveryInv, CallInv, HandedInv, AtMostOneDelivery, Got, Private
<1>26. ASSUME NEW c \in Clients, ReadCount(c) PROVE DeliveryInv'
  BY <1>26
  DEF ReadCount, DeliveryInv, CallInv, HandedInv, AtMostOneDelivery, Got, Private
<1> QED
  BY <1>1, <1>2, <1>3, <1>4, <1>5, <1>6, <1>7, <1>8, <1>9, <1>10, <1>11, <1>12, <1>13,
     <1>14, <1>15, <1>16, <1>17, <1>18, <1>19, <1>20, <1>21, <1>22, <1>23, <1>24, <1>25,
     <1>26
  DEF Next, ServerStep, SessionStep, ClientStep

\* Nothing has been handed over.
LEMMA InitDelivery == Init => DeliveryInv
  BY DEF Init, DeliveryInv, CallInv, HandedInv, AtMostOneDelivery, Got

\* A message is handed over at most once, and who could still hand it over has not
\* (the local loop of send_private_msg or the peer's GetReplyMessage).
THEOREM DeliveryInvariant == Spec => []DeliveryInv
<1>1. ThreadInv /\ DeliveryInv /\ [Next]_vars => DeliveryInv'  BY DeliveryStep
<1> QED  BY InitDelivery, ThreadInvariant, <1>1, PTL DEF Spec

\* No private message is handed over twice: the io thread that has handed it over,
\* or has asked the peer to, never goes back to an earlier point of the handler,
\* and a request left behind by a broken call is the only one for its message.
THEOREM DeliveredAtMostOnce == Spec => []AtMostOneDelivery
  BY DeliveryInvariant, PTL DEF DeliveryInv

(***************************************************************************)
(* Who is handed what, and what history keeps of it.                       *)
(***************************************************************************)
\* What has been sent stays as it was sent, what has not is at most put on the wire.
SentKept ==
  \A m \in Msgs :
    /\ stage[m] # "unsent" => stage'[m] # "unsent" /\ from'[m] = from[m] /\ to'[m] = to[m]
    /\ stage[m] = "unsent" => stage'[m] \in {"unsent", "wire"}

\* Nothing is taken back, and what is new goes to the addressee.
HandedToAddressee ==
  \A m \in Msgs, c \in Clients :
    /\ Got(c, m) => Got(c, m)'
    /\ Got(c, m)' => Got(c, m) \/ Owner[c] = to[m] \/ to[m] \notin Users

\* A message keeps its sender and its addressee in every step.
LEMMA SentKeptStep ==
  ASSUME ThreadInv, [Next]_vars
  PROVE  SentKept
<1> USE DEF ThreadInv, TypeOK, CurInv, Busy, SentKept, redisVars, ioVars, procVars,
        clientVars, viewVars, msgVars
<1>1. ASSUME NEW s \in Servers, PublishCount(s) PROVE SentKept
  BY <1>1 DEF PublishCount
<1>2. ASSUME NEW s \in Servers, ResolveUid(s) PROVE SentKept
  BY <1>2 DEF ResolveUid, Working, Continue, Refuse
<1>3. ASSUME NEW s \in Servers, LookupFails(s) PROVE SentKept
  BY <1>3 DEF LookupFails, Working, Refuse
<1>4. ASSUME NEW s \in Servers, ResolveServer(s) PROVE SentKept
  BY <1>4 DEF ResolveServer, Working, Continue, Refuse
<1>5. ASSUME NEW s \in Servers, DeliverLocal(s) PROVE SentKept
  BY <1>5 DEF DeliverLocal, Working, Continue, Refuse
<1>6. ASSUME NEW s \in Servers, CallPeer(s) PROVE SentKept
  BY <1>6 DEF CallPeer, Continue
<1>7. ASSUME NEW s \in Servers, PeerAnswers(s) PROVE SentKept
  BY <1>7 DEF PeerAnswers, Working, Continue, Refuse
<1>8. ASSUME NEW s \in Servers, PeerCallFails(s) PROVE SentKept
  BY <1>8 DEF PeerCallFails, Working, Refuse
<1>9. ASSUME NEW s \in Servers, SaveSenderKey(s) PROVE SentKept
  BY <1>9 DEF SaveSenderKey, Continue
<1>10. ASSUME NEW s \in Servers, SaveRecverKey(s) PROVE SentKept
  BY <1>10 DEF SaveRecverKey, Working
<1>11. ASSUME NEW s \in Servers, Crash(s) PROVE SentKept
  <2>1. \A m \in Msgs : m = cur[s] => stage[m] = "handling"  BY ZeroNotMsg
  <2> QED  BY <1>11, <2>1 DEF Crash
<1>12. ASSUME NEW s \in Servers, Restart(s) PROVE SentKept
  BY <1>12 DEF Restart
<1>13. ASSUME NEW s \in Servers, RedisLost(s) PROVE SentKept
  BY <1>13 DEF RedisLost
<1>14. ASSUME NEW s \in Servers, NEW m \in Msgs, GetReplyMessage(s, m) PROVE SentKept
  BY <1>14 DEF GetReplyMessage
<1>15. ASSUME NEW s \in Servers, NEW c \in Clients, AddSession(s, c) PROVE SentKept
  BY <1>15 DEF AddSession
<1>16. ASSUME NEW s \in Servers, NEW c \in Clients, ReadName(s, c) PROVE SentKept
  BY <1>16 DEF ReadName
<1>17. ASSUME NEW s \in Servers, NEW c \in Clients, ReadPrivate(s, c) PROVE SentKept
  BY <1>17 DEF ReadPrivate, NextOnWire
<1>18. ASSUME NEW s \in Servers, NEW c \in Clients, ReadPublic(s, c) PROVE SentKept
  BY <1>18 DEF ReadPublic, NextOnWire
<1>19. ASSUME NEW s \in Servers, NEW c \in Clients, ReadError(s, c) PROVE SentKept
  BY <1>19 DEF ReadError
<1>20. ASSUME NEW s \in Servers, NEW c \in Clients, WriteError(s, c) PROVE SentKept
  BY <1>20 DEF WriteError
<1>21. ASSUME NEW c \in Clients, GetChatServer(c) PROVE SentKept
  BY <1>21 DEF GetChatServer
<1>22. ASSUME NEW c \in Clients, Leave(c) PROVE SentKept
  BY <1>22 DEF Leave
<1>23. ASSUME NEW c \in Clients, NEW u \in Users \cup {Everyone}, Send(c, u)
       PROVE  SentKept
  BY <1>23 DEF Send
<1>24. ASSUME UNCHANGED vars PROVE SentKept
  BY <1>24 DEF vars
<1>25. ASSUME StatusRestart PROVE SentKept
  BY <1>25 DEF StatusRestart
<1>26. ASSUME NEW c \in Clients, ReadCount(c) PROVE SentKept
  BY <1>26 DEF ReadCount
<1> QED
  BY <1>1, <1>2, <1>3, <1>4, <1>5, <1>6, <1>7, <1>8, <1>9, <1>10, <1>11, <1>12, <1>13,
     <1>14, <1>15, <1>16, <1>17, <1>18, <1>19, <1>20, <1>21, <1>22, <1>23, <1>24, <1>25,
     <1>26
  DEF Next, ServerStep, SessionStep, ClientStep

\* A session's name is the account its client logged in with.
LEMMA NameStep ==
  ASSUME TypeOK, NameInv, [Next]_vars
  PROVE  NameInv'
<1> USE RoutingAssumption DEF TypeOK, NameInv, redisVars, ioVars, procVars, clientVars,
        viewVars, msgVars
<1>1. ASSUME NEW s \in Servers, PublishCount(s) PROVE NameInv'
  BY <1>1 DEF PublishCount
<1>2. ASSUME NEW s \in Servers, ResolveUid(s) PROVE NameInv'
  BY <1>2 DEF ResolveUid
<1>3. ASSUME NEW s \in Servers, LookupFails(s) PROVE NameInv'
  BY <1>3 DEF LookupFails
<1>4. ASSUME NEW s \in Servers, ResolveServer(s) PROVE NameInv'
  BY <1>4 DEF ResolveServer
<1>5. ASSUME NEW s \in Servers, DeliverLocal(s) PROVE NameInv'
  BY <1>5 DEF DeliverLocal
<1>6. ASSUME NEW s \in Servers, CallPeer(s) PROVE NameInv'
  BY <1>6 DEF CallPeer
<1>7. ASSUME NEW s \in Servers, PeerAnswers(s) PROVE NameInv'
  BY <1>7 DEF PeerAnswers
<1>8. ASSUME NEW s \in Servers, PeerCallFails(s) PROVE NameInv'
  BY <1>8 DEF PeerCallFails
<1>9. ASSUME NEW s \in Servers, SaveSenderKey(s) PROVE NameInv'
  BY <1>9 DEF SaveSenderKey
<1>10. ASSUME NEW s \in Servers, SaveRecverKey(s) PROVE NameInv'
  BY <1>10 DEF SaveRecverKey
<1>11. ASSUME NEW s \in Servers, Crash(s) PROVE NameInv'
  BY <1>11 DEF Crash
<1>12. ASSUME NEW s \in Servers, Restart(s) PROVE NameInv'
  BY <1>12 DEF Restart
<1>13. ASSUME NEW s \in Servers, RedisLost(s) PROVE NameInv'
  BY <1>13 DEF RedisLost
<1>14. ASSUME NEW s \in Servers, NEW m \in Msgs, GetReplyMessage(s, m) PROVE NameInv'
  BY <1>14 DEF GetReplyMessage
<1>15. ASSUME NEW s \in Servers, NEW c \in Clients, AddSession(s, c) PROVE NameInv'
  BY <1>15 DEF AddSession
<1>16. ASSUME NEW s \in Servers, NEW c \in Clients, ReadName(s, c) PROVE NameInv'
  BY <1>16 DEF ReadName
<1>17. ASSUME NEW s \in Servers, NEW c \in Clients, ReadPrivate(s, c) PROVE NameInv'
  BY <1>17 DEF ReadPrivate
<1>18. ASSUME NEW s \in Servers, NEW c \in Clients, ReadPublic(s, c) PROVE NameInv'
  BY <1>18 DEF ReadPublic
<1>19. ASSUME NEW s \in Servers, NEW c \in Clients, ReadError(s, c) PROVE NameInv'
  BY <1>19 DEF ReadError
<1>20. ASSUME NEW s \in Servers, NEW c \in Clients, WriteError(s, c) PROVE NameInv'
  BY <1>20 DEF WriteError
<1>21. ASSUME NEW c \in Clients, GetChatServer(c) PROVE NameInv'
  BY <1>21 DEF GetChatServer
<1>22. ASSUME NEW c \in Clients, Leave(c) PROVE NameInv'
  BY <1>22 DEF Leave
<1>23. ASSUME NEW c \in Clients, NEW u \in Users \cup {Everyone}, Send(c, u)
       PROVE  NameInv'
  BY <1>23 DEF Send
<1>24. ASSUME UNCHANGED vars PROVE NameInv'
  BY <1>24 DEF vars
<1>25. ASSUME StatusRestart PROVE NameInv'
  BY <1>25 DEF StatusRestart
<1>26. ASSUME NEW c \in Clients, ReadCount(c) PROVE NameInv'
  BY <1>26 DEF ReadCount
<1> QED
  BY <1>1, <1>2, <1>3, <1>4, <1>5, <1>6, <1>7, <1>8, <1>9, <1>10, <1>11, <1>12, <1>13,
     <1>14, <1>15, <1>16, <1>17, <1>18, <1>19, <1>20, <1>21, <1>22, <1>23, <1>24, <1>25,
     <1>26
  DEF Next, ServerStep, SessionStep, ClientStep

\* The session found by name is one of the addressee's.
LEMMA FirstNamedOwner ==
  ASSUME TypeOK, NameInv, NEW s \in Servers, NEW i, NEW u \in Users,
         FirstNamed(sessions[s], u, i)
  PROVE  sessions[s][i] \in Clients /\ Owner[sessions[s][i]] = u
<1>1. sessions[s][i] \in Clients /\ name[sessions[s][i]] = u  BY FirstNamedType
<1>2. u # None  BY RoutingAssumption
<1> QED  BY <1>1, <1>2 DEF NameInv

\* What a step hands over privately goes to the addressee.
LEMMA HandedStep ==
  ASSUME ThreadInv, DeliveryInv, NameInv, [Next]_vars
  PROVE  HandedToAddressee
<1> USE DEF ThreadInv, HandedToAddressee, redisVars, ioVars, procVars, clientVars,
        viewVars, msgVars
<1>1. ASSUME NEW s \in Servers, PublishCount(s) PROVE HandedToAddressee
  BY <1>1 DEF PublishCount, Got
<1>2. ASSUME NEW s \in Servers, ResolveUid(s) PROVE HandedToAddressee
  BY <1>2 DEF ResolveUid, Got
<1>3. ASSUME NEW s \in Servers, LookupFails(s) PROVE HandedToAddressee
  BY <1>3 DEF LookupFails, Got
<1>4. ASSUME NEW s \in Servers, ResolveServer(s) PROVE HandedToAddressee
  BY <1>4 DEF ResolveServer, Got
<1>5. ASSUME NEW s \in Servers, DeliverLocal(s) PROVE HandedToAddressee
  <2>1. cur[s] \in Msgs /\ to[cur[s]] \in Users
    BY <1>5 DEF DeliverLocal, Working, CurInv, Busy
  <2>2. CASE UNCHANGED inbox  BY <2>2 DEF Got
  <2>3. ASSUME NEW i, FirstNamed(sessions[s], to[cur[s]], i), AsyncSend(sessions[s][i], cur[s])
        PROVE  HandedToAddressee
    <3>1. sessions[s][i] \in Clients /\ Owner[sessions[s][i]] = to[cur[s]]
      BY <2>1, <2>3, FirstNamedOwner
    <3> QED  BY <2>1, <2>3, <3>1, HandOver
  <2> QED  BY <1>5, <2>2, <2>3 DEF DeliverLocal
<1>6. ASSUME NEW s \in Servers, CallPeer(s) PROVE HandedToAddressee
  BY <1>6 DEF CallPeer, Got
<1>7. ASSUME NEW s \in Servers, PeerAnswers(s) PROVE HandedToAddressee
  BY <1>7 DEF PeerAnswers, Got
<1>8. ASSUME NEW s \in Servers, PeerCallFails(s) PROVE HandedToAddressee
  BY <1>8 DEF PeerCallFails, Got
<1>9. ASSUME NEW s \in Servers, SaveSenderKey(s) PROVE HandedToAddressee
  BY <1>9 DEF SaveSenderKey, Got
<1>10. ASSUME NEW s \in Servers, SaveRecverKey(s) PROVE HandedToAddressee
  BY <1>10 DEF SaveRecverKey, Got
<1>11. ASSUME NEW s \in Servers, Crash(s) PROVE HandedToAddressee
  BY <1>11 DEF Crash, Got
<1>12. ASSUME NEW s \in Servers, Restart(s) PROVE HandedToAddressee
  BY <1>12 DEF Restart, Got
<1>13. ASSUME NEW s \in Servers, RedisLost(s) PROVE HandedToAddressee
  BY <1>13 DEF RedisLost, Got
<1>14. ASSUME NEW s \in Servers, NEW m \in Msgs, GetReplyMessage(s, m)
       PROVE  HandedToAddressee
  <2>1. to[m] \in Users  BY <1>14 DEF GetReplyMessage, CallInv, DeliveryInv
  <2>2. CASE UNCHANGED inbox  BY <2>2 DEF Got
  <2>3. ASSUME NEW i, FirstNamed(sessions[s], to[m], i), AsyncSend(sessions[s][i], m)
        PROVE  HandedToAddressee
    <3>1. sessions[s][i] \in Clients /\ Owner[sessions[s][i]] = to[m]
      BY <2>1, <2>3, FirstNamedOwner
    <3> QED  BY <2>3, <3>1, HandOver
  <2> QED  BY <1>14, <2>2, <2>3 DEF GetReplyMessage
<1>15. ASSUME NEW s \in Servers, NEW c \in Clients, AddSession(s, c)
       PROVE  HandedToAddressee
  BY <1>15 DEF AddSession, Got
<1>16. ASSUME NEW s \in Servers, NEW c \in Clients, ReadName(s, c)
       PROVE  HandedToAddressee
  BY <1>16 DEF ReadName, Got
<1>17. ASSUME NEW s \in Servers, NEW c \in Clients, ReadPrivate(s, c)
       PROVE  HandedToAddressee
  BY <1>17 DEF ReadPrivate, Got
<1>18. ASSUME NEW s \in Servers, NEW c \in Clients, ReadPublic(s, c)
       PROVE  HandedToAddressee
  <2>1. PICK m \in Msgs :
          /\ to[m] = Everyone
          /\ inbox' = [d \in Clients |-> IF d \in Members(sessions[s]) \ {c}
                                         THEN Append(inbox[d], m) ELSE inbox[d]]
    BY <1>18 DEF ReadPublic
  <2>2. ASSUME NEW k \in Msgs, NEW d \in Clients
        PROVE  (Got(d, k) => Got(d, k)') /\ (Got(d, k)' => Got(d, k) \/ k = m)
    <3>1. inbox[d] \in Seq(Msgs) /\ Len(inbox[d]) \in Nat  BY DEF TypeOK
    <3>2. CASE inbox'[d] = inbox[d]  BY <3>2 DEF Got
    <3>3. CASE inbox'[d] = Append(inbox[d], m)
      <4>1. /\ Len(inbox'[d]) = Len(inbox[d]) + 1 /\ inbox'[d][Len(inbox[d]) + 1] = m
            /\ \A i \in 1 .. Len(inbox[d]) : inbox'[d][i] = inbox[d][i]
        BY <3>1, <3>3
      <4> QED  BY <3>1, <4>1 DEF Got
    <3> QED  BY <2>1, <3>2, <3>3
  <2> QED  BY <2>1, <2>2, RoutingAssumption
<1>19. ASSUME NEW s \in Servers, NEW c \in Clients, ReadError(s, c)
       PROVE  HandedToAddressee
  BY <1>19 DEF ReadError, Got
<1>20. ASSUME NEW s \in Servers, NEW c \in Clients, WriteError(s, c)
       PROVE  HandedToAddressee
  BY <1>20 DEF WriteError, Got
<1>21. ASSUME NEW c \in Clients, GetChatServer(c) PROVE HandedToAddressee
  BY <1>21 DEF GetChatServer, Got
<1>22. ASSUME NEW c \in Clients, Leave(c) PROVE HandedToAddressee
  BY <1>22 DEF Leave, Got
<1>23. ASSUME NEW c \in Clients, NEW u \in Users \cup {Everyone}, Send(c, u)
       PROVE  HandedToAddressee
  BY <1>23 DEF Send, Got
<1>24. ASSUME UNCHANGED vars PROVE HandedToAddressee
  BY <1>24 DEF vars, Got
<1>25. ASSUME StatusRestart PROVE HandedToAddressee
  BY <1>25 DEF StatusRestart, Got
<1>26. ASSUME NEW c \in Clients, ReadCount(c) PROVE HandedToAddressee
  BY <1>26 DEF ReadCount, Got
<1> QED
  BY <1>1, <1>2, <1>3, <1>4, <1>5, <1>6, <1>7, <1>8, <1>9, <1>10, <1>11, <1>12, <1>13,
     <1>14, <1>15, <1>16, <1>17, <1>18, <1>19, <1>20, <1>21, <1>22, <1>23, <1>24, <1>25,
     <1>26
  DEF Next, ServerStep, SessionStep, ClientStep

\* The addressee's sessions only: from what a step can hand over.
LEMMA RightStep ==
  ASSUME ThreadInv, DeliveryInv, NameInv, RightReceiver, [Next]_vars
  PROVE  RightReceiver'
<1>1. SentKept /\ HandedToAddressee /\ DeliveryInv'
  BY SentKeptStep, HandedStep, DeliveryStep
<1> SUFFICES ASSUME NEW m \in Msgs, NEW c \in Clients, Private(m)', Got(c, m)'
             PROVE  Owner[c] = to'[m]
  BY DEF RightReceiver
<1>2. stage'[m] \notin {"unsent", "wire"}  BY <1>1 DEF DeliveryInv, HandedInv
<1>3. stage[m] # "unsent"  BY <1>1, <1>2 DEF SentKept
<1> QED  BY <1>1, <1>3 DEF SentKept, HandedToAddressee, RightReceiver, Private

\* Nothing has been handed over and no session has a name.
LEMMA InitRight == Init => NameInv /\ RightReceiver
  BY DEF Init, NameInv, RightReceiver, Got

\* Nobody but the addressee is handed a private message, over either path.
THEOREM ReceiverCorrect == Spec => []RightReceiver
<1>1. ThreadInv /\ NameInv /\ [Next]_vars => NameInv'  BY NameStep DEF ThreadInv
<1>2. ThreadInv /\ DeliveryInv /\ NameInv /\ RightReceiver /\ [Next]_vars => RightReceiver'
  BY RightStep
<1> QED  BY InitRight, ThreadInvariant, DeliveryInvariant, <1>1, <1>2, PTL DEF Spec

(***************************************************************************)
(* History: what makes a thread save a message, and what it saves.         *)
(***************************************************************************)
SavesOnEvidence ==
  /\ \A m \in Msgs : call'[m].st = "found" => call[m].st = "found" \/ Handed(m)'
  /\ \A s \in Servers : pc'[s] \in {"save1", "save2"} =>
       /\ cur'[s] = cur[s]
       /\ pc[s] \in {"save1", "save2"} \/ call[cur[s]].st = "found" \/ Handed(cur[s])'
  /\ \A p \in Users \X Users : \A m \in history'[p] : m \in history[p] \/
       \E s \in Servers :
         /\ pc[s] \in {"save1", "save2"} /\ m = cur[s]
         /\ p \in {<<Owner[from[m]], to[m]>>, <<to[m], Owner[from[m]]>>}

\* A thread saves a message only if it, or the peer, has handed it over.
LEMMA EvidenceStep ==
  ASSUME ThreadInv, DeliveryInv, NameInv, [Next]_vars
  PROVE  SavesOnEvidence
<1> USE DEF TypeOK, SavesOnEvidence, redisVars, ioVars, procVars, clientVars, viewVars,
        msgVars
<1>1. ASSUME NEW s \in Servers, PublishCount(s) PROVE SavesOnEvidence
  BY <1>1 DEF PublishCount
<1>2. ASSUME NEW s \in Servers, ResolveUid(s) PROVE SavesOnEvidence
  BY <1>2 DEF ResolveUid, Continue, Refuse, ThreadInv
<1>3. ASSUME NEW s \in Servers, LookupFails(s) PROVE SavesOnEvidence
  BY <1>3 DEF LookupFails, Working, Refuse
<1>4. ASSUME NEW s \in Servers, ResolveServer(s) PROVE SavesOnEvidence
  BY <1>4 DEF ResolveServer, Continue, Refuse, ThreadInv
<1>5. ASSUME NEW s \in Servers, DeliverLocal(s) PROVE SavesOnEvidence
  <2>1. /\ to[cur[s]] \in Users /\ UNCHANGED <<call, history, to>>
        /\ pc[s] = "route"
    BY <1>5 DEF DeliverLocal, Working, ThreadInv, CurInv, Busy
  <2>2. PICK m \in Msgs : m = cur[s]
    BY <1>5 DEF DeliverLocal, Working, ThreadInv, CurInv, Busy
  <2>3. CASE Refuse(s)  BY <2>1, <2>3 DEF Refuse
  <2>4. ASSUME NEW i, FirstNamed(sessions[s], to[m], i),
               AsyncSend(sessions[s][i], m), Continue(s, "save1")
        PROVE  SavesOnEvidence
    <3>1. PICK d \in Clients : d = sessions[s][i] /\ Owner[d] = to[m]
      BY <2>1, <2>2, <2>4, FirstNamedOwner DEF ThreadInv
    <3>2. Got(d, m)'  BY <2>4, <3>1, HandOver DEF ThreadInv
    <3>3. Handed(m)' /\ cur'[s] = m
      BY <2>1, <2>2, <2>4, <3>1, <3>2 DEF Handed, Continue
    <3>4. Handed(cur[s])'  BY <3>3
    <3> QED  BY <2>1, <2>4, <3>4 DEF Continue
  <2> QED  BY <1>5, <2>2, <2>3, <2>4 DEF DeliverLocal
<1>6. ASSUME NEW s \in Servers, CallPeer(s) PROVE SavesOnEvidence
  BY <1>6 DEF CallPeer, Continue
<1>7. ASSUME NEW s \in Servers, PeerAnswers(s) PROVE SavesOnEvidence
  BY <1>7 DEF PeerAnswers, Continue, Refuse, ThreadInv
<1>8. ASSUME NEW s \in Servers, PeerCallFails(s) PROVE SavesOnEvidence
  BY <1>8 DEF PeerCallFails, Working, Refuse
<1>9. ASSUME NEW s \in Servers, SaveSenderKey(s) PROVE SavesOnEvidence
  BY <1>9 DEF SaveSenderKey, Working, Continue, ZAdd
<1>10. ASSUME NEW s \in Servers, SaveRecverKey(s) PROVE SavesOnEvidence
  BY <1>10 DEF SaveRecverKey, Working, ZAdd, ThreadInv
<1>11. ASSUME NEW s \in Servers, Crash(s) PROVE SavesOnEvidence
  BY <1>11 DEF Crash, ThreadInv
<1>12. ASSUME NEW s \in Servers, Restart(s) PROVE SavesOnEvidence
  BY <1>12 DEF Restart
<1>13. ASSUME NEW s \in Servers, RedisLost(s) PROVE SavesOnEvidence
  BY <1>13 DEF RedisLost
<1>14. ASSUME NEW s \in Servers, NEW m \in Msgs, GetReplyMessage(s, m)
       PROVE  SavesOnEvidence
  <2>1. to[m] \in Users /\ UNCHANGED <<to, pc, cur, history>>
    BY <1>14 DEF GetReplyMessage, CallInv, DeliveryInv
  <2>2. CASE call' = [call EXCEPT ![m] = [st |-> "absent", dst |-> s]]
    BY <2>1, <2>2
  <2>3. ASSUME NEW i, FirstNamed(sessions[s], to[m], i), AsyncSend(sessions[s][i], m),
               call' = [call EXCEPT ![m] = [st |-> "found", dst |-> s]]
        PROVE  SavesOnEvidence
    <3>1. PICK d \in Clients : d = sessions[s][i] /\ Owner[d] = to[m]
      BY <2>1, <2>3, FirstNamedOwner DEF ThreadInv
    <3>2. Got(d, m)'  BY <2>3, <3>1, HandOver DEF ThreadInv
    <3>3. Handed(m)'  BY <2>1, <3>1, <3>2 DEF Handed
    <3> QED  BY <2>1, <2>3, <3>3
  <2> QED  BY <1>14, <2>2, <2>3 DEF GetReplyMessage
<1>15. ASSUME NEW s \in Servers, NEW c \in Clients, AddSession(s, c)
       PROVE  SavesOnEvidence
  BY <1>15 DEF AddSession
<1>16. ASSUME NEW s \in Servers, NEW c \in Clients, ReadName(s, c) PROVE SavesOnEvidence
  BY <1>16 DEF ReadName
<1>17. ASSUME NEW s \in Servers, NEW c \in Clients, ReadPrivate(s, c)
       PROVE  SavesOnEvidence
  BY <1>17 DEF ReadPrivate, Readable, IoIdle
<1>18. ASSUME NEW s \in Servers, NEW c \in Clients, ReadPublic(s, c)
       PROVE  SavesOnEvidence
  BY <1>18 DEF ReadPublic
<1>19. ASSUME NEW s \in Servers, NEW c \in Clients, ReadError(s, c)
       PROVE  SavesOnEvidence
  BY <1>19 DEF ReadError, RemoveClient
<1>20. ASSUME NEW s \in Servers, NEW c \in Clients, WriteError(s, c)
       PROVE  SavesOnEvidence
  BY <1>20 DEF WriteError, RemoveClient
<1>21. ASSUME NEW c \in Clients, GetChatServer(c) PROVE SavesOnEvidence
  BY <1>21 DEF GetChatServer
<1>22. ASSUME NEW c \in Clients, Leave(c) PROVE SavesOnEvidence
  BY <1>22 DEF Leave
<1>23. ASSUME NEW c \in Clients, NEW u \in Users \cup {Everyone}, Send(c, u)
       PROVE  SavesOnEvidence
  BY <1>23 DEF Send
<1>24. ASSUME UNCHANGED vars PROVE SavesOnEvidence
  BY <1>24 DEF vars
<1>25. ASSUME StatusRestart PROVE SavesOnEvidence
  BY <1>25 DEF StatusRestart
<1>26. ASSUME NEW c \in Clients, ReadCount(c) PROVE SavesOnEvidence
  BY <1>26 DEF ReadCount
<1> QED
  BY <1>1, <1>2, <1>3, <1>4, <1>5, <1>6, <1>7, <1>8, <1>9, <1>10, <1>11, <1>12, <1>13,
     <1>14, <1>15, <1>16, <1>17, <1>18, <1>19, <1>20, <1>21, <1>22, <1>23, <1>24, <1>25,
     <1>26
  DEF Next, ServerStep, SessionStep, ClientStep

\* What has been handed over stays so.
LEMMA HandedKept ==
  ASSUME SentKept, HandedToAddressee, NEW m \in Msgs, stage[m] # "unsent", Handed(m)
  PROVE  Handed(m)'
  BY DEF SentKept, HandedToAddressee, Handed

\* History: from what a step can save.
LEMMA HistoryStep ==
  ASSUME ThreadInv, DeliveryInv, NameInv, SaveInv, HistoryWasDelivered, [Next]_vars
  PROVE  SaveInv' /\ HistoryWasDelivered'
<1>1. SentKept /\ HandedToAddressee /\ SavesOnEvidence
  BY SentKeptStep, HandedStep, EvidenceStep
<1>2. ASSUME NEW m \in Msgs, call[m].st = "found" PROVE Handed(m)'
  <2>1. stage[m] # "unsent" /\ Handed(m)  BY <1>2 DEF DeliveryInv, CallInv, SaveInv
  <2> QED  BY <1>1, <2>1, HandedKept
<1>3. ASSUME NEW s \in Servers, pc[s] \in {"save1", "save2"}, NEW m, m = cur[s]
      PROVE  m \in Msgs /\ stage[m] # "unsent" /\ Handed(m)'
  <2>1. m \in Msgs /\ stage[m] # "unsent" /\ Handed(m)
    BY <1>3 DEF ThreadInv, CurInv, Busy, SaveInv
  <2> QED  BY <1>1, <2>1, HandedKept
<1>4. ASSUME NEW p \in Users \X Users, NEW m \in history[p]
      PROVE  m \in Msgs /\ stage[m] # "unsent" /\ Handed(m)'
  <2>1. m \in Msgs /\ stage[m] # "unsent"  BY DEF ThreadInv, TypeOK, SaveInv
  <2>2. Handed(m)  BY DEF HistoryWasDelivered, Handed
  <2> QED  BY <1>1, <2>1, <2>2, HandedKept
<1>5. \A m \in Msgs : call'[m].st = "found" => Handed(m)'
  BY <1>1, <1>2 DEF SavesOnEvidence
<1>6. ASSUME NEW s \in Servers, pc'[s] \in {"save1", "save2"} PROVE Handed(cur[s])'
  <2>1. CurInv'  BY CurStep DEF ThreadInv
  <2>2. PICK m \in Msgs : m = cur[s] /\ m = cur'[s]
    BY <1>1, <1>6, <2>1 DEF CurInv, Busy, SavesOnEvidence
  <2>3. CASE pc[s] \in {"save1", "save2"}
    <3>1. Handed(m)'  BY <1>3, <2>2, <2>3
    <3> QED  BY <2>2, <3>1
  <2>4. CASE call[cur[s]].st = "found"
    <3>1. Handed(m)'  BY <1>2, <2>2, <2>4
    <3> QED  BY <2>2, <3>1
  <2> QED  BY <1>1, <1>6, <2>3, <2>4 DEF SavesOnEvidence
<1>7. ASSUME NEW p \in Users \X Users, NEW m \in history'[p]
      PROVE  /\ stage'[m] # "unsent" /\ {p[1], p[2]} = {Owner[from'[m]], to'[m]}
             /\ Handed(m)'
  <2>1. CASE m \in history[p]
    BY <1>1, <1>4, <2>1 DEF HistoryWasDelivered, SentKept
  <2>2. ASSUME NEW s \in Servers, pc[s] \in {"save1", "save2"}, m = cur[s],
               p \in {<<Owner[from[m]], to[m]>>, <<to[m], Owner[from[m]]>>}
        PROVE  /\ stage'[m] # "unsent" /\ {p[1], p[2]} = {Owner[from'[m]], to'[m]}
               /\ Handed(m)'
    <3>1. from'[m] = from[m] /\ to'[m] = to[m] /\ stage'[m] # "unsent"
      BY <1>1, <1>3, <2>2 DEF SentKept
    <3> QED  BY <1>3, <2>2, <3>1
  <2> QED  BY <1>1, <2>1, <2>2 DEF SavesOnEvidence
<1>8. SaveInv'  BY <1>1, <1>5, <1>6, <1>7 DEF SaveInv
<1>9. HistoryWasDelivered'  BY <1>7 DEF HistoryWasDelivered, Handed
<1> QED  BY <1>8, <1>9

SenderKeyFirst ==
  /\ \A p \in Users \X Users : history[p] \subseteq history'[p]
  /\ \A s \in Servers : pc'[s] = "save2" /\ redis'[s] =>
       /\ cur'[s] = cur[s]
       /\ \/ pc[s] = "save2" /\ redis[s]
          \/ cur[s] \in history'[<<Owner[from[cur[s]]], to[cur[s]]>>]
  /\ \A p \in Users \X Users : \A m \in history'[p] :
       \/ m \in history[p]
       \/ m \in history'[<<Owner[from[m]], to[m]>>]
       \/ \E s \in Servers : pc[s] = "save2" /\ redis[s] /\ m = cur[s]

\* The second ZADD of save_history_msg comes after the first, on the same context.
LEMMA SenderKeyFirstStep ==
  ASSUME ThreadInv, [Next]_vars
  PROVE  SenderKeyFirst
<1> USE DEF TypeOK, ThreadInv, SenderKeyFirst, redisVars, ioVars, procVars, clientVars,
        viewVars, msgVars
<1>1. ASSUME NEW s \in Servers, PublishCount(s) PROVE SenderKeyFirst
  BY <1>1 DEF PublishCount
<1>2. ASSUME NEW s \in Servers, ResolveUid(s) PROVE SenderKeyFirst
  BY <1>2 DEF ResolveUid, Continue, Refuse
<1>3. ASSUME NEW s \in Servers, LookupFails(s) PROVE SenderKeyFirst
  BY <1>3 DEF LookupFails, Refuse
<1>4. ASSUME NEW s \in Servers, ResolveServer(s) PROVE SenderKeyFirst
  BY <1>4 DEF ResolveServer, Continue, Refuse
<1>5. ASSUME NEW s \in Servers, DeliverLocal(s) PROVE SenderKeyFirst
  BY <1>5 DEF DeliverLocal, Continue, Refuse
<1>6. ASSUME NEW s \in Servers, CallPeer(s) PROVE SenderKeyFirst
  BY <1>6 DEF CallPeer, Continue
<1>7. ASSUME NEW s \in Servers, PeerAnswers(s) PROVE SenderKeyFirst
  BY <1>7 DEF PeerAnswers, Continue, Refuse
<1>8. ASSUME NEW s \in Servers, PeerCallFails(s) PROVE SenderKeyFirst
  BY <1>8 DEF PeerCallFails, Refuse
<1>9. ASSUME NEW s \in Servers, SaveSenderKey(s) PROVE SenderKeyFirst
  <2> DEFINE p == <<Owner[from[cur[s]]], to[cur[s]]>>
  <2>1. cur[s] \in Msgs /\ p \in Users \X Users
    BY <1>9, RoutingAssumption DEF SaveSenderKey, Working, CurInv, SentInv, Busy
  <2>2. UNCHANGED <<cur, redis>> /\ pc' = [pc EXCEPT ![s] = "save2"]
    BY <1>9 DEF SaveSenderKey, Continue
  <2>3. CASE redis[s]
    <3>1. history' = [history EXCEPT ![p] = @ \cup {cur[s]}]
      BY <1>9, <2>3 DEF SaveSenderKey, ZAdd
    <3> HIDE DEF p
    <3>2. /\ \A q \in Users \X Users : q # p => history'[q] = history[q]
          /\ history'[p] = history[p] \cup {cur[s]}
      BY <2>1, <3>1
    <3> QED  BY <2>1, <2>2, <3>2 DEF p
  <2>4. CASE ~redis[s]
    <3>1. UNCHANGED history  BY <1>9, <2>4 DEF SaveSenderKey, ZAdd
    <3> QED  BY <2>2, <2>4, <3>1
  <2> QED  BY <2>3, <2>4
<1>10. ASSUME NEW s \in Servers, SaveRecverKey(s) PROVE SenderKeyFirst
  <2> DEFINE p == <<to[cur[s]], Owner[from[cur[s]]]>>
  <2>1. pc[s] = "save2" /\ cur[s] \in Msgs /\ p \in Users \X Users
    BY <1>10, RoutingAssumption DEF SaveRecverKey, Working, CurInv, SentInv, Busy
  <2>2. UNCHANGED redis /\ pc' = [pc EXCEPT ![s] = "idle"] /\ cur' = [cur EXCEPT ![s] = 0]
    BY <1>10 DEF SaveRecverKey
  <2>3. \A t \in Servers : pc'[t] = "save2" => pc[t] = "save2" /\ cur'[t] = cur[t]
    BY <2>2
  <2>4. CASE redis[s]
    <3>1. history' = [history EXCEPT ![p] = @ \cup {cur[s]}]
      BY <1>10, <2>4 DEF SaveRecverKey, ZAdd
    <3> HIDE DEF p
    <3>2. /\ \A q \in Users \X Users : q # p => history'[q] = history[q]
          /\ history'[p] = history[p] \cup {cur[s]}
      BY <2>1, <3>1
    <3>3. \A q \in Users \X Users : history[q] \subseteq history'[q]
      BY <3>2
    <3>4. \A q \in Users \X Users : \A m \in history'[q] : m \in history[q] \/ m = cur[s]
      BY <3>2
    <3>5. pc[s] = "save2" /\ redis[s]
      BY <2>1, <2>4
    <3>6. \A t \in Servers : pc'[t] = "save2" /\ redis'[t] =>
            cur'[t] = cur[t] /\ pc[t] = "save2" /\ redis[t]
      BY <2>2, <2>3
    <3> QED  BY <3>3, <3>4, <3>5, <3>6
  <2>5. CASE ~redis[s]
    <3>1. UNCHANGED history  BY <1>10, <2>5 DEF SaveRecverKey, ZAdd
    <3> QED  BY <2>2, <2>3, <3>1
  <2> QED  BY <2>4, <2>5
<1>11. ASSUME NEW s \in Servers, Crash(s) PROVE SenderKeyFirst
  BY <1>11 DEF Crash
<1>12. ASSUME NEW s \in Servers, Restart(s) PROVE SenderKeyFirst
  BY <1>12 DEF Restart, DownInv
<1>13. ASSUME NEW s \in Servers, RedisLost(s) PROVE SenderKeyFirst
  BY <1>13 DEF RedisLost
<1>14. ASSUME NEW s \in Servers, NEW m \in Msgs, GetReplyMessage(s, m)
       PROVE  SenderKeyFirst
  BY <1>14 DEF GetReplyMessage
<1>15. ASSUME NEW s \in Servers, NEW c \in Clients, AddSession(s, c)
       PROVE  SenderKeyFirst
  BY <1>15 DEF AddSession
<1>16. ASSUME NEW s \in Servers, NEW c \in Clients, ReadName(s, c) PROVE SenderKeyFirst
  BY <1>16 DEF ReadName
<1>17. ASSUME NEW s \in Servers, NEW c \in Clients, ReadPrivate(s, c)
       PROVE  SenderKeyFirst
  BY <1>17 DEF ReadPrivate
<1>18. ASSUME NEW s \in Servers, NEW c \in Clients, ReadPublic(s, c)
       PROVE  SenderKeyFirst
  BY <1>18 DEF ReadPublic
<1>19. ASSUME NEW s \in Servers, NEW c \in Clients, ReadError(s, c) PROVE SenderKeyFirst
  BY <1>19 DEF ReadError, RemoveClient
<1>20. ASSUME NEW s \in Servers, NEW c \in Clients, WriteError(s, c)
       PROVE  SenderKeyFirst
  BY <1>20 DEF WriteError, RemoveClient
<1>21. ASSUME NEW c \in Clients, GetChatServer(c) PROVE SenderKeyFirst
  BY <1>21 DEF GetChatServer
<1>22. ASSUME NEW c \in Clients, Leave(c) PROVE SenderKeyFirst
  BY <1>22 DEF Leave
<1>23. ASSUME NEW c \in Clients, NEW u \in Users \cup {Everyone}, Send(c, u)
       PROVE  SenderKeyFirst
  BY <1>23 DEF Send
<1>24. ASSUME UNCHANGED vars PROVE SenderKeyFirst
  BY <1>24 DEF vars
<1>25. ASSUME StatusRestart PROVE SenderKeyFirst
  BY <1>25 DEF StatusRestart
<1>26. ASSUME NEW c \in Clients, ReadCount(c) PROVE SenderKeyFirst
  BY <1>26 DEF ReadCount
<1> QED
  BY <1>1, <1>2, <1>3, <1>4, <1>5, <1>6, <1>7, <1>8, <1>9, <1>10, <1>11, <1>12, <1>13,
     <1>14, <1>15, <1>16, <1>17, <1>18, <1>19, <1>20, <1>21, <1>22, <1>23, <1>24, <1>25,
     <1>26
  DEF Next, ServerStep, SessionStep, ClientStep

\* The sender's key is never behind: from the order of the two ZADDs.
LEMMA StoreStep ==
  ASSUME ThreadInv, SaveInv, HistoryWasDelivered, SavesOnEvidence, Save2Inv,
         SenderKeyNotBehind,
         [Next]_vars
  PROVE  Save2Inv' /\ SenderKeyNotBehind'
<1>1. SentKept /\ SenderKeyFirst  BY SentKeptStep, SenderKeyFirstStep
<1> DEFINE Key(m) == <<Owner[from[m]], to[m]>>
<1>2. ASSUME NEW m \in Msgs, stage[m] # "unsent"
      PROVE  Key(m)' = Key(m)
  BY <1>1, <1>2 DEF SentKept
<1>3. ASSUME NEW s \in Servers, pc[s] = "save2", redis[s]
      PROVE  /\ cur[s] \in Msgs /\ stage[cur[s]] # "unsent"
             /\ cur[s] \in history'[Key(cur[s])]
  <2>1. /\ cur[s] \in Msgs /\ stage[cur[s]] # "unsent"
        /\ Key(cur[s]) \in Users \X Users /\ cur[s] \in history[Key(cur[s])]
    BY <1>3, RoutingAssumption DEF ThreadInv, CurInv, SentInv, Busy, Save2Inv
  <2> QED  BY <1>1, <2>1 DEF SenderKeyFirst
<1>4. Save2Inv'
  <2> SUFFICES ASSUME NEW s \in Servers, pc'[s] = "save2", redis'[s]
               PROVE  cur'[s] \in history'[<<Owner[from'[cur'[s]]], to'[cur'[s]]>>]
    BY DEF Save2Inv
  <2>1. CurInv'  BY CurStep DEF ThreadInv
  <2>2. cur'[s] = cur[s] /\ cur[s] \in Msgs
    BY <1>1, <2>1 DEF SenderKeyFirst, CurInv, Busy
  <2>3. cur[s] \in history'[Key(cur[s])]  BY <1>1, <1>3 DEF SenderKeyFirst
  <2>4. stage[cur[s]] # "unsent"  BY <1>1, <2>1, <2>2 DEF CurInv, Busy, SentKept
  <2> QED  BY <1>1, <2>2, <2>3, <2>4 DEF SentKept
<1>5. SenderKeyNotBehind'
  <2> SUFFICES ASSUME NEW p \in Users \X Users, NEW m \in history'[p]
               PROVE  m \in history'[<<Owner[from'[m]], to'[m]>>]
    BY DEF SenderKeyNotBehind
  <2>1. CASE m \in history[p]
    <3>1. m \in Msgs /\ stage[m] # "unsent"  BY <2>1 DEF ThreadInv, TypeOK, SaveInv
    <3>2. {p[1], p[2]} = {Owner[from[m]], to[m]}  BY <2>1 DEF HistoryWasDelivered
    <3>3. Key(m) \in Users \X Users  BY <3>2
    <3>4. m \in history'[Key(m)]
      BY <1>1, <2>1, <3>3 DEF SenderKeyNotBehind, SenderKeyFirst
    <3> QED  BY <1>2, <3>1, <3>4
  <2>2. CASE m \in history'[Key(m)] /\ m \notin history[p]
    <3>1. \E s \in Servers : pc[s] \in Busy /\ m = cur[s]
      BY <2>2 DEF SavesOnEvidence, Busy
    <3>2. m \in Msgs /\ stage[m] # "unsent"  BY <3>1 DEF ThreadInv, CurInv
    <3> QED  BY <1>2, <2>2, <3>2
  <2>3. ASSUME NEW s \in Servers, pc[s] = "save2", redis[s], m = cur[s]
        PROVE  m \in history'[<<Owner[from'[m]], to'[m]>>]
    BY <1>2, <1>3, <2>3
  <2> QED  BY <1>1, <2>1, <2>2, <2>3 DEF SenderKeyFirst
<1> QED  BY <1>4, <1>5

\* History is empty.
LEMMA InitHistory ==
  Init => SaveInv /\ HistoryWasDelivered /\ Save2Inv /\ SenderKeyNotBehind
  BY DEF Init, SaveInv, HistoryWasDelivered, Save2Inv, SenderKeyNotBehind

\* History holds only what was handed to a session of the addressee, and a thread
\* in save_history_msg has a message that was.
THEOREM HistoryInvariant == Spec => [](SaveInv /\ HistoryWasDelivered)
<1>1. ThreadInv /\ DeliveryInv /\ NameInv /\ SaveInv /\ HistoryWasDelivered /\ [Next]_vars
        => SaveInv' /\ HistoryWasDelivered'
  BY HistoryStep
<1>2. ThreadInv /\ NameInv /\ [Next]_vars => NameInv'  BY NameStep DEF ThreadInv
<1>3. Init => NameInv  BY InitRight
<1> QED
  BY InitHistory, ThreadInvariant, DeliveryInvariant, <1>1, <1>2, <1>3, PTL DEF Spec

\* What a private history holds was handed to a session of the addressee before the
\* first of the two keys was written, whichever thread of whichever server did it.
THEOREM HistoryDelivered == Spec => []HistoryWasDelivered
  BY HistoryInvariant, PTL

\* The key sender:recver holds every message its mirror holds: the context of a
\* server never comes back while one of its threads is between the two ZADDs.
THEOREM SenderKeyAhead == Spec => []SenderKeyNotBehind
<1>1. /\ ThreadInv /\ DeliveryInv /\ NameInv /\ SaveInv /\ HistoryWasDelivered
      /\ Save2Inv /\ SenderKeyNotBehind /\ [Next]_vars
      => Save2Inv' /\ SenderKeyNotBehind'
  BY StoreStep, EvidenceStep
<1>2. ThreadInv /\ NameInv /\ [Next]_vars => NameInv'  BY NameStep DEF ThreadInv
<1>3. Init => NameInv  BY InitRight
<1> QED
  BY InitHistory, ThreadInvariant, DeliveryInvariant, HistoryInvariant, <1>1, <1>2, <1>3,
    PTL DEF Spec
=============================================================================
