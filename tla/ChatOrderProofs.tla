-------------------------- MODULE ChatOrderProofs --------------------------
(***************************************************************************)
(* Theorems about ChatRouting that build on ChatRoutingProofs: the load    *)
(* StatusServer balances by, the user lists sessions are sent, and the     *)
(* order of messages.                                                      *)
(***************************************************************************)
EXTENDS ChatRoutingProofs

-----------------------------------------------------------------------------
(* The load                                                                *)

\* The stored count and the vector differ by no more than the change under way.
WithinLag ==
  \A s \in Servers : up[s] /\ redis[s] =>
    count[s] <= Len(sessions[s]) + Lag(s) /\ Len(sessions[s]) <= count[s] + Lag(s)

\* Removing a session makes the vector at most one shorter.
LEMMA EraseLength ==
  ASSUME NEW v \in Seq(Clients), NEW c
  PROVE  Len(Erase(v, c)) \in {Len(v), Len(v) - 1}
<1>1. CASE \E i \in 1 .. Len(v) : v[i] = c
  <2>1. PICK i \in 1 .. Len(v) : Erase(v, c) = RemoveAt(v, i)
    BY <1>1 DEF Erase
  <2>2. /\ SubSeq(v, 1, i - 1) \in Seq(Clients) /\ Len(SubSeq(v, 1, i - 1)) = i - 1
        /\ SubSeq(v, i + 1, Len(v)) \in Seq(Clients)
        /\ Len(SubSeq(v, i + 1, Len(v))) = Len(v) - i
    OBVIOUS
  <2>3. \A a, b \in Seq(Clients) : Len(a \o b) = Len(a) + Len(b)  OBVIOUS
  <2>4. RemoveAt(v, i) = SubSeq(v, 1, i - 1) \o SubSeq(v, i + 1, Len(v))  BY DEF RemoveAt
  <2>5. Len(RemoveAt(v, i)) = (i - 1) + (Len(v) - i)  BY <2>2, <2>3, <2>4
  <2>6. Len(v) \in Nat  OBVIOUS
  <2> QED  BY <2>1, <2>5, <2>6
<1>2. CASE ~ \E i \in 1 .. Len(v) : v[i] = c
  BY <1>2 DEF Erase
<1> QED  BY <1>1, <1>2

\* remove_client changes one vector by at most one session, its count later.
LEMMA RemoveLag ==
  ASSUME TypeOK, WithinLag, NEW s \in Servers, NEW c, pc[s] = "idle",
         RemoveClient(s, c), UNCHANGED <<count, up, redis>>
  PROVE  WithinLag'
<1> USE DEF TypeOK, RemoveClient, Lag, MutexFree
<1>1. SUFFICES ASSUME NEW t \in Servers, up[t], redis[t]
               PROVE  /\ count[t] <= Len(sessions'[t]) + Lag(t)'
                      /\ Len(sessions'[t]) <= count[t] + Lag(t)'
  BY DEF WithinLag
<1>2. /\ count[t] \in Nat /\ Len(sessions[t]) \in Nat
      /\ count[t] <= Len(sessions[t]) + Lag(t) /\ Len(sessions[t]) <= count[t] + Lag(t)
  BY <1>1 DEF WithinLag
<1>3. CASE t = s
  <2>1. Len(sessions'[s]) \in {Len(sessions[s]), Len(sessions[s]) - 1}
    BY EraseLength
  <2>2. Lag(s) = 0 /\ Lag(s)' = 1  OBVIOUS
  <2> QED  BY <1>2, <1>3, <2>1, <2>2
<1>4. CASE t # s
  <2>1. sessions'[t] = sessions[t] /\ pc'[t] = pc[t]  BY <1>4
  <2> QED  BY <1>2, <2>1
<1> QED  BY <1>3, <1>4

\* A step that leaves the counts, the vectors and the lock alone.
LEMMA LagKept ==
  ASSUME TypeOK, WithinLag, UNCHANGED <<count, sessions, up, redis>>,
         \A s \in Servers : pc'[s] = "publish" <=> pc[s] = "publish"
  PROVE  WithinLag'
<1>1. \A s \in Servers : Lag(s)' = Lag(s)  BY DEF Lag, MutexFree
<1> QED  BY <1>1 DEF WithinLag

\* Every step keeps the counts within one session of the vectors.
LEMMA LagStep ==
  ASSUME ThreadInv, WithinLag, [Next]_vars
  PROVE  WithinLag'
<1> USE DEF ThreadInv, TypeOK, Busy, redisVars, ioVars, procVars, clientVars, viewVars,
        msgVars
<1>1. ASSUME NEW s \in Servers, PublishCount(s) PROVE WithinLag'
  <2>1. SUFFICES ASSUME NEW t \in Servers, up'[t], redis'[t]
                 PROVE  /\ count'[t] <= Len(sessions'[t]) + Lag(t)'
                        /\ Len(sessions'[t]) <= count'[t] + Lag(t)'
    BY DEF WithinLag
  <2>2. count'[t] \in Nat /\ Len(sessions[t]) \in Nat  BY <1>1 DEF PublishCount
  <2>3. CASE t = s  BY <1>1, <2>1, <2>2, <2>3 DEF PublishCount, Lag, MutexFree
  <2>4. CASE t # s
    BY <1>1, <2>1, <2>4 DEF PublishCount, WithinLag, Lag, MutexFree
  <2> QED  BY <2>3, <2>4
<1>2. ASSUME NEW s \in Servers, ResolveUid(s) PROVE WithinLag'
  BY <1>2, LagKept DEF ResolveUid, Working, Continue, Refuse
<1>3. ASSUME NEW s \in Servers, LookupFails(s) PROVE WithinLag'
  BY <1>3, LagKept DEF LookupFails, Working, Refuse
<1>4. ASSUME NEW s \in Servers, ResolveServer(s) PROVE WithinLag'
  BY <1>4, LagKept DEF ResolveServer, Working, Continue, Refuse
<1>5. ASSUME NEW s \in Servers, DeliverLocal(s) PROVE WithinLag'
  BY <1>5, LagKept DEF DeliverLocal, Working, Continue, Refuse
<1>6. ASSUME NEW s \in Servers, CallPeer(s) PROVE WithinLag'
  BY <1>6, LagKept DEF CallPeer, Working, Continue
<1>7. ASSUME NEW s \in Servers, PeerAnswers(s) PROVE WithinLag'
  BY <1>7, LagKept DEF PeerAnswers, Working, Continue, Refuse
<1>8. ASSUME NEW s \in Servers, PeerCallFails(s) PROVE WithinLag'
  BY <1>8, LagKept DEF PeerCallFails, Working, Refuse
<1>9. ASSUME NEW s \in Servers, SaveSenderKey(s) PROVE WithinLag'
  BY <1>9, LagKept DEF SaveSenderKey, Working, Continue
<1>10. ASSUME NEW s \in Servers, SaveRecverKey(s) PROVE WithinLag'
  BY <1>10, LagKept DEF SaveRecverKey, Working
<1>11. ASSUME NEW s \in Servers, Crash(s) PROVE WithinLag'
  <2>1. \A t \in Servers : t # s => /\ up'[t] = up[t] /\ redis'[t] = redis[t]
                                   /\ count'[t] = count[t] /\ pc'[t] = pc[t]
                                   /\ sessions'[t] = sessions[t]
    BY <1>11 DEF Crash
  <2>2. ~up'[s]  BY <1>11 DEF Crash
  <2> QED  BY <2>1, <2>2 DEF WithinLag, Lag, MutexFree
<1>12. ASSUME NEW s \in Servers, Restart(s) PROVE WithinLag'
  <2>1. \A t \in Servers : t # s => /\ up'[t] = up[t] /\ redis'[t] = redis[t]
                                   /\ count'[t] = count[t] /\ pc'[t] = pc[t]
                                   /\ sessions'[t] = sessions[t]
    BY <1>12 DEF Restart
  <2>2. count'[s] = 0 /\ Len(sessions'[s]) = 0 /\ pc'[s] = "idle"
    BY <1>12 DEF Restart, DownInv
  <2>3. Lag(s)' = 0  BY <2>2 DEF Lag, MutexFree
  <2>4. \A t \in Servers : t # s => Lag(t)' = Lag(t)  BY <2>1 DEF Lag, MutexFree
  <2>5. ASSUME NEW t \in Servers, up'[t], redis'[t]
        PROVE  /\ count'[t] <= Len(sessions'[t]) + Lag(t)'
               /\ Len(sessions'[t]) <= count'[t] + Lag(t)'
    <3>1. CASE t = s  BY <2>2, <2>3, <3>1
    <3>2. CASE t # s  BY <2>1, <2>4, <2>5, <3>2 DEF WithinLag
    <3> QED  BY <3>1, <3>2
  <2> QED  BY <2>5 DEF WithinLag
<1>13. ASSUME NEW s \in Servers, RedisLost(s) PROVE WithinLag'
  <2>1. \A t \in Servers : redis'[t] => redis[t]  BY <1>13 DEF RedisLost
  <2>2. UNCHANGED <<count, sessions, up, pc>>  BY <1>13 DEF RedisLost
  <2> QED  BY <2>1, <2>2 DEF WithinLag, Lag, MutexFree
<1>14. ASSUME NEW s \in Servers, NEW m \in Msgs, GetReplyMessage(s, m) PROVE WithinLag'
  BY <1>14, LagKept DEF GetReplyMessage
<1>15. ASSUME NEW s \in Servers, NEW c \in Clients, AddSession(s, c) PROVE WithinLag'
  <2>1. SUFFICES ASSUME NEW t \in Servers, up[t], redis[t]
                 PROVE  /\ count[t] <= Len(sessions'[t]) + Lag(t)'
                        /\ Len(sessions'[t]) <= count[t] + Lag(t)'
    BY <1>15 DEF WithinLag, AddSession
  <2>2. /\ count[t] \in Nat /\ Len(sessions[t]) \in Nat
        /\ count[t] <= Len(sessions[t]) + Lag(t) /\ Len(sessions[t]) <= count[t] + Lag(t)
    BY <2>1 DEF WithinLag
  <2>3. CASE t = s
    <3>1. Len(sessions'[s]) = Len(sessions[s]) + 1  BY <1>15 DEF AddSession
    <3>2. Lag(s) = 0 /\ Lag(s)' = 1  BY <1>15 DEF AddSession, IoIdle, Lag, MutexFree
    <3> QED  BY <2>2, <2>3, <3>1, <3>2
  <2>4. CASE t # s
    BY <1>15, <2>2, <2>4 DEF AddSession, Lag, MutexFree
  <2> QED  BY <2>3, <2>4
<1>16. ASSUME NEW s \in Servers, NEW c \in Clients, ReadName(s, c) PROVE WithinLag'
  BY <1>16, LagKept DEF ReadName
<1>17. ASSUME NEW s \in Servers, NEW c \in Clients, ReadPrivate(s, c) PROVE WithinLag'
  BY <1>17, LagKept DEF ReadPrivate, Readable, IoIdle
<1>18. ASSUME NEW s \in Servers, NEW c \in Clients, ReadPublic(s, c) PROVE WithinLag'
  BY <1>18, LagKept DEF ReadPublic
<1>19. ASSUME NEW s \in Servers, NEW c \in Clients, ReadError(s, c) PROVE WithinLag'
  BY <1>19, RemoveLag DEF ReadError, IoIdle
<1>20. ASSUME NEW s \in Servers, NEW c \in Clients, WriteError(s, c) PROVE WithinLag'
  BY <1>20, RemoveLag DEF WriteError, IoIdle
<1>21. ASSUME NEW c \in Clients, GetChatServer(c) PROVE WithinLag'
  BY <1>21, LagKept DEF GetChatServer
<1>22. ASSUME NEW c \in Clients, Leave(c) PROVE WithinLag'
  BY <1>22, LagKept DEF Leave
<1>23. ASSUME NEW c \in Clients, NEW u \in Users \cup {Everyone}, Send(c, u)
       PROVE  WithinLag'
  BY <1>23, LagKept DEF Send
<1>24. ASSUME UNCHANGED vars PROVE WithinLag'
  BY <1>24, LagKept DEF vars
<1>25. ASSUME StatusRestart PROVE WithinLag'
  BY <1>25, LagKept DEF StatusRestart
<1>26. ASSUME NEW c \in Clients, ReadCount(c) PROVE WithinLag'
  BY <1>26, LagKept DEF ReadCount
<1> QED
  BY <1>1, <1>2, <1>3, <1>4, <1>5, <1>6, <1>7, <1>8, <1>9, <1>10, <1>11, <1>12, <1>13,
     <1>14, <1>15, <1>16, <1>17, <1>18, <1>19, <1>20, <1>21, <1>22, <1>23, <1>24, <1>25,
     <1>26
  DEF Next, ServerStep, SessionStep, ClientStep

\* The load of a running server that reaches Redis is never behind by more than one.
THEOREM LoadWithinLag == Spec => []WithinLag
<1>1. Init => WithinLag  BY DEF Init, WithinLag, Lag, MutexFree
<1>2. ThreadInv /\ WithinLag /\ [Next]_vars => WithinLag'  BY LagStep
<1> QED  BY <1>1, <1>2, ThreadInvariant, PTL DEF Spec

\* A login goes to the server with the fewest sessions, up to the sessions being
\* added or removed at that moment, when no count has changed since it was read.
THEOREM LoginsLeastLoaded == Spec => LeastLoaded
<1> DEFINE Least ==
      \A c \in Clients, t \in Healthy :
        /\ phase[c] = "new" /\ phase'[c] = "assigned"
        /\ \A s \in Healthy : seen[s] = count[s]
        /\ up[at'[c]] /\ redis[at'[c]] /\ up[t] /\ redis[t]
        => Len(sessions[at'[c]]) <= Len(sessions[t]) + Lag(at'[c]) + Lag(t)
<1>1. ThreadInv /\ WithinLag /\ [Next]_vars => [Least]_vars
  <2> SUFFICES ASSUME ThreadInv, WithinLag, Next, NEW c \in Clients, NEW t \in Healthy,
                      phase[c] = "new", phase'[c] = "assigned",
                      \A s \in Healthy : seen[s] = count[s],
                      up[at'[c]], redis[at'[c]], up[t], redis[t]
               PROVE  Len(sessions[at'[c]]) <= Len(sessions[t]) + Lag(at'[c]) + Lag(t)
    OBVIOUS
  <2> USE DEF ThreadInv, TypeOK
  <2>1. PICK s \in Healthy : LeastSeen(s) /\ at'[c] = s
    <3>1. ASSUME NEW d \in Clients, GetChatServer(d)
          PROVE  \E s \in Healthy : LeastSeen(s) /\ at'[c] = s
      <4>1. d = c  BY <3>1 DEF GetChatServer
      <4> QED  BY <3>1, <4>1 DEF GetChatServer
    <3>2. ASSUME NEW x \in Servers, ServerStep(x) PROVE FALSE
      <4>1. CASE Crash(x)
        <5>1. phase'[c] \in {"gone", phase[c]}  BY <4>1 DEF Crash
        <5> QED  BY <5>1
      <4>2. CASE ~Crash(x)
        <5>1. phase' = phase
          BY <3>2, <4>2 DEF ServerStep, PublishCount, ResolveUid, LookupFails, ResolveServer,
             DeliverLocal, CallPeer, PeerAnswers, PeerCallFails, SaveSenderKey,
             SaveRecverKey, Restart, RedisLost, GetReplyMessage, clientVars
        <5> QED  BY <5>1
      <4> QED  BY <4>1, <4>2
    <3>3. ASSUME NEW x \in Servers, NEW d \in Clients, SessionStep(x, d) PROVE FALSE
      BY <3>3 DEF SessionStep, AddSession, ReadName, ReadPrivate, ReadPublic, ReadError,
         WriteError, Readable, IoIdle, clientVars
    <3>4. ASSUME NEW d \in Clients, Leave(d) PROVE FALSE
      BY <3>4 DEF Leave
    <3>5. ASSUME NEW d \in Clients, NEW u \in Users \cup {Everyone}, Send(d, u) PROVE FALSE
      BY <3>5 DEF Send, clientVars
    <3>6. ~StatusRestart  BY DEF StatusRestart, clientVars
    <3>7. ASSUME NEW d \in Clients, ReadCount(d) PROVE FALSE
      BY <3>7 DEF ReadCount, clientVars
    <3> QED  BY <3>1, <3>2, <3>3, <3>4, <3>5, <3>6, <3>7 DEF Next, ClientStep
  <2>2. s \in Servers /\ t \in Servers  BY RoutingAssumption
  <2>3. count[s] <= count[t]  BY <2>1 DEF LeastSeen
  <2>4. /\ Len(sessions[s]) <= count[s] + Lag(s) /\ count[t] <= Len(sessions[t]) + Lag(t)
    BY <2>1, <2>2 DEF WithinLag
  <2>5. /\ count[s] \in Nat /\ count[t] \in Nat /\ Lag(s) \in Nat /\ Lag(t) \in Nat
        /\ Len(sessions[s]) \in Nat /\ Len(sessions[t]) \in Nat
    BY <2>2 DEF Lag
  <2> QED  BY <2>1, <2>3, <2>4, <2>5
<1> QED  BY <1>1, ThreadInvariant, LoadWithinLag, PTL DEF Spec, LeastLoaded

-----------------------------------------------------------------------------
(* The user lists                                                          *)

Connected == {"open", "left", "closed"}

\* A session is in the vector of the server its client was sent to, and nowhere else.
Placed ==
  \A s \in Servers : \A c \in Members(sessions[s]) : at[c] = s /\ phase[c] \in Connected

\* Only a session that was accepted has read a name.
NamedConnected == \A c \in Clients : name[c] # None => phase[c] \in Connected

RosterInv == Placed /\ NamedConnected /\ RosterIsCurrent

\* The sessions of a vector of sessions.
LEMMA MembersType ==
  ASSUME NEW v \in Seq(Clients)
  PROVE  Members(v) \subseteq Clients
  BY DEF Members, ToSet

\* Removing a session adds none.
LEMMA EraseMembers ==
  ASSUME NEW v \in Seq(Clients), NEW c
  PROVE  Members(Erase(v, c)) \subseteq Members(v)
<1>1. CASE \E i \in 1 .. Len(v) : v[i] = c
  <2>1. PICK i \in 1 .. Len(v) : Erase(v, c) = RemoveAt(v, i)
    BY <1>1 DEF Erase
  <2>2. \A a, b \in Seq(Clients) : \A k \in 1 .. Len(a \o b) :
           \/ k \in 1 .. Len(a) /\ (a \o b)[k] = a[k]
           \/ k - Len(a) \in 1 .. Len(b) /\ (a \o b)[k] = b[k - Len(a)]
    OBVIOUS
  <2>3. /\ SubSeq(v, 1, i - 1) \in Seq(Clients) /\ SubSeq(v, i + 1, Len(v)) \in Seq(Clients)
        /\ \A k \in 1 .. Len(SubSeq(v, 1, i - 1)) :
             k \in 1 .. Len(v) /\ SubSeq(v, 1, i - 1)[k] = v[k]
        /\ \A k \in 1 .. Len(SubSeq(v, i + 1, Len(v))) :
             i + k \in 1 .. Len(v) /\ SubSeq(v, i + 1, Len(v))[k] = v[i + k]
    OBVIOUS
  <2>4. ASSUME NEW k \in 1 .. Len(RemoveAt(v, i))
        PROVE  RemoveAt(v, i)[k] \in Members(v)
    <3>1. \E j \in 1 .. Len(v) : RemoveAt(v, i)[k] = v[j]
      BY <2>2, <2>3 DEF RemoveAt
    <3> QED  BY <3>1 DEF Members, ToSet
  <2>5. Members(RemoveAt(v, i)) \subseteq Members(v)
    BY <2>4 DEF Members, ToSet
  <2> QED  BY <2>1, <2>5
<1>2. CASE ~ \E i \in 1 .. Len(v) : v[i] = c
  BY <1>2 DEF Erase
<1> QED  BY <1>1, <1>2

\* An accepted session joins the vector.
LEMMA AppendMembers ==
  ASSUME NEW v \in Seq(Clients), NEW c \in Clients
  PROVE  Members(Append(v, c)) = Members(v) \cup {c}
<1>1. /\ Len(Append(v, c)) = Len(v) + 1 /\ Append(v, c)[Len(v) + 1] = c
      /\ \A i \in 1 .. Len(v) : Append(v, c)[i] = v[i]
      /\ Len(v) \in Nat
  OBVIOUS
<1>2. Members(v) \cup {c} \subseteq Members(Append(v, c))
  BY <1>1 DEF Members, ToSet
<1>3. Members(Append(v, c)) \subseteq Members(v) \cup {c}
  BY <1>1 DEF Members, ToSet
<1> QED  BY <1>2, <1>3

\* A step that changes no vector, name or list, and disconnects nobody.
LEMMA RosterKept ==
  ASSUME TypeOK, RosterInv, UNCHANGED <<sessions, name, roster, at>>,
         \A c \in Clients : phase[c] \in Connected => phase'[c] \in Connected
  PROVE  RosterInv'
<1>1. Placed'
  BY MembersType DEF TypeOK, RosterInv, Placed
<1>2. NamedConnected'  BY DEF RosterInv, NamedConnected
<1>3. RosterIsCurrent'  BY DEF RosterInv, RosterIsCurrent, NamesIn
<1> QED  BY <1>1, <1>2, <1>3 DEF RosterInv

\* A list sent to every session of a vector reaches no session of another.
LEMMA OneVector ==
  ASSUME Placed, NEW s \in Servers, NEW t \in Servers, s # t,
         NEW c \in Members(sessions[t])
  PROVE  c \notin Members(sessions[s])
  BY DEF Placed

\* remove_client tells everyone who remains.
LEMMA RemoveRoster ==
  ASSUME TypeOK, RosterInv, NEW s \in Servers, NEW d, RemoveClient(s, d),
         UNCHANGED <<name, at>>,
         \A c \in Clients : phase[c] \in Connected => phase'[c] \in Connected
  PROVE  RosterInv'
<1> USE DEF TypeOK
<1>1. \A t \in Servers : t # s => sessions'[t] = sessions[t]
  BY DEF RemoveClient
<1>2. Members(sessions'[s]) \subseteq Members(sessions[s])
  BY EraseMembers DEF RemoveClient
<1>3. \A t \in Servers : Members(sessions'[t]) \subseteq Members(sessions[t])
  BY <1>1, <1>2
<1>4. Placed'
  BY <1>3, MembersType DEF RosterInv, Placed
<1>5. NamedConnected'  BY DEF RosterInv, NamedConnected
<1>6. ASSUME NEW t \in Servers, NEW c \in Members(sessions'[t]), name[c] # None
      PROVE  roster'[c] = NamesIn(sessions'[t], name)
  <2>1. c \in Clients  BY <1>3, <1>6, MembersType
  <2>2. CASE t = s  BY <1>6, <2>1, <2>2 DEF RemoveClient, BroadcastUserList
  <2>3. CASE t # s
    <3>1. c \notin Members(sessions'[s])  BY <1>2, <1>3, <1>6, <2>3, OneVector DEF RosterInv
    <3>2. roster'[c] = roster[c]  BY <2>1, <3>1 DEF RemoveClient, BroadcastUserList
    <3> QED  BY <1>1, <1>6, <2>3, <3>2 DEF RosterInv, RosterIsCurrent
  <2> QED  BY <2>2, <2>3
<1>7. RosterIsCurrent'
  BY <1>6 DEF RosterIsCurrent, NamesIn
<1> QED  BY <1>4, <1>5, <1>7 DEF RosterInv

\* The sessions of a process that dies are gone, the others' lists stay.
LEMMA CrashRoster ==
  ASSUME ThreadInv, RosterInv, NEW s \in Servers, Crash(s)
  PROVE  RosterInv'
<1>0. sessions \in [Servers -> Seq(Clients)]  BY DEF ThreadInv, TypeOK
<1> DEFINE Cut(c) == at[c] = s /\ phase[c] \in Connected
<1>1. at' = at /\ sessions'[s] = <<>> /\ \A t \in Servers : t # s => sessions'[t] = sessions[t]
  BY <1>0 DEF Crash
<1>8. ASSUME NEW c \in Clients, ~Cut(c)
      PROVE  phase'[c] = phase[c] /\ name'[c] = name[c] /\ roster'[c] = roster[c]
  BY <1>8 DEF Crash, Connected
<1>9. ASSUME NEW c \in Clients, Cut(c)
      PROVE  name'[c] = None
  BY <1>9 DEF Crash, Connected
<1> HIDE DEF Cut
<1>2. \A x : x \notin Members(<<>>)
  <2>1. DOMAIN <<>> = {}  OBVIOUS
  <2> QED  BY <2>1 DEF Members, ToSet
<1>3. ASSUME NEW t \in Servers, NEW c \in Members(sessions'[t])
      PROVE  /\ t # s /\ sessions'[t] = sessions[t] /\ c \in Clients
             /\ c \in Members(sessions[t]) /\ at[c] = t /\ phase[c] \in Connected
             /\ phase'[c] = phase[c] /\ name'[c] = name[c] /\ roster'[c] = roster[c]
  <2>1. t # s /\ sessions'[t] = sessions[t]  BY <1>1, <1>2, <1>3
  <2>2. c \in Members(sessions[t]) /\ c \in Clients  BY <1>3, <2>1, <1>0, MembersType
  <2>3. at[c] = t /\ phase[c] \in Connected  BY <2>2 DEF RosterInv, Placed
  <2>4. ~Cut(c)  BY <2>1, <2>3 DEF Cut
  <2>5. phase'[c] = phase[c] /\ name'[c] = name[c] /\ roster'[c] = roster[c]
    BY <1>8, <2>2, <2>4
  <2> QED  BY <2>1, <2>2, <2>3, <2>5
<1>4. Placed'  BY <1>1, <1>3 DEF Placed
<1>5. NamedConnected'  BY <1>8, <1>9 DEF RosterInv, NamedConnected
<1>6. ASSUME NEW t \in Servers, NEW c \in Members(sessions'[t]), name'[c] # None
      PROVE  roster'[c] = NamesIn(sessions'[t], name')
  <2>1. \A d \in Members(sessions'[t]) : name'[d] = name[d]  BY <1>3
  <2>2. NamesIn(sessions'[t], name') = NamesIn(sessions[t], name)
    BY <1>3, <1>6, <2>1 DEF NamesIn
  <2> QED  BY <1>3, <1>6, <2>2 DEF RosterInv, RosterIsCurrent
<1>7. RosterIsCurrent'  BY <1>6 DEF RosterIsCurrent, NamesIn
<1> QED  BY <1>4, <1>5, <1>7 DEF RosterInv

\* A new session has no name yet, and the lists do not show it.
LEMMA AcceptRoster ==
  ASSUME ThreadInv, RosterInv, NEW s \in Servers, NEW c \in Clients, AddSession(s, c)
  PROVE  RosterInv'
<1>0. sessions \in [Servers -> Seq(Clients)]  BY DEF ThreadInv, TypeOK
<1>1. /\ phase[c] = "assigned" /\ at[c] = s /\ UNCHANGED <<at, name, roster>>
      /\ sessions'[s] = Append(sessions[s], c)
      /\ \A t \in Servers : t # s => sessions'[t] = sessions[t]
      /\ \A d \in Clients : phase'[d] = IF d = c THEN "open" ELSE phase[d]
  BY DEF TypeOK, ThreadInv, clientVars, viewVars, AddSession
<1>2. name[c] = None  BY <1>1 DEF RosterInv, NamedConnected, Connected
<1>3. Members(sessions'[s]) = Members(sessions[s]) \cup {c}  BY <1>0, <1>1, AppendMembers
<1>4. \A t \in Servers : \A d \in Members(sessions'[t]) :
         d \in Clients /\ (d \in Members(sessions[t]) \/ (d = c /\ t = s))
  BY <1>1, <1>3, <1>0, MembersType
<1>5. Placed'  BY <1>1, <1>4 DEF RosterInv, Placed, Connected
<1>6. NamedConnected'  BY <1>1 DEF RosterInv, NamedConnected, Connected
<1>7. NamesIn(sessions'[s], name) = NamesIn(sessions[s], name)
  BY <1>2, <1>3 DEF NamesIn
<1>8. ASSUME NEW t \in Servers, NEW d \in Members(sessions'[t]), name[d] # None
      PROVE  roster[d] = NamesIn(sessions'[t], name)
  <2>1. d \in Members(sessions[t])  BY <1>2, <1>4, <1>8
  <2> QED  BY <1>1, <1>7, <1>8, <2>1 DEF RosterInv, RosterIsCurrent
<1>9. RosterIsCurrent'  BY <1>1, <1>8 DEF RosterIsCurrent, NamesIn
<1> QED  BY <1>5, <1>6, <1>9 DEF RosterInv

\* A name is announced to every session of its server.
LEMMA NameRoster ==
  ASSUME ThreadInv, RosterInv, NEW s \in Servers, NEW c \in Clients, ReadName(s, c)
  PROVE  RosterInv'
<1>0. sessions \in [Servers -> Seq(Clients)]  BY DEF ThreadInv, TypeOK
<1>1. /\ at[c] = s /\ phase[c] \in Connected /\ UNCHANGED <<sessions, at, phase>>
      /\ BroadcastUserList(sessions[s], name')
      /\ \A d \in Clients : d # c => name'[d] = name[d]
  BY DEF TypeOK, ThreadInv, clientVars, viewVars, ReadName, Readable, Connected
<1>2. Placed'  BY <1>1, <1>0, MembersType DEF RosterInv, Placed
<1>3. NamedConnected'  BY <1>1 DEF RosterInv, NamedConnected
<1>4. ASSUME NEW t \in Servers, NEW d \in Members(sessions[t]), name'[d] # None
      PROVE  roster'[d] = NamesIn(sessions[t], name')
  <2>1. d \in Clients  BY <1>4, <1>0, MembersType
  <2>2. CASE t = s  BY <1>1, <1>4, <2>1, <2>2 DEF BroadcastUserList
  <2>3. CASE t # s
    <3>1. d \notin Members(sessions[s])  BY <1>4, <2>3, OneVector DEF RosterInv
    <3>2. roster'[d] = roster[d]  BY <1>1, <2>1, <3>1 DEF BroadcastUserList
    <3>3. \A e \in Members(sessions[t]) : e # c  BY <1>1, <2>3 DEF RosterInv, Placed
    <3>4. \A e \in Members(sessions[t]) : name'[e] = name[e]  BY <1>1, <3>3, <1>0, MembersType
    <3>5. NamesIn(sessions[t], name') = NamesIn(sessions[t], name)  BY <3>4 DEF NamesIn
    <3> QED  BY <1>4, <3>2, <3>4, <3>5 DEF RosterInv, RosterIsCurrent
  <2> QED  BY <2>2, <2>3
<1>5. RosterIsCurrent'  BY <1>1, <1>4 DEF RosterIsCurrent, NamesIn
<1> QED  BY <1>2, <1>3, <1>5 DEF RosterInv

\* A client that logs in is in no vector.
LEMMA LoginRoster ==
  ASSUME ThreadInv, RosterInv, NEW c \in Clients, GetChatServer(c)
  PROVE  RosterInv'
<1>0. sessions \in [Servers -> Seq(Clients)]  BY DEF ThreadInv, TypeOK
<1>1. /\ phase[c] = "new" /\ UNCHANGED <<sessions, name, roster>>
      /\ \A d \in Clients : d # c => at'[d] = at[d] /\ phase'[d] = phase[d]
  BY DEF TypeOK, ThreadInv, clientVars, viewVars, GetChatServer
<1>2. \A t \in Servers : c \notin Members(sessions[t])
  BY <1>1 DEF RosterInv, Placed, Connected
<1>3. Placed'  BY <1>1, <1>2, <1>0, MembersType DEF RosterInv, Placed
<1>4. name[c] = None  BY <1>1 DEF RosterInv, NamedConnected, Connected
<1>5. NamedConnected'  BY <1>1, <1>4 DEF RosterInv, NamedConnected
<1>6. RosterIsCurrent'  BY <1>1 DEF RosterInv, RosterIsCurrent, NamesIn
<1> QED  BY <1>3, <1>5, <1>6 DEF RosterInv

\* Every step leaves every named session with the list of those who are there.
LEMMA RosterStep ==
  ASSUME ThreadInv, RosterInv, [Next]_vars
  PROVE  RosterInv'
<1> USE RoutingAssumption DEF ThreadInv, TypeOK, redisVars, ioVars, procVars, clientVars,
        viewVars, msgVars
<1>1. ASSUME NEW s \in Servers, PublishCount(s) PROVE RosterInv'
  BY <1>1, RosterKept DEF PublishCount
<1>2. ASSUME NEW s \in Servers, ResolveUid(s) PROVE RosterInv'
  BY <1>2, RosterKept DEF ResolveUid
<1>3. ASSUME NEW s \in Servers, LookupFails(s) PROVE RosterInv'
  BY <1>3, RosterKept DEF LookupFails
<1>4. ASSUME NEW s \in Servers, ResolveServer(s) PROVE RosterInv'
  BY <1>4, RosterKept DEF ResolveServer
<1>5. ASSUME NEW s \in Servers, DeliverLocal(s) PROVE RosterInv'
  BY <1>5, RosterKept DEF DeliverLocal
<1>6. ASSUME NEW s \in Servers, CallPeer(s) PROVE RosterInv'
  BY <1>6, RosterKept DEF CallPeer
<1>7. ASSUME NEW s \in Servers, PeerAnswers(s) PROVE RosterInv'
  BY <1>7, RosterKept DEF PeerAnswers
<1>8. ASSUME NEW s \in Servers, PeerCallFails(s) PROVE RosterInv'
  BY <1>8, RosterKept DEF PeerCallFails
<1>9. ASSUME NEW s \in Servers, SaveSenderKey(s) PROVE RosterInv'
  BY <1>9, RosterKept DEF SaveSenderKey
<1>10. ASSUME NEW s \in Servers, SaveRecverKey(s) PROVE RosterInv'
  BY <1>10, RosterKept DEF SaveRecverKey
<1>11. ASSUME NEW s \in Servers, Crash(s) PROVE RosterInv'
  BY <1>11, CrashRoster
<1>12. ASSUME NEW s \in Servers, Restart(s) PROVE RosterInv'
  BY <1>12, RosterKept DEF Restart
<1>13. ASSUME NEW s \in Servers, RedisLost(s) PROVE RosterInv'
  BY <1>13, RosterKept DEF RedisLost
<1>14. ASSUME NEW s \in Servers, NEW m \in Msgs, GetReplyMessage(s, m) PROVE RosterInv'
  BY <1>14, RosterKept DEF GetReplyMessage
<1>15. ASSUME NEW s \in Servers, NEW c \in Clients, AddSession(s, c) PROVE RosterInv'
  BY <1>15, AcceptRoster
<1>16. ASSUME NEW s \in Servers, NEW c \in Clients, ReadName(s, c) PROVE RosterInv'
  BY <1>16, NameRoster
<1>17. ASSUME NEW s \in Servers, NEW c \in Clients, ReadPrivate(s, c) PROVE RosterInv'
  BY <1>17, RosterKept DEF ReadPrivate
<1>18. ASSUME NEW s \in Servers, NEW c \in Clients, ReadPublic(s, c) PROVE RosterInv'
  BY <1>18, RosterKept DEF ReadPublic
<1>19. ASSUME NEW s \in Servers, NEW c \in Clients, ReadError(s, c) PROVE RosterInv'
  BY <1>19, RemoveRoster DEF ReadError, Connected
<1>20. ASSUME NEW s \in Servers, NEW c \in Clients, WriteError(s, c) PROVE RosterInv'
  BY <1>20, RemoveRoster DEF WriteError
<1>21. ASSUME NEW c \in Clients, GetChatServer(c) PROVE RosterInv'
  BY <1>21, LoginRoster
<1>22. ASSUME NEW c \in Clients, Leave(c) PROVE RosterInv'
  BY <1>22, RosterKept DEF Leave, Connected
<1>23. ASSUME NEW c \in Clients, NEW u \in Users \cup {Everyone}, Send(c, u)
       PROVE  RosterInv'
  BY <1>23, RosterKept DEF Send
<1>24. ASSUME UNCHANGED vars PROVE RosterInv'
  BY <1>24, RosterKept DEF vars
<1>25. ASSUME StatusRestart PROVE RosterInv'
  BY <1>25, RosterKept DEF StatusRestart
<1>26. ASSUME NEW c \in Clients, ReadCount(c) PROVE RosterInv'
  BY <1>26, RosterKept DEF ReadCount
<1> QED
  BY <1>1, <1>2, <1>3, <1>4, <1>5, <1>6, <1>7, <1>8, <1>9, <1>10, <1>11, <1>12, <1>13,
     <1>14, <1>15, <1>16, <1>17, <1>18, <1>19, <1>20, <1>21, <1>22, <1>23, <1>24, <1>25,
     <1>26
  DEF Next, ServerStep, SessionStep, ClientStep

\* Every named session knows exactly who is online on its server, in every state.
THEOREM RosterCorrect == Spec => []RosterIsCurrent
<1>1. Init => RosterInv
  BY DEF Init, RosterInv, Placed, NamedConnected, RosterIsCurrent, Members, ToSet
<1>2. ThreadInv /\ RosterInv /\ [Next]_vars => RosterInv'  BY RosterStep
<1>3. RosterInv => RosterIsCurrent  BY DEF RosterInv
<1> QED  BY <1>1, <1>2, <1>3, ThreadInvariant, PTL DEF Spec

-----------------------------------------------------------------------------
(* The order of messages                                                   *)

Settled(m) == stage[m] \in {"ok", "failed", "lost"}

\* Messages are numbered as they are written, and only connected clients write.
WrittenInTurn ==
  \A m \in Msgs : stage[m] # "unsent" =>
    /\ phase[from[m]] \notin {"new", "assigned"}
    /\ \A k \in 1 .. (m - 1) : stage[k] # "unsent"

\* A message is handled by the io thread of its sender's server.
HandledAtSender ==
  \A m \in Msgs : stage[m] = "handling" =>
    at[from[m]] \in Servers /\ cur[at[from[m]]] = m

\* Nothing of a client is begun before what it wrote earlier is settled.
SettledInTurn ==
  \A n \in Msgs : stage[n] \notin {"unsent", "wire"} =>
    \A m \in 1 .. (n - 1) : from[m] = from[n] => Settled(m)

\* A message reported as sent is not waiting to be handed over.
OkAnswered == \A m \in Msgs : stage[m] = "ok" => call[m].st # "sent"

\* Of two messages of one client, a session got the later one first only if the
\* earlier was given up.
OrderedUnlessGivenUp ==
  \A n \in Msgs : \A m \in 1 .. (n - 1) : from[m] = from[n] =>
    \A c \in Clients : \A i, j \in 1 .. Len(inbox[c]) :
      (inbox[c][i] = m /\ inbox[c][j] = n) => i < j \/ stage[m] \in {"failed", "lost"}

OrderInv ==
  /\ WrittenInTurn /\ HandledAtSender /\ SettledInTurn
  /\ OkAnswered /\ OrderedUnlessGivenUp

\* A client that has connected keeps its server.
ClientKept ==
  \A c \in Clients : phase[c] \notin {"new", "assigned"} =>
    at'[c] = at[c] /\ phase'[c] \notin {"new", "assigned"}

\* How far a step can bring a message.
StageMoves ==
  \A m \in Msgs :
    \/ stage'[m] = stage[m]
       /\ (stage[m] = "handling" => \A s \in Servers : cur[s] = m => cur'[s] = m)
    \/ /\ stage[m] = "unsent" /\ stage'[m] = "wire"
       /\ phase'[from'[m]] \notin {"new", "assigned"}
       /\ \A k \in 1 .. (m - 1) : stage'[k] # "unsent"
    \/ /\ stage[m] = "wire" /\ stage'[m] \in {"handling", "ok"}
       /\ \A k \in 1 .. (m - 1) : from[k] = from[m] => Settled(k)
       /\ stage'[m] = "handling" => at[from[m]] \in Servers /\ cur'[at[from[m]]] = m
    \/ /\ stage[m] = "wire" /\ stage'[m] = "lost"
       /\ \A k \in 1 .. (m - 1) : from[k] = from[m] => Settled(k)'
    \/ stage[m] = "handling" /\ Settled(m)'

\* Who is reported as sent, and who is waiting to be handed over.
AnswerMoves ==
  \A m \in Msgs :
    /\ stage'[m] = "ok" => stage[m] = "ok" \/ call[m].st # "sent"
    /\ call'[m].st = "sent" => call[m].st = "sent" \/ stage'[m] = "handling"

\* A session gets at most one message in a step, at the end, one that is being
\* handled, or that a peer was asked to hand over.
InboxMoves ==
  \A c \in Clients :
    \/ inbox'[c] = inbox[c]
    \/ \E k \in Msgs : /\ inbox'[c] = Append(inbox[c], k)
                       /\ stage[k] \in {"wire", "handling"} \/ call[k].st = "sent"

\* Clients connect once and stay with their server.
LEMMA ClientKeptStep ==
  ASSUME ThreadInv, [Next]_vars
  PROVE  ClientKept
<1> USE DEF ThreadInv, TypeOK, ClientKept, clientVars
<1>1. ASSUME NEW s \in Servers, PublishCount(s) PROVE ClientKept
  BY <1>1 DEF PublishCount
<1>2. ASSUME NEW s \in Servers, ResolveUid(s) PROVE ClientKept
  BY <1>2 DEF ResolveUid
<1>3. ASSUME NEW s \in Servers, LookupFails(s) PROVE ClientKept
  BY <1>3 DEF LookupFails
<1>4. ASSUME NEW s \in Servers, ResolveServer(s) PROVE ClientKept
  BY <1>4 DEF ResolveServer
<1>5. ASSUME NEW s \in Servers, DeliverLocal(s) PROVE ClientKept
  BY <1>5 DEF DeliverLocal
<1>6. ASSUME NEW s \in Servers, CallPeer(s) PROVE ClientKept
  BY <1>6 DEF CallPeer
<1>7. ASSUME NEW s \in Servers, PeerAnswers(s) PROVE ClientKept
  BY <1>7 DEF PeerAnswers
<1>8. ASSUME NEW s \in Servers, PeerCallFails(s) PROVE ClientKept
  BY <1>8 DEF PeerCallFails
<1>9. ASSUME NEW s \in Servers, SaveSenderKey(s) PROVE ClientKept
  BY <1>9 DEF SaveSenderKey
<1>10. ASSUME NEW s \in Servers, SaveRecverKey(s) PROVE ClientKept
  BY <1>10 DEF SaveRecverKey
<1>11. ASSUME NEW s \in Servers, Crash(s) PROVE ClientKept
  BY <1>11 DEF Crash
<1>12. ASSUME NEW s \in Servers, Restart(s) PROVE ClientKept
  BY <1>12 DEF Restart
<1>13. ASSUME NEW s \in Servers, RedisLost(s) PROVE ClientKept
  BY <1>13 DEF RedisLost
<1>14. ASSUME NEW s \in Servers, NEW m \in Msgs, GetReplyMessage(s, m) PROVE ClientKept
  BY <1>14 DEF GetReplyMessage
<1>15. ASSUME NEW s \in Servers, NEW c \in Clients, AddSession(s, c) PROVE ClientKept
  BY <1>15 DEF AddSession
<1>16. ASSUME NEW s \in Servers, NEW c \in Clients, ReadName(s, c) PROVE ClientKept
  BY <1>16 DEF ReadName
<1>17. ASSUME NEW s \in Servers, NEW c \in Clients, ReadPrivate(s, c) PROVE ClientKept
  BY <1>17 DEF ReadPrivate
<1>18. ASSUME NEW s \in Servers, NEW c \in Clients, ReadPublic(s, c) PROVE ClientKept
  BY <1>18 DEF ReadPublic
<1>19. ASSUME NEW s \in Servers, NEW c \in Clients, ReadError(s, c) PROVE ClientKept
  BY <1>19 DEF ReadError
<1>20. ASSUME NEW s \in Servers, NEW c \in Clients, WriteError(s, c) PROVE ClientKept
  BY <1>20 DEF WriteError
<1>21. ASSUME NEW c \in Clients, GetChatServer(c) PROVE ClientKept
  BY <1>21 DEF GetChatServer
<1>22. ASSUME NEW c \in Clients, Leave(c) PROVE ClientKept
  BY <1>22 DEF Leave
<1>23. ASSUME NEW c \in Clients, NEW u \in Users \cup {Everyone}, Send(c, u)
       PROVE  ClientKept
  BY <1>23 DEF Send
<1>24. ASSUME UNCHANGED vars PROVE ClientKept
  BY <1>24 DEF vars
<1>25. ASSUME StatusRestart PROVE ClientKept
  BY <1>25 DEF StatusRestart
<1>26. ASSUME NEW c \in Clients, ReadCount(c) PROVE ClientKept
  BY <1>26 DEF ReadCount
<1> QED
  BY <1>1, <1>2, <1>3, <1>4, <1>5, <1>6, <1>7, <1>8, <1>9, <1>10, <1>11, <1>12, <1>13,
     <1>14, <1>15, <1>16, <1>17, <1>18, <1>19, <1>20, <1>21, <1>22, <1>23, <1>24, <1>25,
     <1>26
  DEF Next, ServerStep, SessionStep, ClientStep

\* A step that leaves the handlers alone moves no message.
LEMMA StageQuiet ==
  ASSUME UNCHANGED <<stage, cur>>
  PROVE  StageMoves
  BY DEF StageMoves

\* A refused message is settled, the others are where they were.
LEMMA StageRefused ==
  ASSUME TypeOK, CurInv, NEW s \in Servers, pc[s] \in Busy, Refuse(s)
  PROVE  StageMoves
<1>1. cur[s] \in Msgs /\ stage[cur[s]] = "handling"  BY DEF CurInv
<1>2. /\ stage'[cur[s]] = "failed"
      /\ \A m \in Msgs : m # cur[s] => stage'[m] = stage[m]
      /\ \A t \in Servers : t # s => cur'[t] = cur[t]
  BY <1>1 DEF TypeOK, Refuse
<1> QED  BY <1>1, <1>2 DEF StageMoves, Settled

\* What the thread that is about to read from c finds of c's messages: nothing is
\* being handled.
LEMMA NothingHandled ==
  ASSUME ThreadInv, OrderInv, NEW s \in Servers, NEW c \in Clients, pc[s] = "idle",
         at[c] = s, NEW k \in Msgs, from[k] = c
  PROVE  stage[k] # "handling"
<1>1. cur[s] = 0  BY DEF ThreadInv, CurInv, Busy
<1> QED  BY <1>1, ZeroNotMsg DEF OrderInv, HandledAtSender

\* Messages before m are messages.
LEMMA BeforeIsMsg ==
  ASSUME NEW m \in Msgs, NEW k \in 1 .. (m - 1)
  PROVE  k \in Msgs /\ k # m
  BY RoutingAssumption DEF Msgs

\* The message next on the wire is read when everything before it is settled.
LEMMA ReadInTurn ==
  ASSUME ThreadInv, OrderInv, NEW s \in Servers, NEW c \in Clients, pc[s] = "idle",
         at[c] = s, NEW m \in Msgs, NextOnWire(c, m)
  PROVE  \A k \in 1 .. (m - 1) : from[k] = from[m] => Settled(k)
<1> SUFFICES ASSUME NEW k \in 1 .. (m - 1), from[k] = from[m]
             PROVE  Settled(k)
  OBVIOUS
<1>1. k \in Msgs  BY BeforeIsMsg
<1>2. from[m] = c /\ stage[m] = "wire" /\ stage[k] # "wire"  BY DEF NextOnWire
<1>3. stage[k] # "unsent"  BY <1>2 DEF OrderInv, WrittenInTurn
<1>4. stage[k] # "handling"  BY <1>1, <1>2, NothingHandled
<1>5. stage[k] \in Stages  BY <1>1 DEF ThreadInv, TypeOK
<1> QED  BY <1>2, <1>3, <1>4, <1>5 DEF Stages, Settled

\* A message that is given up on the wire is so with all that came before it.
LEMMA GivenUpInTurn ==
  ASSUME ThreadInv, OrderInv, SentKept, NEW m \in Msgs, stage[m] = "wire",
         \A k \in Msgs : from[k] = from[m] =>
           /\ stage[k] = "wire" => stage'[k] = "lost"
           /\ stage[k] = "handling" => stage'[k] = "lost"
           /\ Settled(k) => stage'[k] = stage[k]
  PROVE  \A k \in 1 .. (m - 1) : from[k] = from[m] => Settled(k)'
<1> SUFFICES ASSUME NEW k \in 1 .. (m - 1), from[k] = from[m]
             PROVE  Settled(k)'
  OBVIOUS
<1>1. k \in Msgs  BY BeforeIsMsg
<1>2. stage[k] # "unsent"  BY DEF OrderInv, WrittenInTurn
<1>3. stage[k] \in Stages  BY <1>1 DEF ThreadInv, TypeOK
<1> QED  BY <1>1, <1>2, <1>3 DEF Stages, Settled

\* Every step moves a message by one stage, when it is its turn.
LEMMA StageStep ==
  ASSUME ThreadInv, OrderInv, SentKept, [Next]_vars
  PROVE  StageMoves
<1> USE DEF ioVars
<1>1. ASSUME NEW s \in Servers, PublishCount(s) PROVE StageMoves
  BY <1>1, StageQuiet DEF PublishCount
<1>2. ASSUME NEW s \in Servers, ResolveUid(s) PROVE StageMoves
  BY <1>2, StageQuiet, StageRefused DEF ResolveUid, Working, Continue, ThreadInv, Busy
<1>3. ASSUME NEW s \in Servers, LookupFails(s) PROVE StageMoves
  BY <1>3, StageQuiet, StageRefused DEF LookupFails, Working, Continue, ThreadInv, Busy
<1>4. ASSUME NEW s \in Servers, ResolveServer(s) PROVE StageMoves
  BY <1>4, StageQuiet, StageRefused DEF ResolveServer, Working, Continue, ThreadInv, Busy
<1>5. ASSUME NEW s \in Servers, DeliverLocal(s) PROVE StageMoves
  BY <1>5, StageQuiet, StageRefused DEF DeliverLocal, Working, Continue, ThreadInv, Busy
<1>6. ASSUME NEW s \in Servers, CallPeer(s) PROVE StageMoves
  BY <1>6, StageQuiet DEF CallPeer, Continue
<1>7. ASSUME NEW s \in Servers, PeerAnswers(s) PROVE StageMoves
  BY <1>7, StageQuiet, StageRefused DEF PeerAnswers, Working, Continue, ThreadInv, Busy
<1>8. ASSUME NEW s \in Servers, PeerCallFails(s) PROVE StageMoves
  BY <1>8, StageQuiet, StageRefused DEF PeerCallFails, Working, Continue, ThreadInv, Busy
<1>9. ASSUME NEW s \in Servers, SaveSenderKey(s) PROVE StageMoves
  BY <1>9, StageQuiet DEF SaveSenderKey, Continue
<1>10. ASSUME NEW s \in Servers, SaveRecverKey(s) PROVE StageMoves
  <2>1. cur[s] \in Msgs /\ stage[cur[s]] = "handling"
    BY <1>10 DEF SaveRecverKey, Working, ThreadInv, CurInv, Busy
  <2>2. /\ stage'[cur[s]] = "ok"
        /\ \A m \in Msgs : m # cur[s] => stage'[m] = stage[m]
        /\ \A t \in Servers : t # s => cur'[t] = cur[t]
    BY <1>10, <2>1 DEF SaveRecverKey, ThreadInv, TypeOK
  <2> QED  BY <2>1, <2>2 DEF StageMoves, Settled
<1>11. ASSUME NEW s \in Servers, Crash(s) PROVE StageMoves
  <2>1. \A t \in Servers : t # s => cur'[t] = cur[t]  BY <1>11 DEF Crash, ThreadInv, TypeOK
  <2>2. \A m \in Msgs : stage'[m] = IF m = cur[s] \/ (stage[m] = "wire" /\ at[from[m]] = s)
                                     THEN "lost" ELSE stage[m]
    BY <1>11 DEF Crash
  <2>3. \A m \in Msgs : m = cur[s] => stage[m] = "handling"
    BY ZeroNotMsg DEF ThreadInv, CurInv
  <2>4. ASSUME NEW m \in Msgs, stage[m] = "wire", at[from[m]] = s
        PROVE  \A k \in 1 .. (m - 1) : from[k] = from[m] => Settled(k)'
    <3>1. \A k \in Msgs : from[k] = from[m] /\ stage[k] = "handling" => k = cur[s]
      BY <2>4 DEF OrderInv, HandledAtSender
    <3>2. \A k \in Msgs : Settled(k) => k # cur[s]  BY <2>3 DEF Settled
    <3>3. \A k \in Msgs : from[k] = from[m] =>
             /\ stage[k] = "wire" => stage'[k] = "lost"
             /\ stage[k] = "handling" => stage'[k] = "lost"
             /\ Settled(k) => stage'[k] = stage[k]
      BY <2>2, <2>4, <3>1, <3>2 DEF Settled
    <3> QED  BY <2>4, <3>3, GivenUpInTurn
  <2>5. ASSUME NEW m \in Msgs, stage'[m] # stage[m]
        PROVE  \/ stage[m] = "handling" /\ Settled(m)'
               \/ /\ stage[m] = "wire" /\ stage'[m] = "lost"
                  /\ \A k \in 1 .. (m - 1) : from[k] = from[m] => Settled(k)'
    BY <2>2, <2>3, <2>4, <2>5 DEF Settled
  <2>6. ASSUME NEW m \in Msgs, stage'[m] = stage[m], stage[m] = "handling"
        PROVE  \A t \in Servers : cur[t] = m => cur'[t] = m
    BY <2>1, <2>2, <2>6
  <2> QED  BY <2>5, <2>6 DEF StageMoves
<1>12. ASSUME NEW s \in Servers, Restart(s) PROVE StageMoves
  BY <1>12, StageQuiet DEF Restart
<1>13. ASSUME NEW s \in Servers, RedisLost(s) PROVE StageMoves
  BY <1>13, StageQuiet DEF RedisLost
<1>14. ASSUME NEW s \in Servers, NEW m \in Msgs, GetReplyMessage(s, m) PROVE StageMoves
  BY <1>14, StageQuiet DEF GetReplyMessage
<1>15. ASSUME NEW s \in Servers, NEW c \in Clients, AddSession(s, c) PROVE StageMoves
  BY <1>15, StageQuiet DEF AddSession
<1>16. ASSUME NEW s \in Servers, NEW c \in Clients, ReadName(s, c) PROVE StageMoves
  BY <1>16, StageQuiet DEF ReadName
<1>17. ASSUME NEW s \in Servers, NEW c \in Clients, ReadPrivate(s, c) PROVE StageMoves
  <2>1. pc[s] = "idle" /\ at[c] = s  BY <1>17 DEF ReadPrivate, Readable, IoIdle
  <2>2. PICK n \in Msgs : /\ NextOnWire(c, n) /\ stage' = [stage EXCEPT ![n] = "handling"]
                          /\ cur' = [cur EXCEPT ![s] = n]
    BY <1>17 DEF ReadPrivate
  <2>3. /\ stage[n] = "wire" /\ from[n] = c /\ stage'[n] = "handling" /\ cur'[s] = n
        /\ \A m \in Msgs : m # n => stage'[m] = stage[m]
        /\ \A t \in Servers : t # s => cur'[t] = cur[t]
    BY <2>2 DEF NextOnWire, ThreadInv, TypeOK
  <2>4. \A k \in 1 .. (n - 1) : from[k] = from[n] => Settled(k)
    BY <2>1, <2>2, ReadInTurn
  <2>5. \A m \in Msgs : cur[s] # m  BY <2>1, ZeroNotMsg DEF ThreadInv, CurInv, Busy
  <2> QED  BY <2>1, <2>3, <2>4, <2>5 DEF StageMoves
<1>18. ASSUME NEW s \in Servers, NEW c \in Clients, ReadPublic(s, c) PROVE StageMoves
  <2>1. pc[s] = "idle" /\ at[c] = s  BY <1>18 DEF ReadPublic, Readable, IoIdle
  <2>2. PICK n \in Msgs : NextOnWire(c, n) /\ stage' = [stage EXCEPT ![n] = "ok"]
    BY <1>18 DEF ReadPublic
  <2>3. /\ stage[n] = "wire" /\ stage'[n] = "ok" /\ cur' = cur
        /\ \A m \in Msgs : m # n => stage'[m] = stage[m]
    BY <1>18, <2>2 DEF ReadPublic, NextOnWire, ThreadInv, TypeOK
  <2>4. \A k \in 1 .. (n - 1) : from[k] = from[n] => Settled(k)
    BY <2>1, <2>2, ReadInTurn
  <2> QED  BY <2>3, <2>4 DEF StageMoves
<1>19. ASSUME NEW s \in Servers, NEW c \in Clients, ReadError(s, c) PROVE StageMoves
  <2>1. pc[s] = "idle" /\ at[c] = s /\ cur' = cur  BY <1>19 DEF ReadError, IoIdle
  <2>2. \A m \in Msgs : stage'[m] = IF stage[m] = "wire" /\ from[m] = c
                                     THEN "lost" ELSE stage[m]
    BY <1>19 DEF ReadError
  <2>3. ASSUME NEW m \in Msgs, stage[m] = "wire", from[m] = c
        PROVE  \A k \in 1 .. (m - 1) : from[k] = from[m] => Settled(k)'
    BY <2>1, <2>2, <2>3, NothingHandled, GivenUpInTurn DEF Settled
  <2> QED  BY <2>1, <2>2, <2>3 DEF StageMoves
<1>20. ASSUME NEW s \in Servers, NEW c \in Clients, WriteError(s, c) PROVE StageMoves
  BY <1>20, StageQuiet DEF WriteError
<1>21. ASSUME NEW c \in Clients, GetChatServer(c) PROVE StageMoves
  BY <1>21, StageQuiet DEF GetChatServer
<1>22. ASSUME NEW c \in Clients, Leave(c) PROVE StageMoves
  BY <1>22, StageQuiet DEF Leave
<1>23. ASSUME NEW c \in Clients, NEW u \in Users \cup {Everyone}, Send(c, u)
       PROVE  StageMoves
  <2>1. PICK n \in Msgs : /\ stage[n] = "unsent" /\ stage' = [stage EXCEPT ![n] = "wire"]
                          /\ \A k \in 1 .. (n - 1) : stage[k] # "unsent"
                          /\ from' = [from EXCEPT ![n] = c]
    BY <1>23 DEF Send
  <2>2. phase[c] = "open" /\ UNCHANGED <<phase, cur>>  BY <1>23 DEF Send, clientVars
  <2>3. \A m \in Msgs : m # n => stage'[m] = stage[m]  BY <2>1 DEF ThreadInv, TypeOK
  <2>4. stage'[n] = "wire" /\ from'[n] = c
    <3>1. DOMAIN stage = Msgs /\ DOMAIN from = Msgs  BY DEF ThreadInv, TypeOK
    <3> QED  BY <2>1, <3>1
  <2>5. \A k \in 1 .. (n - 1) : stage'[k] # "unsent"  BY <2>1, <2>3, BeforeIsMsg
  <2> QED  BY <2>1, <2>2, <2>3, <2>4, <2>5 DEF StageMoves
<1>24. ASSUME UNCHANGED vars PROVE StageMoves
  BY <1>24, StageQuiet DEF vars
<1>25. ASSUME StatusRestart PROVE StageMoves
  BY <1>25, StageQuiet DEF StatusRestart
<1>26. ASSUME NEW c \in Clients, ReadCount(c) PROVE StageMoves
  BY <1>26, StageQuiet DEF ReadCount
<1> QED
  BY <1>1, <1>2, <1>3, <1>4, <1>5, <1>6, <1>7, <1>8, <1>9, <1>10, <1>11, <1>12, <1>13,
     <1>14, <1>15, <1>16, <1>17, <1>18, <1>19, <1>20, <1>21, <1>22, <1>23, <1>24, <1>25,
     <1>26
  DEF Next, ServerStep, SessionStep, ClientStep

\* A message is reported as sent only when nobody is left to hand it over.
LEMMA AnswerStep ==
  ASSUME ThreadInv, DeliveryInv, SaveInv, [Next]_vars
  PROVE  AnswerMoves
<1> USE DEF ThreadInv, TypeOK, AnswerMoves, ioVars
<1>1. ASSUME NEW s \in Servers, PublishCount(s) PROVE AnswerMoves
  BY <1>1 DEF PublishCount
<1>2. ASSUME NEW s \in Servers, ResolveUid(s) PROVE AnswerMoves
  BY <1>2 DEF ResolveUid, Working, Continue, Refuse
<1>3. ASSUME NEW s \in Servers, LookupFails(s) PROVE AnswerMoves
  BY <1>3 DEF LookupFails, Working, Continue, Refuse
<1>4. ASSUME NEW s \in Servers, ResolveServer(s) PROVE AnswerMoves
  BY <1>4 DEF ResolveServer, Working, Continue, Refuse
<1>5. ASSUME NEW s \in Servers, DeliverLocal(s) PROVE AnswerMoves
  BY <1>5 DEF DeliverLocal, Working, Continue, Refuse
<1>6. ASSUME NEW s \in Servers, CallPeer(s) PROVE AnswerMoves
  <2>1. cur[s] \in Msgs /\ stage[cur[s]] = "handling"
    BY <1>6 DEF CallPeer, Working, CurInv, Busy
  <2>2. stage' = stage /\ \A m \in Msgs : m # cur[s] => call'[m] = call[m]
    BY <1>6 DEF CallPeer, Continue
  <2> QED  BY <2>1, <2>2
<1>7. ASSUME NEW s \in Servers, PeerAnswers(s) PROVE AnswerMoves
  BY <1>7 DEF PeerAnswers, Working, Continue, Refuse
<1>8. ASSUME NEW s \in Servers, PeerCallFails(s) PROVE AnswerMoves
  BY <1>8 DEF PeerCallFails, Working, Continue, Refuse
<1>9. ASSUME NEW s \in Servers, SaveSenderKey(s) PROVE AnswerMoves
  BY <1>9 DEF SaveSenderKey, Continue
<1>10. ASSUME NEW s \in Servers, SaveRecverKey(s) PROVE AnswerMoves
  <2>1. cur[s] \in Msgs /\ Handed(cur[s])
    BY <1>10 DEF SaveRecverKey, Working, CurInv, Busy, SaveInv
  <2>2. call[cur[s]].st # "sent"  BY <2>1 DEF Handed, DeliveryInv, HandedInv
  <2>3. call' = call /\ \A m \in Msgs : m # cur[s] => stage'[m] = stage[m]
    BY <1>10, <2>1 DEF SaveRecverKey
  <2> QED  BY <2>2, <2>3
<1>11. ASSUME NEW s \in Servers, Crash(s) PROVE AnswerMoves
  BY <1>11 DEF Crash
<1>12. ASSUME NEW s \in Servers, Restart(s) PROVE AnswerMoves
  BY <1>12 DEF Restart
<1>13. ASSUME NEW s \in Servers, RedisLost(s) PROVE AnswerMoves
  BY <1>13 DEF RedisLost
<1>14. ASSUME NEW s \in Servers, NEW m \in Msgs, GetReplyMessage(s, m) PROVE AnswerMoves
  BY <1>14 DEF GetReplyMessage
<1>15. ASSUME NEW s \in Servers, NEW c \in Clients, AddSession(s, c) PROVE AnswerMoves
  BY <1>15 DEF AddSession
<1>16. ASSUME NEW s \in Servers, NEW c \in Clients, ReadName(s, c) PROVE AnswerMoves
  BY <1>16 DEF ReadName
<1>17. ASSUME NEW s \in Servers, NEW c \in Clients, ReadPrivate(s, c) PROVE AnswerMoves
  BY <1>17 DEF ReadPrivate
<1>18. ASSUME NEW s \in Servers, NEW c \in Clients, ReadPublic(s, c) PROVE AnswerMoves
  <2>1. PICK n \in Msgs : stage[n] = "wire" /\ stage' = [stage EXCEPT ![n] = "ok"]
    BY <1>18 DEF ReadPublic, NextOnWire
  <2>2. call[n].st = "none" /\ call' = call
    BY <1>18, <2>1 DEF ReadPublic, DeliveryInv, CallInv
  <2> QED  BY <2>1, <2>2
<1>19. ASSUME NEW s \in Servers, NEW c \in Clients, ReadError(s, c) PROVE AnswerMoves
  BY <1>19 DEF ReadError
<1>20. ASSUME NEW s \in Servers, NEW c \in Clients, WriteError(s, c) PROVE AnswerMoves
  BY <1>20 DEF WriteError
<1>21. ASSUME NEW c \in Clients, GetChatServer(c) PROVE AnswerMoves
  BY <1>21 DEF GetChatServer
<1>22. ASSUME NEW c \in Clients, Leave(c) PROVE AnswerMoves
  BY <1>22 DEF Leave
<1>23. ASSUME NEW c \in Clients, NEW u \in Users \cup {Everyone}, Send(c, u)
       PROVE  AnswerMoves
  BY <1>23 DEF Send
<1>24. ASSUME UNCHANGED vars PROVE AnswerMoves
  BY <1>24 DEF vars
<1>25. ASSUME StatusRestart PROVE AnswerMoves
  BY <1>25 DEF StatusRestart
<1>26. ASSUME NEW c \in Clients, ReadCount(c) PROVE AnswerMoves
  BY <1>26 DEF ReadCount
<1> QED
  BY <1>1, <1>2, <1>3, <1>4, <1>5, <1>6, <1>7, <1>8, <1>9, <1>10, <1>11, <1>12, <1>13,
     <1>14, <1>15, <1>16, <1>17, <1>18, <1>19, <1>20, <1>21, <1>22, <1>23, <1>24, <1>25,
     <1>26
  DEF Next, ServerStep, SessionStep, ClientStep

\* Messages are handed over one at a time, by the thread that handles them or by a
\* peer that was asked to.
LEMMA InboxStep ==
  ASSUME ThreadInv, [Next]_vars
  PROVE  InboxMoves
<1> USE DEF InboxMoves
<1>1. ASSUME NEW s \in Servers, PublishCount(s) PROVE InboxMoves
  BY <1>1 DEF PublishCount
<1>2. ASSUME NEW s \in Servers, ResolveUid(s) PROVE InboxMoves
  BY <1>2 DEF ResolveUid
<1>3. ASSUME NEW s \in Servers, LookupFails(s) PROVE InboxMoves
  BY <1>3 DEF LookupFails
<1>4. ASSUME NEW s \in Servers, ResolveServer(s) PROVE InboxMoves
  BY <1>4 DEF ResolveServer
<1>5. ASSUME NEW s \in Servers, DeliverLocal(s) PROVE InboxMoves
  <2>1. cur[s] \in Msgs /\ stage[cur[s]] = "handling"
    BY <1>5 DEF DeliverLocal, Working, ThreadInv, CurInv, Busy
  <2>2. \/ inbox' = inbox
        \/ \E d : inbox' = [inbox EXCEPT ![d] = Append(inbox[d], cur[s])]
    BY <1>5 DEF DeliverLocal, AsyncSend
  <2>3. \A c \in Clients : inbox'[c] \in {inbox[c], Append(inbox[c], cur[s])}
    BY <2>2 DEF ThreadInv, TypeOK
  <2> QED  BY <2>1, <2>3
<1>6. ASSUME NEW s \in Servers, CallPeer(s) PROVE InboxMoves
  BY <1>6 DEF CallPeer
<1>7. ASSUME NEW s \in Servers, PeerAnswers(s) PROVE InboxMoves
  BY <1>7 DEF PeerAnswers
<1>8. ASSUME NEW s \in Servers, PeerCallFails(s) PROVE InboxMoves
  BY <1>8 DEF PeerCallFails
<1>9. ASSUME NEW s \in Servers, SaveSenderKey(s) PROVE InboxMoves
  BY <1>9 DEF SaveSenderKey
<1>10. ASSUME NEW s \in Servers, SaveRecverKey(s) PROVE InboxMoves
  BY <1>10 DEF SaveRecverKey
<1>11. ASSUME NEW s \in Servers, Crash(s) PROVE InboxMoves
  BY <1>11 DEF Crash
<1>12. ASSUME NEW s \in Servers, Restart(s) PROVE InboxMoves
  BY <1>12 DEF Restart
<1>13. ASSUME NEW s \in Servers, RedisLost(s) PROVE InboxMoves
  BY <1>13 DEF RedisLost
<1>14. ASSUME NEW s \in Servers, NEW m \in Msgs, GetReplyMessage(s, m) PROVE InboxMoves
  <2>1. call[m].st = "sent"  BY <1>14 DEF GetReplyMessage
  <2>2. \/ inbox' = inbox
        \/ \E d : inbox' = [inbox EXCEPT ![d] = Append(inbox[d], m)]
    BY <1>14 DEF GetReplyMessage, AsyncSend
  <2>3. \A c \in Clients : inbox'[c] \in {inbox[c], Append(inbox[c], m)}
    BY <2>2 DEF ThreadInv, TypeOK
  <2> QED  BY <1>14, <2>1, <2>3
<1>15. ASSUME NEW s \in Servers, NEW c \in Clients, AddSession(s, c) PROVE InboxMoves
  BY <1>15 DEF AddSession
<1>16. ASSUME NEW s \in Servers, NEW c \in Clients, ReadName(s, c) PROVE InboxMoves
  BY <1>16 DEF ReadName
<1>17. ASSUME NEW s \in Servers, NEW c \in Clients, ReadPrivate(s, c) PROVE InboxMoves
  BY <1>17 DEF ReadPrivate
<1>18. ASSUME NEW s \in Servers, NEW c \in Clients, ReadPublic(s, c) PROVE InboxMoves
  <2>1. PICK n \in Msgs :
             /\ stage[n] = "wire"
             /\ inbox' = [d \in Clients |-> IF d \in Members(sessions[s]) \ {c}
                                            THEN Append(inbox[d], n) ELSE inbox[d]]
    BY <1>18 DEF ReadPublic, NextOnWire
  <2> QED  BY <2>1
<1>19. ASSUME NEW s \in Servers, NEW c \in Clients, ReadError(s, c) PROVE InboxMoves
  BY <1>19 DEF ReadError
<1>20. ASSUME NEW s \in Servers, NEW c \in Clients, WriteError(s, c) PROVE InboxMoves
  BY <1>20 DEF WriteError
<1>21. ASSUME NEW c \in Clients, GetChatServer(c) PROVE InboxMoves
  BY <1>21 DEF GetChatServer
<1>22. ASSUME NEW c \in Clients, Leave(c) PROVE InboxMoves
  BY <1>22 DEF Leave
<1>23. ASSUME NEW c \in Clients, NEW u \in Users \cup {Everyone}, Send(c, u)
       PROVE  InboxMoves
  BY <1>23 DEF Send
<1>24. ASSUME UNCHANGED vars PROVE InboxMoves
  BY <1>24 DEF vars
<1>25. ASSUME StatusRestart PROVE InboxMoves
  BY <1>25 DEF StatusRestart
<1>26. ASSUME NEW c \in Clients, ReadCount(c) PROVE InboxMoves
  BY <1>26 DEF ReadCount
<1> QED
  BY <1>1, <1>2, <1>3, <1>4, <1>5, <1>6, <1>7, <1>8, <1>9, <1>10, <1>11, <1>12, <1>13,
     <1>14, <1>15, <1>16, <1>17, <1>18, <1>19, <1>20, <1>21, <1>22, <1>23, <1>24, <1>25,
     <1>26
  DEF Next, ServerStep, SessionStep, ClientStep

\* What was written in turn is settled in turn.
LEMMA TurnsKept ==
  ASSUME ThreadInv, OrderInv, SentKept, ClientKept, StageMoves, SentInv'
  PROVE  WrittenInTurn' /\ HandledAtSender' /\ SettledInTurn'
<1>1. ASSUME NEW m \in Msgs, Settled(m)
      PROVE  Settled(m)' /\ from'[m] = from[m]
  BY <1>1 DEF StageMoves, Settled, SentKept
<1>2. ASSUME NEW m \in Msgs, stage[m] # "unsent"
      PROVE  /\ from[m] \in Clients /\ from'[m] = from[m] /\ stage'[m] # "unsent"
             /\ at'[from[m]] = at[from[m]]
             /\ phase'[from[m]] \notin {"new", "assigned"}
  BY <1>2 DEF SentKept, ClientKept, OrderInv, WrittenInTurn, ThreadInv, SentInv
<1>3. ASSUME NEW m \in Msgs, stage'[m] # "unsent"
      PROVE  /\ phase'[from'[m]] \notin {"new", "assigned"}
             /\ \A k \in 1 .. (m - 1) : stage'[k] # "unsent"
  <2>1. CASE stage[m] = "unsent"  BY <1>3, <2>1 DEF StageMoves, Settled
  <2>2. CASE stage[m] # "unsent"
    <3>1. \A k \in 1 .. (m - 1) : stage[k] # "unsent"
      BY <2>2 DEF OrderInv, WrittenInTurn
    <3> QED  BY <1>2, <2>2, <3>1, BeforeIsMsg
  <2> QED  BY <2>1, <2>2
<1>4. ASSUME NEW m \in Msgs, stage'[m] = "handling"
      PROVE  at'[from'[m]] \in Servers /\ cur'[at'[from'[m]]] = m
  <2>1. CASE stage[m] = "handling"
    BY <1>2, <1>4, <2>1 DEF StageMoves, OrderInv, HandledAtSender, Settled
  <2>2. CASE stage[m] # "handling"
    <3>1. stage[m] = "wire" /\ at[from[m]] \in Servers /\ cur'[at[from[m]]] = m
      BY <1>4, <2>2 DEF StageMoves, Settled
    <3> QED  BY <1>2, <3>1
  <2> QED  BY <2>1, <2>2
<1>5. ASSUME NEW n \in Msgs, stage'[n] \notin {"unsent", "wire"},
             NEW m \in 1 .. (n - 1), from'[m] = from'[n]
      PROVE  Settled(m)'
  <2>1. m \in Msgs  BY BeforeIsMsg
  <2>2. stage[n] # "unsent" /\ (stage[n] = "wire" => stage'[n] # stage[n])
    BY <1>5 DEF SentKept
  <2>3. stage[m] # "unsent"  BY <2>2 DEF OrderInv, WrittenInTurn
  <2>4. from[m] = from[n]  BY <1>2, <1>5, <2>1, <2>2, <2>3
  <2>5. CASE stage[n] = "wire"
    <3>1. Settled(m) \/ Settled(m)'  BY <2>2, <2>4, <2>5 DEF StageMoves
    <3> QED  BY <1>1, <2>1, <3>1
  <2>6. CASE stage[n] # "wire"
    <3>1. Settled(m)  BY <2>2, <2>4, <2>6 DEF OrderInv, SettledInTurn
    <3> QED  BY <1>1, <2>1, <3>1
  <2> QED  BY <2>5, <2>6
<1> QED  BY <1>3, <1>4, <1>5 DEF WrittenInTurn, HandledAtSender, SettledInTurn

\* A message reported as sent stays out of everybody's hands.
LEMMA AnsweredKept ==
  ASSUME ThreadInv, OrderInv, StageMoves, AnswerMoves
  PROVE  OkAnswered'
<1> SUFFICES ASSUME NEW m \in Msgs, stage'[m] = "ok", call'[m].st = "sent"
             PROVE  FALSE
  BY DEF OkAnswered
<1>1. call[m].st = "sent"  BY DEF AnswerMoves
<1>2. stage[m] = "ok"  BY <1>1 DEF AnswerMoves
<1> QED  BY <1>1, <1>2 DEF OrderInv, OkAnswered

\* What a session gets in a step comes after what it has, and is not earlier than
\* any of that unless it was given up.
LEMMA OrderKept ==
  ASSUME ThreadInv, DeliveryInv, OrderInv, SentKept, StageMoves, InboxMoves
  PROVE  OrderedUnlessGivenUp'
<1> SUFFICES ASSUME NEW n \in Msgs, NEW m \in 1 .. (n - 1), from'[m] = from'[n],
                    NEW c \in Clients, NEW i \in 1 .. Len(inbox'[c]),
                    NEW j \in 1 .. Len(inbox'[c]), inbox'[c][i] = m, inbox'[c][j] = n
             PROVE  i < j \/ stage'[m] \in {"failed", "lost"}
  BY DEF OrderedUnlessGivenUp
<1>1. m \in Msgs /\ m # n  BY BeforeIsMsg
<1>2. inbox[c] \in Seq(Msgs) /\ Len(inbox[c]) \in Nat  BY DEF ThreadInv, TypeOK
<1>3. ASSUME NEW k \in Msgs, stage[k] \in {"failed", "lost"}
      PROVE  stage'[k] \in {"failed", "lost"}
  BY <1>3 DEF StageMoves
<1>4. ASSUME Got(c, n) \/ stage[n] \in {"wire", "handling"} \/ call[n].st = "sent",
             stage[m] # "unsent"
      PROVE  from[m] = from[n]
  <2>1. Got(c, n) => stage[n] # "unsent"  BY DEF DeliveryInv, HandedInv
  <2>2. call[n].st = "sent" => stage[n] # "unsent"  BY DEF DeliveryInv, CallInv
  <2> QED  BY <1>1, <1>4, <2>1, <2>2 DEF SentKept
<1>5. ASSUME NEW x \in 1 .. Len(inbox[c])
      PROVE  Got(c, inbox[c][x]) /\ inbox[c][x] \in Msgs
  BY <1>2, <1>5 DEF Got
<1>6. \A k \in Msgs : Got(c, k) => stage[k] \notin {"unsent", "wire"}
  BY DEF DeliveryInv, HandedInv
<1>7. CASE inbox'[c] = inbox[c]
  <2>1. Got(c, m) /\ Got(c, n)  BY <1>5, <1>7
  <2>2. from[m] = from[n]  BY <1>1, <1>4, <1>6, <2>1
  <2>3. i < j \/ stage[m] \in {"failed", "lost"}
    BY <1>7, <2>2 DEF OrderInv, OrderedUnlessGivenUp
  <2> QED  BY <1>1, <1>3, <2>3
<1>8. ASSUME NEW k \in Msgs, inbox'[c] = Append(inbox[c], k),
             stage[k] \in {"wire", "handling"} \/ call[k].st = "sent"
      PROVE  i < j \/ stage'[m] \in {"failed", "lost"}
  <2>1. /\ Len(inbox'[c]) = Len(inbox[c]) + 1 /\ inbox'[c][Len(inbox[c]) + 1] = k
        /\ \A x \in 1 .. Len(inbox[c]) : inbox'[c][x] = inbox[c][x]
    BY <1>2, <1>8
  <2>2. CASE i \in 1 .. Len(inbox[c]) /\ j \in 1 .. Len(inbox[c])
    <3>1. inbox[c][i] = m /\ inbox[c][j] = n  BY <2>1, <2>2
    <3>2. Got(c, m) /\ Got(c, n)  BY <1>5, <2>2, <3>1
    <3>3. from[m] = from[n]  BY <1>1, <1>4, <1>6, <3>2
    <3>4. i < j \/ stage[m] \in {"failed", "lost"}
      BY <2>2, <3>1, <3>3 DEF OrderInv, OrderedUnlessGivenUp
    <3> QED  BY <1>1, <1>3, <3>4
  <2>3. CASE i \in 1 .. Len(inbox[c]) /\ j = Len(inbox[c]) + 1
    BY <1>2, <2>3
  <2>4. CASE i = Len(inbox[c]) + 1 /\ j \in 1 .. Len(inbox[c])
    <3>1. k = m /\ inbox[c][j] = n  BY <2>1, <2>4
    <3>2. Got(c, n)  BY <1>5, <2>4, <3>1
    <3>3. stage[n] \notin {"unsent", "wire"}  BY <1>6, <3>2
    <3>4. stage[m] # "unsent"  BY <3>3 DEF OrderInv, WrittenInTurn
    <3>5. Settled(m)  BY <1>4, <3>2, <3>3, <3>4 DEF OrderInv, SettledInTurn
    <3>6. call[m].st = "sent"  BY <1>8, <3>1, <3>5 DEF Settled
    <3>7. stage[m] \in {"failed", "lost"}
      BY <1>1, <3>5, <3>6 DEF Settled, OrderInv, OkAnswered
    <3> QED  BY <1>1, <1>3, <3>7
  <2>5. CASE i = Len(inbox[c]) + 1 /\ j = Len(inbox[c]) + 1
    BY <1>1, <2>5
  <2> QED  BY <1>2, <2>1, <2>2, <2>3, <2>4, <2>5
<1> QED  BY <1>7, <1>8 DEF InboxMoves

\* Messages of one client are handled in turn, also across failed calls and crashes.
THEOREM OrderInvariant == Spec => []OrderInv
<1>1. Init => OrderInv
  BY RoutingAssumption
  DEF Init, OrderInv, WrittenInTurn, HandledAtSender, SettledInTurn, OkAnswered,
      OrderedUnlessGivenUp, Msgs
<1>2. ASSUME ThreadInv, ThreadInv', DeliveryInv, SaveInv, OrderInv, [Next]_vars
      PROVE  OrderInv'
  <2>1. SentKept  BY <1>2, SentKeptStep
  <2>2. ClientKept  BY <1>2, ClientKeptStep
  <2>3. StageMoves  BY <1>2, <2>1, StageStep
  <2>4. AnswerMoves  BY <1>2, AnswerStep
  <2>5. InboxMoves  BY <1>2, InboxStep
  <2>6. SentInv'  BY <1>2 DEF ThreadInv
  <2>7. WrittenInTurn' /\ HandledAtSender' /\ SettledInTurn'
    BY <1>2, <2>1, <2>2, <2>3, <2>6, TurnsKept
  <2>8. OkAnswered'  BY <1>2, <2>3, <2>4, AnsweredKept
  <2>9. OrderedUnlessGivenUp'  BY <1>2, <2>1, <2>3, <2>5, OrderKept
  <2> QED  BY <2>7, <2>8, <2>9 DEF OrderInv
<1> QED  BY <1>1, <1>2, ThreadInvariant, DeliveryInvariant, HistoryInvariant, PTL DEF Spec

\* Two messages reported as sent arrive in the order they were written.
THEOREM AcknowledgedOrder == Spec => []AcknowledgedInOrder
<1>1. OrderInv => AcknowledgedInOrder
  <2> SUFFICES ASSUME OrderInv, NEW m \in Msgs, NEW n \in Msgs, m < n, from[m] = from[n],
                      stage[m] = "ok", NEW c \in Clients,
                      NEW i \in 1 .. Len(inbox[c]), NEW j \in 1 .. Len(inbox[c]),
                      inbox[c][i] = m, inbox[c][j] = n
               PROVE  i < j
    BY DEF AcknowledgedInOrder
  <2>1. m \in 1 .. (n - 1)  BY RoutingAssumption DEF Msgs
  <2> QED  BY <2>1 DEF OrderInv, OrderedUnlessGivenUp
<1> QED  BY <1>1, OrderInvariant, PTL
=============================================================================
