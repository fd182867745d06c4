-------------------------- MODULE ChatServiceProofs --------------------------
(***************************************************************************)
(* Theorems about ChatRouting that build on ChatOrderProofs: what a sender *)
(* is told, that the servers together implement MessageService, and that   *)
(* no two of them wait for each other.                                     *)
(***************************************************************************)
EXTENDS ChatOrderProofs

-----------------------------------------------------------------------------
(* What a refusal means                                                    *)

\* How a private message that somebody has got got there: over a call that found the
\* session, or from the thread that handles it, which then no longer refuses it.
HandedTraced ==
  \A m \in Msgs, c \in Clients : Private(m) /\ Got(c, m) =>
    call[m].st = "found" \/ (call[m].st = "none" /\ stage[m] # "failed")

\* A thread waits for a call it has made.
WaitingCalled == \A s \in Servers : pc[s] = "wait" => call[cur[s]].st # "none"

\* A call is given up before it is answered, or although it was, only when it broke.
RefusedByFault ==
  \A m \in Msgs : stage[m] = "failed" /\ call[m].st \in {"sent", "found"} => faults > 0

FailInv == HandedTraced /\ WaitingCalled /\ RefusedByFault

\* A step that hands nothing over, calls nobody and refuses nothing.
LEMMA FailQuiet ==
  ASSUME ThreadInv, DeliveryInv, FailInv, SentKept, UNCHANGED <<inbox, call>>,
         faults' \in {faults, faults + 1},
         \A m \in Msgs : stage'[m] = "failed" => stage[m] = "failed",
         \A s \in Servers : pc'[s] = "wait" => pc[s] = "wait" /\ cur'[s] = cur[s]
  PROVE  FailInv'
<1>1. \A m \in Msgs, c \in Clients : Private(m)' /\ Got(c, m) => Private(m)
  BY DEF DeliveryInv, HandedInv, SentKept, Private
<1>2. HandedTraced'  BY <1>1 DEF FailInv, HandedTraced, Got
<1>3. WaitingCalled'  BY DEF FailInv, WaitingCalled
<1>4. faults \in Nat  BY RoutingAssumption DEF ThreadInv, TypeOK
<1>5. RefusedByFault'  BY <1>4 DEF FailInv, RefusedByFault
<1> QED  BY <1>2, <1>3, <1>5 DEF FailInv

\* A thread that refuses its message before it has called a peer, after the peer has
\* answered that the user is not there, or because the call broke.
LEMMA FailRefused ==
  ASSUME ThreadInv, DeliveryInv, FailInv, SentKept, UNCHANGED <<inbox, call>>,
         faults' \in {faults, faults + 1},
         NEW s \in Servers, Refuse(s),
         \/ pc[s] \in {"uid", "server", "route"}
         \/ /\ pc[s] = "wait"
            /\ call[cur[s]].st \in {"absent", "lost"} \/ faults' = faults + 1
  PROVE  FailInv'
<1> DEFINE m == cur[s]
<1>1. m \in Msgs /\ stage[m] = "handling"
  BY DEF ThreadInv, CurInv, Busy
<1>2. faults \in Nat  BY RoutingAssumption DEF ThreadInv, TypeOK
<1>3. /\ \A k \in Msgs : k # m => stage'[k] = stage[k]
      /\ \A t \in Servers : pc'[t] = "wait" => pc[t] = "wait" /\ cur'[t] = cur[t]
  BY DEF ThreadInv, TypeOK, Refuse
<1>4. \A k \in Msgs, c \in Clients : Private(k)' /\ Got(c, k) => Private(k)
  BY DEF DeliveryInv, HandedInv, SentKept, Private
<1>5. ASSUME NEW c \in Clients, Private(m), Got(c, m)
      PROVE  call[m].st = "found"
  <2>1. pc[s] = "wait"  BY <1>1, <1>5 DEF DeliveryInv, HandedInv
  <2> QED  BY <1>1, <1>5, <2>1 DEF FailInv, HandedTraced, WaitingCalled
<1>6. HandedTraced'
  <2> SUFFICES ASSUME NEW k \in Msgs, NEW c \in Clients, Private(k)', Got(c, k)'
               PROVE  call'[k].st = "found" \/ (call'[k].st = "none" /\ stage'[k] # "failed")
    BY DEF HandedTraced
  <2>1. Private(k) /\ Got(c, k)  BY <1>4 DEF Got
  <2>2. CASE k = m  BY <1>5, <2>1, <2>2
  <2>3. CASE k # m  BY <1>3, <2>1, <2>3 DEF FailInv, HandedTraced
  <2> QED  BY <2>2, <2>3
<1>7. WaitingCalled'  BY <1>3 DEF FailInv, WaitingCalled
<1>8. call[m].st \in {"sent", "found"} => faults' > 0
  <2>1. call[m].st \in {"sent", "found"} => pc[s] = "wait"
    BY <1>1 DEF DeliveryInv, CallInv
  <2> QED  BY <1>2, <2>1
<1>9. RefusedByFault'
  <2> SUFFICES ASSUME NEW k \in Msgs, stage'[k] = "failed", call'[k].st \in {"sent", "found"}
               PROVE  faults' > 0
    BY DEF RefusedByFault
  <2>1. CASE k = m  BY <1>8, <2>1
  <2>2. CASE k # m  BY <1>2, <1>3, <2>2 DEF FailInv, RefusedByFault
  <2> QED  BY <2>1, <2>2
<1> QED  BY <1>6, <1>7, <1>9 DEF FailInv

\* Every way through send_private_msg, and what a peer does meanwhile.
LEMMA FailStep ==
  ASSUME ThreadInv, DeliveryInv, FailInv, SentKept, [Next]_vars
  PROVE  FailInv'
<1> USE DEF ThreadInv, TypeOK, ioVars, msgVars
<1>1. ASSUME NEW s \in Servers, PublishCount(s) PROVE FailInv'
  BY <1>1, FailQuiet DEF PublishCount
<1>2. ASSUME NEW s \in Servers, ResolveUid(s) PROVE FailInv'
  BY <1>2, FailQuiet, FailRefused DEF ResolveUid, Working, Continue, Busy
<1>3. ASSUME NEW s \in Servers, LookupFails(s) PROVE FailInv'
  BY <1>3, FailRefused DEF LookupFails, Working, Fault, Busy
<1>4. ASSUME NEW s \in Servers, ResolveServer(s) PROVE FailInv'
  BY <1>4, FailQuiet, FailRefused DEF ResolveServer, Working, Continue, Busy
<1>5. ASSUME NEW s \in Servers, DeliverLocal(s) PROVE FailInv'
  <2>1. cur[s] \in Msgs /\ stage[cur[s]] = "handling" /\ pc[s] = "route"
    BY <1>5 DEF DeliverLocal, Working, CurInv, Busy
  <2>2. CASE Refuse(s) /\ UNCHANGED inbox
    BY <1>5, <2>1, <2>2, FailRefused DEF DeliverLocal, Busy
  <2>3. ASSUME NEW i \in 1 .. Len(sessions[s]), FirstNamed(sessions[s], to[cur[s]], i),
               AsyncSend(sessions[s][i], cur[s]), Continue(s, "save1")
        PROVE  FailInv'
    <3>1. call[cur[s]].st = "none"  BY <2>1 DEF DeliveryInv, CallInv
    <3>2. sessions[s][i] \in Clients  BY <2>3, FirstNamedType
    <3>3. \A d \in Clients, k \in Msgs : Got(d, k)' => Got(d, k) \/ k = cur[s]
      BY <2>1, <2>3, <3>2, HandOver
    <3>4. UNCHANGED <<call, stage, to, faults>>
      BY <1>5, <2>3 DEF DeliverLocal, Continue
    <3>5. \A t \in Servers : pc'[t] = "wait" => pc[t] = "wait" /\ cur'[t] = cur[t]
      BY <2>3 DEF Continue
    <3> QED
      BY <2>1, <3>1, <3>3, <3>4, <3>5
      DEF FailInv, HandedTraced, WaitingCalled, RefusedByFault, Private
  <2> QED  BY <1>5, <2>2, <2>3 DEF DeliverLocal
<1>6. ASSUME NEW s \in Servers, CallPeer(s) PROVE FailInv'
  <2>1. cur[s] \in Msgs /\ stage[cur[s]] = "handling" /\ pc[s] = "route"
    BY <1>6 DEF CallPeer, Working, CurInv, Busy
  <2>2. \A d \in Clients : ~Got(d, cur[s])  BY <2>1 DEF DeliveryInv, HandedInv
  <2>3. /\ call'[cur[s]].st \in {"sent", "lost"}
        /\ \A k \in Msgs : k # cur[s] => call'[k] = call[k]
    BY <1>6, <2>1 DEF CallPeer
  <2>4. UNCHANGED <<inbox, stage, to, cur, faults>> /\ pc' = [pc EXCEPT ![s] = "wait"]
    BY <1>6 DEF CallPeer, Continue
  <2>5. \A t \in Servers : pc'[t] = "wait" => t = s \/ (t # s /\ pc[t] = "wait")
    BY <2>4
  <2>6. ASSUME NEW t \in Servers, pc[t] = "wait", t # s
        PROVE  cur[t] # cur[s] /\ cur[t] \in Msgs
    BY <2>1, <2>6, ZeroNotMsg DEF CurInv, OneHandler, Busy
  <2>7. HandedTraced'
    BY <2>2, <2>3, <2>4 DEF FailInv, HandedTraced, Got, Private
  <2>8. WaitingCalled'
    BY <2>3, <2>4, <2>5, <2>6 DEF FailInv, WaitingCalled
  <2>9. RefusedByFault'
    BY <2>1, <2>3, <2>4 DEF FailInv, RefusedByFault
  <2> QED  BY <2>7, <2>8, <2>9 DEF FailInv
<1>7. ASSUME NEW s \in Servers, PeerAnswers(s) PROVE FailInv'
  BY <1>7, FailQuiet, FailRefused DEF PeerAnswers, Working, Continue, Busy
<1>8. ASSUME NEW s \in Servers, PeerCallFails(s) PROVE FailInv'
  BY <1>8, FailRefused DEF PeerCallFails, Working, Fault, Busy
<1>9. ASSUME NEW s \in Servers, SaveSenderKey(s) PROVE FailInv'
  BY <1>9, FailQuiet DEF SaveSenderKey, Continue
<1>10. ASSUME NEW s \in Servers, SaveRecverKey(s) PROVE FailInv'
  BY <1>10, FailQuiet DEF SaveRecverKey
<1>11. ASSUME NEW s \in Servers, Crash(s) PROVE FailInv'
  <2>1. /\ \A m \in Msgs : /\ stage'[m] \in {stage[m], "lost"}
                           /\ call'[m].st # call[m].st => call[m].st = "sent"
                           /\ call'[m].st \in {call[m].st, "lost"}
        /\ UNCHANGED <<inbox, to>>
    BY <1>11 DEF Crash
  <2>2. \A t \in Servers : pc'[t] = "wait" => pc[t] = "wait" /\ cur'[t] = cur[t]
    BY <1>11 DEF Crash
  <2>3. HandedTraced'
    <3>1. SUFFICES ASSUME NEW m \in Msgs, NEW c \in Clients, Private(m)', Got(c, m)'
                   PROVE  \/ call'[m].st = "found"
                          \/ call'[m].st = "none" /\ stage'[m] # "failed"
      BY DEF HandedTraced
    <3>2. Private(m) /\ Got(c, m)  BY <2>1, <3>1 DEF Private, Got
    <3>3. call[m].st # "sent"  BY <3>2 DEF DeliveryInv, HandedInv
    <3>4. call[m].st = "found" \/ (call[m].st = "none" /\ stage[m] # "failed")
      BY <3>2 DEF FailInv, HandedTraced
    <3> QED  BY <2>1, <3>3, <3>4
  <2>4. WaitingCalled'
    <3>1. SUFFICES ASSUME NEW t \in Servers, pc'[t] = "wait"
                   PROVE  call'[cur'[t]].st # "none"
      BY DEF WaitingCalled
    <3>2. pc[t] = "wait" /\ cur'[t] = cur[t]  BY <2>2, <3>1
    <3>3. cur[t] \in Msgs /\ call[cur[t]].st # "none"
      BY <3>2 DEF CurInv, Busy, FailInv, WaitingCalled
    <3> QED  BY <2>1, <3>2, <3>3
  <2>5. RefusedByFault'
    BY <1>11, <2>1 DEF Crash, Fault, FailInv, RefusedByFault
  <2> QED  BY <2>3, <2>4, <2>5 DEF FailInv
<1>12. ASSUME NEW s \in Servers, Restart(s) PROVE FailInv'
  BY <1>12, FailQuiet DEF Restart
<1>13. ASSUME NEW s \in Servers, RedisLost(s) PROVE FailInv'
  BY <1>13, FailQuiet DEF RedisLost, Fault
<1>14. ASSUME NEW s \in Servers, NEW m \in Msgs, GetReplyMessage(s, m) PROVE FailInv'
  <2>1. call[m].st = "sent" /\ UNCHANGED <<to, stage, pc, cur, faults>>
    BY <1>14 DEF GetReplyMessage
  <2>2. \A d \in Clients : ~Got(d, m)  BY <2>1 DEF DeliveryInv, HandedInv
  <2>3. /\ \A k \in Msgs : k # m => call'[k] = call[k]
        /\ call'[m].st \in {"found", "absent"}
    BY <1>14 DEF GetReplyMessage
  <2>4. /\ \A d \in Clients, k \in Msgs : Got(d, k)' => Got(d, k) \/ k = m
        /\ \A d \in Clients : Got(d, m)' => call'[m].st = "found"
    <3>1. CASE UNCHANGED inbox  BY <2>2, <3>1 DEF Got
    <3>2. ASSUME NEW i \in 1 .. Len(sessions[s]), FirstNamed(sessions[s], to[m], i),
                 AsyncSend(sessions[s][i], m),
                 call' = [call EXCEPT ![m] = [st |-> "found", dst |-> s]]
          PROVE  /\ \A d \in Clients, k \in Msgs : Got(d, k)' => Got(d, k) \/ k = m
                 /\ call'[m].st = "found"
      <4>1. sessions[s][i] \in Clients  BY <3>2, FirstNamedType
      <4> QED  BY <3>2, <4>1, HandOver
    <3> QED  BY <1>14, <3>1, <3>2 DEF GetReplyMessage
  <2>5. HandedTraced'
    BY <2>1, <2>3, <2>4 DEF FailInv, HandedTraced, Private
  <2>6. WaitingCalled'
    BY <2>1, <2>3 DEF FailInv, WaitingCalled, CurInv, Busy
  <2>7. RefusedByFault'
    BY <2>1, <2>3 DEF FailInv, RefusedByFault
  <2> QED  BY <2>5, <2>6, <2>7 DEF FailInv
<1>15. ASSUME NEW s \in Servers, NEW c \in Clients, AddSession(s, c) PROVE FailInv'
  BY <1>15, FailQuiet DEF AddSession
<1>16. ASSUME NEW s \in Servers, NEW c \in Clients, ReadName(s, c) PROVE FailInv'
  BY <1>16, FailQuiet DEF ReadName
<1>17. ASSUME NEW s \in Servers, NEW c \in Clients, ReadPrivate(s, c) PROVE FailInv'
  BY <1>17, FailQuiet DEF ReadPrivate
<1>18. ASSUME NEW s \in Servers, NEW c \in Clients, ReadPublic(s, c) PROVE FailInv'
  <2>1. PICK n \in Msgs :
             /\ stage[n] = "wire" /\ to[n] = Everyone /\ stage' = [stage EXCEPT ![n] = "ok"]
             /\ inbox' = [d \in Clients |-> IF d \in Members(sessions[s]) \ {c}
                                            THEN Append(inbox[d], n) ELSE inbox[d]]
    BY <1>18 DEF ReadPublic, NextOnWire
  <2>2. UNCHANGED <<to, call, pc, cur, faults>>  BY <1>18 DEF ReadPublic
  <2>3. ~Private(n)  BY <2>1, RoutingAssumption DEF Private
  <2>4. ASSUME NEW d \in Clients, NEW k \in Msgs, k # n, Got(d, k)'
        PROVE  Got(d, k)
    BY <2>1, <2>4 DEF Got
  <2>5. \A k \in Msgs : stage'[k] = "failed" => stage[k] = "failed"  BY <2>1
  <2> QED
    BY <2>2, <2>3, <2>4, <2>5
    DEF FailInv, HandedTraced, WaitingCalled, RefusedByFault, Private
<1>19. ASSUME NEW s \in Servers, NEW c \in Clients, ReadError(s, c) PROVE FailInv'
  BY <1>19, FailQuiet DEF ReadError, RemoveClient
<1>20. ASSUME NEW s \in Servers, NEW c \in Clients, WriteError(s, c) PROVE FailInv'
  BY <1>20, FailQuiet DEF WriteError, RemoveClient
<1>21. ASSUME NEW c \in Clients, GetChatServer(c) PROVE FailInv'
  BY <1>21, FailQuiet DEF GetChatServer
<1>22. ASSUME NEW c \in Clients, Leave(c) PROVE FailInv'
  BY <1>22, FailQuiet DEF Leave
<1>23. ASSUME NEW c \in Clients, NEW u \in Users \cup {Everyone}, Send(c, u) PROVE FailInv'
  BY <1>23, FailQuiet DEF Send
<1>24. ASSUME UNCHANGED vars PROVE FailInv'
  BY <1>24, FailQuiet DEF vars
<1>25. ASSUME StatusRestart PROVE FailInv'
  BY <1>25, FailQuiet DEF StatusRestart, Fault
<1>26. ASSUME NEW c \in Clients, ReadCount(c) PROVE FailInv'
  BY <1>26, FailQuiet DEF ReadCount, Fault
<1> QED
  BY <1>1, <1>2, <1>3, <1>4, <1>5, <1>6, <1>7, <1>8, <1>9, <1>10, <1>11, <1>12, <1>13,
     <1>14, <1>15, <1>16, <1>17, <1>18, <1>19, <1>20, <1>21, <1>22, <1>23, <1>24, <1>25,
     <1>26
  DEF Next, ServerStep, SessionStep, ClientStep

\* A sender is told wrongly that the chat failed only when the reply of a peer was
\* lost, for any number of servers, clients and faults.
THEOREM FailureIsExact == Spec => []FailedIsExact
<1>1. Init => FailInv
  BY DEF Init, FailInv, HandedTraced, WaitingCalled, RefusedByFault, Got
<1>2. ThreadInv /\ DeliveryInv /\ FailInv /\ [Next]_vars => FailInv'
  BY FailStep, SentKeptStep
<1>3. FailInv => FailedIsExact
  BY DEF FailInv, HandedTraced, RefusedByFault, FailedIsExact
<1> QED  BY <1>1, <1>2, <1>3, ThreadInvariant, DeliveryInvariant, PTL DEF Spec

-----------------------------------------------------------------------------
(* The refinement                                                          *)

\* What MessageService calls the answer to m.
Answer(m) == IF stage[m] \in {"ok", "failed", "lost"} THEN stage[m] ELSE "none"

Answers == [m \in Msgs |-> Answer(m)]

Open(m) == stage[m] \in {"wire", "handling"}

\* A message that is not sent has no sender yet.
UnsentInv == \A m \in Msgs : stage[m] = "unsent" => from[m] = None /\ to[m] = None

\* Only sending gives a message its sender.
LEMMA UnsentStep ==
  ASSUME ThreadInv, UnsentInv, SentKept, [Next]_vars
  PROVE  UnsentInv'
<1>1. ASSUME UNCHANGED <<from, to>> PROVE UnsentInv'
  BY <1>1 DEF UnsentInv, SentKept
<1>2. ASSUME NEW s \in Servers, ServerStep(s) PROVE UNCHANGED <<from, to>>
  BY <1>2 DEF ServerStep, PublishCount, ResolveUid, LookupFails, ResolveServer,
     DeliverLocal, CallPeer, PeerAnswers, PeerCallFails, SaveSenderKey,
     SaveRecverKey, Crash, Restart, RedisLost, GetReplyMessage, msgVars
<1>3. ASSUME NEW s \in Servers, NEW c \in Clients, SessionStep(s, c)
      PROVE  UNCHANGED <<from, to>>
  BY <1>3 DEF SessionStep, AddSession, ReadName, ReadPrivate, ReadPublic, ReadError,
     WriteError, msgVars
<1>4. ASSUME NEW c \in Clients, ReadCount(c) \/ GetChatServer(c) \/ Leave(c)
      PROVE  UNCHANGED <<from, to>>
  BY <1>4 DEF ReadCount, GetChatServer, Leave, msgVars
<1>5. ASSUME NEW c \in Clients, NEW u \in Users \cup {Everyone}, Send(c, u)
      PROVE  UnsentInv'
  <2>1. PICK n \in Msgs : /\ stage' = [stage EXCEPT ![n] = "wire"]
                          /\ from' = [from EXCEPT ![n] = c] /\ to' = [to EXCEPT ![n] = u]
    BY <1>5 DEF Send
  <2> QED  BY <2>1 DEF ThreadInv, TypeOK, UnsentInv
<1>6. StatusRestart \/ UNCHANGED vars => UNCHANGED <<from, to>>
  BY DEF StatusRestart, vars, msgVars
<1> QED  BY <1>1, <1>2, <1>3, <1>4, <1>5, <1>6 DEF Next, ClientStep

\* A message is open in MessageService while it is on the wire or being handled.
LEMMA OpenSame ==
  ASSUME ThreadInv, UnsentInv, NEW m \in Msgs
  PROVE  /\ Service!Open(m) <=> Open(m)
         /\ from[m] # None <=> stage[m] # "unsent"
<1>1. from[m] # None <=> stage[m] # "unsent"
  BY RoutingAssumption DEF ThreadInv, SentInv, UnsentInv
<1>2. stage[m] \in Stages  BY DEF ThreadInv, TypeOK
<1> QED  BY <1>1, <1>2 DEF Open, Service!Open, Stages

\* It is m's turn when what its sender wrote before is settled.
LEMMA TurnSame ==
  ASSUME NEW m \in Msgs, \A k \in 1 .. (m - 1) : from[k] = from[m] => Settled(k)
  PROVE  Service!InTurn(m)
<1>1. \A k \in Msgs : k < m => k \in 1 .. (m - 1)  BY RoutingAssumption DEF Msgs
<1> QED  BY <1>1 DEF Service!InTurn, Settled

\* Answers are compared message by message.
LEMMA AnswersSame ==
  ASSUME \A m \in Msgs : Answer(m)' = Answer(m)
  PROVE  UNCHANGED [m \in Msgs |-> IF stage[m] \in {"ok", "failed", "lost"}
                                   THEN stage[m] ELSE "none"]
  BY DEF Answer

\* A step of the servers no user can see.
LEMMA Unseen ==
  ASSUME UNCHANGED <<from, to, inbox, history>>, \A m \in Msgs : Answer(m)' = Answer(m)
  PROVE  UNCHANGED Service!vars
  BY AnswersSame DEF Service!vars

\* In particular one that moves no message.
LEMMA StageUnseen ==
  ASSUME UNCHANGED <<from, to, inbox, history, stage>>
  PROVE  UNCHANGED Service!vars
  BY Unseen DEF Answer

\* Messages that are given up together.
LEMMA GivenUp ==
  ASSUME ThreadInv, UnsentInv, UNCHANGED <<from, to, inbox, history>>,
         NEW M \in SUBSET Msgs, NEW r \in {"failed", "lost"},
         \A m \in M : stage[m] \in {"wire", "handling"},
         \A m \in Msgs : stage'[m] = IF m \in M THEN r ELSE stage[m]
  PROVE  Service!Next
<1>1. M \in SUBSET {m \in Msgs : Service!Open(m)}  BY OpenSame DEF Open
<1>2. Answers' = [m \in Msgs |-> IF m \in M THEN r ELSE Answers[m]]
  BY DEF Answers, Answer
<1>3. Service!GiveUp  BY <1>1, <1>2 DEF Service!GiveUp, Answers, Answer
<1> QED  BY <1>3 DEF Service!Next

\* The message of a thread that refuses it.
LEMMA RefusedGivenUp ==
  ASSUME ThreadInv, UnsentInv, UNCHANGED <<from, to, inbox, history>>,
         NEW s \in Servers, pc[s] \in Busy, Refuse(s)
  PROVE  Service!Next
<1>1. cur[s] \in Msgs /\ stage[cur[s]] = "handling"  BY DEF ThreadInv, CurInv
<1>2. \A m \in Msgs : stage'[m] = IF m \in {cur[s]} THEN "failed" ELSE stage[m]
  BY DEF ThreadInv, TypeOK, Refuse
<1>3. {cur[s]} \in SUBSET Msgs /\ "failed" \in {"failed", "lost"}  BY <1>1
<1> QED  BY <1>1, <1>2, <1>3, GivenUp

\* A message that is handed over by the thread that handles it or by a peer.
LEMMA HandedOver ==
  ASSUME ThreadInv, UnsentInv, OrderInv, NEW c \in Clients, NEW m \in Msgs,
         stage[m] \notin {"unsent", "wire", "ok"}, to[m] = Owner[c],
         \A d \in Clients : ~Got(d, m),
         AsyncSend(c, m), UNCHANGED <<from, to, history, stage>>
  PROVE  Service!Deliver(m, c)
<1>1. from[m] # None  BY OpenSame
<1>2. Service!InTurn(m)  BY TurnSame DEF OrderInv, SettledInTurn
<1>3. \A d \in Clients : ~Service!Received(d, m)  BY DEF Service!Received, Got
<1>4. \A k \in Msgs : Answer(k)' = Answer(k)  BY DEF Answer
<1>5. Answer(m) # "ok"  BY DEF Answer
<1> QED
  BY <1>1, <1>2, <1>3, <1>4, <1>5, AnswersSame DEF Service!Deliver, AsyncSend, Answer

\* What each step of the system is to the users.
LEMMA ServiceStep ==
  ASSUME ThreadInv, DeliveryInv, NameInv, SaveInv, Save2Inv, OrderInv, UnsentInv,
         [Next]_vars
  PROVE  Service!Next \/ UNCHANGED Service!vars
<1> USE DEF ThreadInv, TypeOK, redisVars, ioVars, procVars, clientVars, viewVars, msgVars
<1>1. ASSUME NEW s \in Servers, PublishCount(s) PROVE Service!Next \/ UNCHANGED Service!vars
  BY <1>1, StageUnseen DEF PublishCount
<1>2. ASSUME NEW s \in Servers, ResolveUid(s) PROVE Service!Next \/ UNCHANGED Service!vars
  BY <1>2, StageUnseen, RefusedGivenUp DEF ResolveUid, Working, Continue, Busy
<1>3. ASSUME NEW s \in Servers, LookupFails(s) PROVE Service!Next \/ UNCHANGED Service!vars
  BY <1>3, StageUnseen, RefusedGivenUp DEF LookupFails, Working, Continue, Busy
<1>4. ASSUME NEW s \in Servers, ResolveServer(s)
      PROVE  Service!Next \/ UNCHANGED Service!vars
  BY <1>4, StageUnseen, RefusedGivenUp DEF ResolveServer, Working, Continue, Busy
<1>5. ASSUME NEW s \in Servers, DeliverLocal(s) PROVE Service!Next \/ UNCHANGED Service!vars
  <2>1. cur[s] \in Msgs /\ stage[cur[s]] = "handling" /\ to[cur[s]] \in Users /\ pc[s] = "route"
    BY <1>5 DEF DeliverLocal, Working, CurInv, Busy
  <2>2. CASE Refuse(s) /\ UNCHANGED inbox
    BY <1>5, <2>1, <2>2, RefusedGivenUp DEF DeliverLocal, Busy
  <2>3. ASSUME NEW i \in 1 .. Len(sessions[s]), FirstNamed(sessions[s], to[cur[s]], i),
               AsyncSend(sessions[s][i], cur[s]), Continue(s, "save1")
        PROVE  Service!Next
    <3>1. sessions[s][i] \in Clients /\ Owner[sessions[s][i]] = to[cur[s]]
      BY <2>1, <2>3, FirstNamedOwner
    <3>2. \A d \in Clients : ~Got(d, cur[s])  BY <2>1 DEF DeliveryInv, HandedInv
    <3>3. UNCHANGED <<from, to, history, stage>>
      BY <1>5, <2>3 DEF DeliverLocal, Continue
    <3>4. Service!Deliver(cur[s], sessions[s][i])
      BY <2>1, <2>3, <3>1, <3>2, <3>3, HandedOver
    <3> QED  BY <2>1, <3>1, <3>4 DEF Service!Next
  <2> QED  BY <1>5, <2>2, <2>3 DEF DeliverLocal
<1>6. ASSUME NEW s \in Servers, CallPeer(s) PROVE Service!Next \/ UNCHANGED Service!vars
  BY <1>6, StageUnseen DEF CallPeer, Continue
<1>7. ASSUME NEW s \in Servers, PeerAnswers(s) PROVE Service!Next \/ UNCHANGED Service!vars
  BY <1>7, StageUnseen, RefusedGivenUp DEF PeerAnswers, Working, Continue, Busy
<1>8. ASSUME NEW s \in Servers, PeerCallFails(s)
      PROVE  Service!Next \/ UNCHANGED Service!vars
  BY <1>8, StageUnseen, RefusedGivenUp DEF PeerCallFails, Working, Continue, Busy
<1>9. ASSUME NEW s \in Servers, SaveSenderKey(s)
      PROVE  Service!Next \/ UNCHANGED Service!vars
  <2>1. /\ cur[s] \in Msgs /\ stage[cur[s]] = "handling" /\ Handed(cur[s])
        /\ UNCHANGED <<from, to, inbox, stage>>
    BY <1>9 DEF SaveSenderKey, Working, CurInv, Busy, SaveInv, Continue
  <2>2. CASE redis[s]
    <3>1. Open(cur[s])  BY <2>1 DEF Open
    <3>2. Service!Store(cur[s])
      BY <1>9, <2>1, <2>2, <3>1, OpenSame, AnswersSame, Unseen
      DEF SaveSenderKey, ZAdd, Service!Store, Service!Handed, Service!Received, Handed, Got
    <3> QED  BY <2>1, <3>2 DEF Service!Next
  <2>3. CASE ~redis[s]
    BY <1>9, <2>1, <2>3, StageUnseen DEF SaveSenderKey, ZAdd
  <2> QED  BY <2>2, <2>3
<1>10. ASSUME NEW s \in Servers, SaveRecverKey(s)
       PROVE  Service!Next \/ UNCHANGED Service!vars
  <2>1. /\ cur[s] \in Msgs /\ stage[cur[s]] = "handling" /\ Handed(cur[s])
        /\ UNCHANGED <<from, to, inbox>> /\ stage' = [stage EXCEPT ![cur[s]] = "ok"]
    BY <1>10 DEF SaveRecverKey, Working, CurInv, Busy, SaveInv
  <2>2. Service!Open(cur[s]) /\ Service!Handed(cur[s])
    BY <2>1, OpenSame DEF Open, Service!Handed, Service!Received, Handed, Got
  <2>3. \/ UNCHANGED history
        \/ /\ cur[s] \in history[<<Owner[from[cur[s]]], to[cur[s]]>>]
           /\ history' = [history EXCEPT ![<<to[cur[s]], Owner[from[cur[s]]]>>] =
                            @ \cup {cur[s]}]
    BY <1>10 DEF SaveRecverKey, Working, ZAdd, Save2Inv
  <2>4. Answers' = [Answers EXCEPT ![cur[s]] = "ok"]
    BY <2>1 DEF Answers, Answer
  <2>5. PICK m \in Msgs : m = cur[s]  BY <2>1
  <2>6. Service!Confirm(m)
    <3>1. /\ m = cur[s] /\ Service!Open(m) /\ Service!Handed(m)
          /\ UNCHANGED <<from, to, inbox>> /\ Answers' = [Answers EXCEPT ![m] = "ok"]
      BY <2>1, <2>2, <2>4, <2>5
    <3>2. \/ UNCHANGED history
          \/ /\ m \in history[<<Owner[from[m]], to[m]>>]
             /\ history' = [history EXCEPT ![<<to[m], Owner[from[m]]>>] = @ \cup {m}]
      BY <2>3, <3>1
    <3> QED  BY <3>1, <3>2 DEF Service!Confirm, Answers, Answer
  <2> QED  BY <2>5, <2>6 DEF Service!Next
<1>11. ASSUME NEW s \in Servers, Crash(s) PROVE Service!Next \/ UNCHANGED Service!vars
  <2> DEFINE M == {m \in Msgs : m = cur[s] \/ (stage[m] = "wire" /\ at[from[m]] = s)}
  <2>1. \A m \in M : stage[m] \in {"wire", "handling"}
    BY ZeroNotMsg DEF CurInv
  <2>2. \A m \in Msgs : stage'[m] = IF m \in M THEN "lost" ELSE stage[m]
    BY <1>11 DEF Crash
  <2>3. M \in SUBSET Msgs /\ UNCHANGED <<from, to, inbox, history>>
    BY <1>11 DEF Crash
  <2> HIDE DEF M
  <2> QED  BY <2>1, <2>2, <2>3, GivenUp
<1>12. ASSUME NEW s \in Servers, Restart(s) PROVE Service!Next \/ UNCHANGED Service!vars
  BY <1>12, StageUnseen DEF Restart
<1>13. ASSUME NEW s \in Servers, RedisLost(s) PROVE Service!Next \/ UNCHANGED Service!vars
  BY <1>13, StageUnseen DEF RedisLost
<1>14. ASSUME NEW s \in Servers, NEW m \in Msgs, GetReplyMessage(s, m)
       PROVE  Service!Next \/ UNCHANGED Service!vars
  <2>1. /\ call[m].st = "sent" /\ to[m] \in Users /\ stage[m] \notin {"unsent", "wire", "ok"}
        /\ UNCHANGED <<from, to, history, stage>>
    BY <1>14 DEF GetReplyMessage, DeliveryInv, CallInv, OrderInv, OkAnswered
  <2>2. CASE UNCHANGED inbox  BY <2>1, <2>2, StageUnseen
  <2>3. ASSUME NEW i \in 1 .. Len(sessions[s]), FirstNamed(sessions[s], to[m], i),
               AsyncSend(sessions[s][i], m)
        PROVE  Service!Next
    <3>1. sessions[s][i] \in Clients /\ Owner[sessions[s][i]] = to[m]
      BY <2>1, <2>3, FirstNamedOwner
    <3>2. \A d \in Clients : ~Got(d, m)  BY <2>1 DEF DeliveryInv, HandedInv
    <3>3. Service!Deliver(m, sessions[s][i])
      BY <2>1, <2>3, <3>1, <3>2, HandedOver
    <3> QED  BY <3>1, <3>3 DEF Service!Next
  <2> QED  BY <1>14, <2>2, <2>3 DEF GetReplyMessage
<1>15. ASSUME NEW s \in Servers, NEW c \in Clients, AddSession(s, c)
       PROVE  Service!Next \/ UNCHANGED Service!vars
  BY <1>15, StageUnseen DEF AddSession
<1>16. ASSUME NEW s \in Servers, NEW c \in Clients, ReadName(s, c)
       PROVE  Service!Next \/ UNCHANGED Service!vars
  BY <1>16, StageUnseen DEF ReadName
<1>17. ASSUME NEW s \in Servers, NEW c \in Clients, ReadPrivate(s, c)
       PROVE  Service!Next \/ UNCHANGED Service!vars
  <2>1. \E n \in Msgs : stage[n] = "wire" /\ stage' = [stage EXCEPT ![n] = "handling"]
    BY <1>17 DEF ReadPrivate, NextOnWire
  <2>2. \A k \in Msgs : Answer(k)' = Answer(k)  BY <2>1 DEF Answer
  <2> QED  BY <1>17, <2>2, Unseen DEF ReadPrivate
<1>18. ASSUME NEW s \in Servers, NEW c \in Clients, ReadPublic(s, c)
       PROVE  Service!Next \/ UNCHANGED Service!vars
  <2>1. PICK n \in Msgs :
             /\ NextOnWire(c, n) /\ to[n] = Everyone /\ stage' = [stage EXCEPT ![n] = "ok"]
             /\ inbox' = [d \in Clients |-> IF d \in Members(sessions[s]) \ {c}
                                            THEN Append(inbox[d], n) ELSE inbox[d]]
    BY <1>18 DEF ReadPublic
  <2>2. pc[s] = "idle" /\ at[c] = s /\ UNCHANGED <<from, to, history>>
    BY <1>18 DEF ReadPublic, Readable, IoIdle
  <2>3. stage[n] = "wire" /\ from[n] = c  BY <2>1 DEF NextOnWire
  <2>4. Service!Open(n)  BY <2>3, OpenSame DEF Open
  <2>5. Service!InTurn(n)
    <3>1. \A k \in 1 .. (n - 1) : from[k] = from[n] => Settled(k)
      BY <2>1, <2>2, ReadInTurn
    <3> QED  BY <3>1, TurnSame
  <2>6. \E D \in SUBSET (Clients \ {from[n]}) :
          inbox' = [d \in Clients |-> IF d \in D THEN Append(inbox[d], n) ELSE inbox[d]]
    <3>1. Members(sessions[s]) \subseteq Clients  BY MembersType
    <3> QED  BY <2>1, <2>3, <3>1
  <2>7. Answers' = [Answers EXCEPT ![n] = "ok"]
    BY <2>1 DEF Answers, Answer
  <2>8. Service!Broadcast(n)
    BY <2>1, <2>2, <2>4, <2>5, <2>6, <2>7 DEF Service!Broadcast, Answers, Answer
  <2> QED  BY <2>8 DEF Service!Next
<1>19. ASSUME NEW s \in Servers, NEW c \in Clients, ReadError(s, c)
       PROVE  Service!Next \/ UNCHANGED Service!vars
  <2> DEFINE M == {m \in Msgs : stage[m] = "wire" /\ from[m] = c}
  <2>1. \A m \in M : stage[m] \in {"wire", "handling"}
    OBVIOUS
  <2>2. \A m \in Msgs : stage'[m] = IF m \in M THEN "lost" ELSE stage[m]
    BY <1>19 DEF ReadError
  <2>3. M \in SUBSET Msgs /\ UNCHANGED <<from, to, inbox, history>>
    BY <1>19 DEF ReadError
  <2> HIDE DEF M
  <2> QED  BY <2>1, <2>2, <2>3, GivenUp
<1>20. ASSUME NEW s \in Servers, NEW c \in Clients, WriteError(s, c)
       PROVE  Service!Next \/ UNCHANGED Service!vars
  BY <1>20, StageUnseen DEF WriteError
<1>21. ASSUME NEW c \in Clients, GetChatServer(c)
       PROVE  Service!Next \/ UNCHANGED Service!vars
  BY <1>21, StageUnseen DEF GetChatServer
<1>22. ASSUME NEW c \in Clients, Leave(c) PROVE Service!Next \/ UNCHANGED Service!vars
  BY <1>22, StageUnseen DEF Leave
<1>23. ASSUME NEW c \in Clients, NEW u \in Users \cup {Everyone}, Send(c, u)
       PROVE  Service!Next \/ UNCHANGED Service!vars
  <2>1. PICK n \in Msgs : /\ stage[n] = "unsent" /\ stage' = [stage EXCEPT ![n] = "wire"]
                          /\ \A k \in 1 .. (n - 1) : stage[k] # "unsent"
                          /\ from' = [from EXCEPT ![n] = c] /\ to' = [to EXCEPT ![n] = u]
    BY <1>23 DEF Send
  <2>2. from[n] = None  BY <2>1 DEF UnsentInv
  <2>3. \A k \in Msgs : k < n => from[k] # None
    BY <2>1, RoutingAssumption DEF SentInv, Msgs
  <2>4. \A k \in Msgs : Answer(k)' = Answer(k)  BY <2>1 DEF Answer
  <2>5. UNCHANGED <<inbox, history>>  BY <1>23 DEF Send
  <2>6. Service!Write
    BY <2>1, <2>2, <2>3, <2>4, <2>5, AnswersSame DEF Service!Write
  <2> QED  BY <2>6 DEF Service!Next
<1>24. ASSUME UNCHANGED vars PROVE Service!Next \/ UNCHANGED Service!vars
  BY <1>24, StageUnseen DEF vars
<1>25. ASSUME StatusRestart PROVE Service!Next \/ UNCHANGED Service!vars
  BY <1>25, StageUnseen DEF StatusRestart
<1>26. ASSUME NEW c \in Clients, ReadCount(c) PROVE Service!Next \/ UNCHANGED Service!vars
  BY <1>26, StageUnseen DEF ReadCount
<1> QED
  BY <1>1, <1>2, <1>3, <1>4, <1>5, <1>6, <1>7, <1>8, <1>9, <1>10, <1>11, <1>12, <1>13,
     <1>14, <1>15, <1>16, <1>17, <1>18, <1>19, <1>20, <1>21, <1>22, <1>23, <1>24, <1>25,
     <1>26
  DEF Next, ServerStep, SessionStep, ClientStep

\* The names sessions carry, and the context between the two ZADDs.
LEMMA ServiceInvariants == Spec => [](NameInv /\ Save2Inv /\ UnsentInv)
<1>1. Init => NameInv /\ Save2Inv /\ UnsentInv /\ SenderKeyNotBehind
  BY InitRight, InitHistory DEF Init, UnsentInv
<1>2. ThreadInv /\ NameInv /\ [Next]_vars => NameInv'  BY NameStep DEF ThreadInv
<1>3. /\ ThreadInv /\ DeliveryInv /\ NameInv /\ SaveInv /\ HistoryWasDelivered
      /\ Save2Inv /\ SenderKeyNotBehind /\ [Next]_vars
      => Save2Inv' /\ SenderKeyNotBehind'
  BY StoreStep, EvidenceStep
<1>4. ThreadInv /\ UnsentInv /\ [Next]_vars => UnsentInv'
  BY UnsentStep, SentKeptStep
<1> QED
  BY <1>1, <1>2, <1>3, <1>4, ThreadInvariant, DeliveryInvariant, HistoryInvariant, PTL
  DEF Spec

\* The servers, StatusServer and Redis together implement the service their users see:
\* any interleaving of the threads, over any crashes, broken calls and lost connections
\* of any number of servers, is one of its behaviours.
THEOREM ImplementsService == Spec => ServesMessages
<1>1. Init => Service!Init
  BY DEF Init, Service!Init
<1>2. /\ ThreadInv /\ DeliveryInv /\ NameInv /\ SaveInv /\ Save2Inv /\ OrderInv
      /\ UnsentInv /\ [Next]_vars
      => [Service!Next]_(Service!vars)
  BY ServiceStep
<1> QED
  BY <1>1, <1>2, ThreadInvariant, DeliveryInvariant, HistoryInvariant, OrderInvariant,
    ServiceInvariants, PTL
  DEF Spec, ServesMessages, Service!Spec

-----------------------------------------------------------------------------
(* Nobody waits for somebody who waits                                     *)

(***************************************************************************)
(* The part of EveryMessageSettled that needs no fairness: as long as the  *)
(* thread of a server is in a handler, it or a thread it waits for has a   *)
(* step to take, and with each of these steps less is left.                *)
(***************************************************************************)

\* The io thread of s has its next step before it, and waits for nobody.
CanGo(s) ==
  /\ up[s]
  /\ \/ pc[s] \in {"publish", "uid", "server", "save1", "save2"}
     \/ pc[s] = "route" /\ dst[s] \in Servers
     \/ pc[s] = "wait" /\ call[cur[s]].st \in {"found", "absent", "lost"}

\* It waits for a server which runs and whose gRPC threads can have the mutex, now or
\* when the thread that has it has published.
PeerCanGo(s) ==
  /\ pc[s] = "wait" /\ call[cur[s]].st = "sent"
  /\ LET t == call[cur[s]].dst IN t \in Servers /\ up[t] /\ (MutexFree(t) \/ CanGo(t))

NobodyStuck == \A s \in Servers : pc[s] = "idle" \/ CanGo(s) \/ PeerCanGo(s)

\* A thread routes a message to a server it was told, and waits for a server that runs.
CalledRuns ==
  /\ \A s \in Servers : pc[s] = "route" => dst[s] \in Servers
  /\ \A m \in Msgs : call[m].st = "sent" => call[m].dst \in Servers /\ up[call[m].dst]

\* How many steps are left until the io thread of s is idle, at most.
Left(s) ==
  CASE pc[s] = "uid" -> 7
    [] pc[s] = "server" -> 6
    [] pc[s] = "route" -> 5
    [] pc[s] = "wait" -> IF call[cur[s]].st = "sent" THEN 4 ELSE 3
    [] pc[s] = "save1" -> 2
    [] pc[s] \in {"save2", "publish"} -> 1
    [] pc[s] = "idle" -> 0

\* A step of the thread, or of the gRPC thread it waits for, leaves less to do; no
\* other step, of whatever server or client, leaves more to a thread in a handler.
Advances(s) ==
  /\ pc[s] # "idle" => Left(s)' <= Left(s)
  /\ IoStep(s) => Left(s)' < Left(s)
  /\ pc[s] = "wait" /\ (\E t \in Servers : GetReplyMessage(t, cur[s])) => Left(s)' < Left(s)

\* A step that leaves the thread and its call alone.
LEMMA LeftKept ==
  ASSUME NEW s \in Servers, pc'[s] = pc[s], cur'[s] = cur[s],
         pc[s] = "wait" => call'[cur[s]].st = call[cur[s]].st
  PROVE  Left(s)' = Left(s)
  BY DEF Left

\* A thread that has finished, or has been refused, has nothing left.
LEMMA LeftIdle ==
  ASSUME ThreadInv, NEW s \in Servers, pc'[s] = "idle"
  PROVE  Left(s)' = 0 /\ Left(s) \in 0 .. 7 /\ (pc[s] # "idle" => Left(s) > 0)
  BY DEF ThreadInv, TypeOK, PCs, Left

\* Each step of a handler leaves less of it.
LEMMA IoStepAdvances ==
  ASSUME ThreadInv, NEW s \in Servers, IoStep(s)
  PROVE  Left(s)' < Left(s)
<1> USE DEF Working
<1>1. pc[s] # "idle" /\ DOMAIN pc = Servers /\ DOMAIN call = Msgs
  BY DEF ThreadInv, TypeOK, IoStep, PublishCount, ResolveUid, ResolveServer, DeliverLocal,
         CallPeer, PeerAnswers, SaveSenderKey, SaveRecverKey
<1>2. pc'[s] = "idle" => Left(s)' < Left(s)  BY <1>1, LeftIdle
<1>3. CASE PublishCount(s)  BY <1>1, <1>2, <1>3 DEF PublishCount
<1>4. CASE ResolveUid(s)
  BY <1>1, <1>2, <1>4 DEF ResolveUid, Continue, Refuse, Left
<1>5. CASE ResolveServer(s)
  BY <1>1, <1>2, <1>5 DEF ResolveServer, Continue, Refuse, Left
<1>6. CASE DeliverLocal(s)
  BY <1>1, <1>2, <1>6 DEF DeliverLocal, Continue, Refuse, Left
<1>7. CASE CallPeer(s)
  BY <1>1, <1>7 DEF CallPeer, Continue, Left
<1>8. CASE PeerAnswers(s)
  BY <1>1, <1>2, <1>8 DEF PeerAnswers, Continue, Refuse, Left
<1>9. CASE SaveSenderKey(s)
  BY <1>1, <1>9 DEF SaveSenderKey, Continue, Left
<1>10. CASE SaveRecverKey(s)  BY <1>1, <1>2, <1>10 DEF SaveRecverKey
<1> QED
  BY <1>3, <1>4, <1>5, <1>6, <1>7, <1>8, <1>9, <1>10 DEF IoStep

\* So does the answer of a peer.
LEMMA AnswerAdvances ==
  ASSUME ThreadInv, NEW s \in Servers, NEW t \in Servers,
         pc[s] = "wait", GetReplyMessage(t, cur[s])
  PROVE  Left(s)' < Left(s)
<1>1. cur[s] \in Msgs  BY DEF ThreadInv, CurInv, Busy
<1>2. call[cur[s]].st = "sent" /\ call'[cur[s]].st # "sent" /\ UNCHANGED <<pc, cur>>
  BY <1>1 DEF GetReplyMessage, ThreadInv, TypeOK, ioVars
<1> QED  BY <1>2 DEF Left

\* A step of one io thread, with the call of its message, is nothing to the others.
LEMMA LeftToOthers ==
  ASSUME ThreadInv, NEW s \in Servers,
         \A t \in Servers : t # s => pc'[t] = pc[t] /\ cur'[t] = cur[t],
         \A m \in Msgs : m # cur[s] => call'[m] = call[m],
         pc[s] \in Busy \/ call' = call
  PROVE  \A t \in Servers : t # s => Left(t)' = Left(t)
<1> SUFFICES ASSUME NEW t \in Servers, t # s
             PROVE  Left(t)' = Left(t)
  OBVIOUS
<1>1. pc[t] = "wait" => call'[cur[t]].st = call[cur[t]].st
  BY ZeroNotMsg DEF ThreadInv, CurInv, OneHandler, Busy
<1> QED  BY <1>1, LeftKept

\* A step that touches no thread and no call.
LEMMA LeftQuiet ==
  ASSUME UNCHANGED <<pc, cur, call>>
  PROVE  \A s \in Servers : Left(s)' = Left(s)
  BY DEF Left

\* A step of an io thread that had nothing to do.
LEMMA LeftBegins ==
  ASSUME ThreadInv, NEW s \in Servers, pc[s] = "idle",
         \A t \in Servers : t # s => pc'[t] = pc[t] /\ cur'[t] = cur[t],
         UNCHANGED call
  PROVE  \A t \in Servers : pc[t] # "idle" => Left(t)' = Left(t)
  BY LeftToOthers

\* No step leaves more to a thread in a handler.
LEMMA LeftStep ==
  ASSUME ThreadInv, [Next]_vars, NEW t \in Servers, pc[t] # "idle"
  PROVE  Left(t)' <= Left(t)
<1> USE DEF ioVars
<1>0. Left(t) \in 0 .. 7  BY DEF ThreadInv, TypeOK, PCs, Left
<1>1. ASSUME NEW s \in Servers, IoStep(s) PROVE Left(t)' <= Left(t)
  <2>1. \A u \in Servers : u # s => pc'[u] = pc[u] /\ cur'[u] = cur[u]
    BY <1>1
    DEF ThreadInv, TypeOK, IoStep, PublishCount, ResolveUid, ResolveServer, DeliverLocal,
        CallPeer, PeerAnswers, SaveSenderKey, SaveRecverKey, Continue, Refuse
  <2>2. \A m \in Msgs : m # cur[s] => call'[m] = call[m]
    BY <1>1
    DEF ThreadInv, TypeOK, IoStep, PublishCount, ResolveUid, ResolveServer, DeliverLocal,
        CallPeer, PeerAnswers, SaveSenderKey, SaveRecverKey
  <2>3. pc[s] \in Busy \/ call' = call
    BY <1>1
    DEF IoStep, PublishCount, ResolveUid, ResolveServer, DeliverLocal, CallPeer,
        PeerAnswers, SaveSenderKey, SaveRecverKey, Working, Busy
  <2>4. t # s => Left(t)' = Left(t)  BY <2>1, <2>2, <2>3, LeftToOthers
  <2>5. Left(s)' < Left(s)  BY <1>1, IoStepAdvances
  <2>6. CASE t = s
    <3>1. t = s => Left(t)' \in 0 .. 7
      <4>1. pc' \in [Servers -> PCs]  BY TypeStep DEF ThreadInv, TypeOK
      <4> QED  BY <4>1 DEF PCs, Left
    <3> QED  BY <1>0, <2>5, <2>6, <3>1
  <2>7. CASE t # s  BY <1>0, <2>4, <2>7
  <2> QED  BY <2>6, <2>7
<1>2. ASSUME NEW s \in Servers, LookupFails(s) \/ PeerCallFails(s)
      PROVE  Left(t)' <= Left(t)
  <2>1. /\ \A u \in Servers : u # s => pc'[u] = pc[u] /\ cur'[u] = cur[u]
        /\ call' = call /\ pc'[s] = "idle"
    BY <1>2 DEF LookupFails, PeerCallFails, Refuse, ThreadInv, TypeOK
  <2>2. t # s => Left(t)' = Left(t)  BY <2>1, LeftToOthers
  <2>3. t = s => Left(t)' = 0  BY <2>1, LeftIdle
  <2> QED  BY <1>0, <2>2, <2>3
<1>3. ASSUME NEW s \in Servers, Crash(s) PROVE Left(t)' <= Left(t)
  <2>1. CASE t = s
    <3>1. pc'[t] = "idle"  BY <1>3, <2>1 DEF Crash, ThreadInv, TypeOK
    <3> QED  BY <1>0, <3>1, LeftIdle
  <2>2. CASE t # s
    <3>1. pc'[t] = pc[t] /\ cur'[t] = cur[t]
      BY <1>3, <2>2 DEF Crash, ThreadInv, TypeOK
    <3>2. pc[t] = "wait" => call'[cur[t]].st = call[cur[t]].st \/ call'[cur[t]].st = "lost"
      BY <1>3 DEF Crash, ThreadInv, CurInv, Busy
    <3>3. CASE pc[t] = "wait"  BY <3>1, <3>2, <3>3 DEF Left
    <3>4. CASE pc[t] # "wait"  BY <1>0, <3>1, <3>4, LeftKept
    <3> QED  BY <3>3, <3>4
  <2> QED  BY <2>1, <2>2
<1>4. ASSUME NEW s \in Servers, NEW m \in Msgs, GetReplyMessage(s, m)
      PROVE  Left(t)' <= Left(t)
  <2>1. UNCHANGED <<pc, cur>>  BY <1>4 DEF GetReplyMessage
  <2>2. CASE pc[t] = "wait" /\ cur[t] = m
    <3>1. Left(t)' < Left(t)  BY <1>4, <2>2, AnswerAdvances
    <3>2. Left(t)' \in {3, 4}  BY <2>1, <2>2 DEF Left
    <3> QED  BY <1>0, <3>1, <3>2
  <2>3. CASE ~(pc[t] = "wait" /\ cur[t] = m)
    <3>1. \A k \in Msgs : k # m => call'[k] = call[k]
      BY <1>4 DEF GetReplyMessage, ThreadInv, TypeOK
    <3>2. pc[t] = "wait" => call'[cur[t]].st = call[cur[t]].st
      BY <2>3, <3>1 DEF ThreadInv, CurInv, Busy
    <3> QED  BY <1>0, <2>1, <3>2, LeftKept
  <2> QED  BY <2>2, <2>3
<1>5. ASSUME NEW s \in Servers, NEW c \in Clients,
             AddSession(s, c) \/ ReadPrivate(s, c) \/ ReadError(s, c) \/ WriteError(s, c)
      PROVE  Left(t)' <= Left(t)
  <2>1. /\ pc[s] = "idle" /\ UNCHANGED call
        /\ \A u \in Servers : u # s => pc'[u] = pc[u] /\ cur'[u] = cur[u]
    BY <1>5
    DEF AddSession, ReadPrivate, ReadError, WriteError, RemoveClient, Readable, IoIdle,
        ThreadInv, TypeOK
  <2> QED  BY <1>0, <2>1, LeftBegins
<1>6. ASSUME UNCHANGED <<pc, cur, call>> PROVE Left(t)' <= Left(t)
  BY <1>0, <1>6, LeftQuiet
<1> QED
  BY <1>1, <1>2, <1>3, <1>4, <1>5, <1>6
  DEF Next, ServerStep, SessionStep, ClientStep, IoStep, Restart, RedisLost, ReadName,
      ReadPublic, GetChatServer, Leave, Send, StatusRestart, ReadCount, vars

\* A server that is called runs, until it crashes and its calls are lost.
LEMMA CalledRunsStep ==
  ASSUME ThreadInv, CalledRuns, [Next]_vars
  PROVE  CalledRuns'
<1> USE DEF ioVars
<1>1. ASSUME UNCHANGED <<up, call>>,
             \A s \in Servers : pc'[s] = "route" => dst'[s] = dst[s] /\ pc[s] = "route"
      PROVE  CalledRuns'
  BY <1>1 DEF CalledRuns
<1>2. ASSUME NEW s \in Servers,
             \/ PublishCount(s) \/ ResolveUid(s) \/ LookupFails(s) \/ DeliverLocal(s)
             \/ PeerAnswers(s) \/ PeerCallFails(s) \/ SaveSenderKey(s) \/ SaveRecverKey(s)
      PROVE  CalledRuns'
  <2>1. UNCHANGED <<up, call>>
    BY <1>2
    DEF PublishCount, ResolveUid, LookupFails, DeliverLocal, PeerAnswers, PeerCallFails,
        SaveSenderKey, SaveRecverKey, procVars
  <2>2. pc'[s] # "route"
    BY <1>2
    DEF PublishCount, ResolveUid, LookupFails, DeliverLocal, PeerAnswers, PeerCallFails,
        SaveSenderKey, SaveRecverKey, Refuse, Continue, ThreadInv, TypeOK
  <2>3. \A t \in Servers : t # s => pc'[t] = pc[t] /\ dst'[t] = dst[t]
    BY <1>2
    DEF PublishCount, ResolveUid, LookupFails, DeliverLocal, PeerAnswers, PeerCallFails,
        SaveSenderKey, SaveRecverKey, Refuse, Continue, ThreadInv, TypeOK
  <2> QED  BY <1>1, <2>1, <2>2, <2>3
<1>3. ASSUME NEW s \in Servers, ResolveServer(s) PROVE CalledRuns'
  <2>1. UNCHANGED <<up, call>>  BY <1>3 DEF ResolveServer, procVars
  <2>2. \A t \in Servers : t # s => pc'[t] = pc[t] /\ dst'[t] = dst[t]
    BY <1>3 DEF ResolveServer, Refuse, Continue, ThreadInv, TypeOK
  <2>3. to[cur[s]] \in Users
    BY <1>3 DEF ResolveServer, Working, ThreadInv, CurInv, Busy
  <2>4. pc'[s] = "route" => dst'[s] \in Servers
    BY <1>3, <2>3 DEF ResolveServer, Refuse, Continue, ThreadInv, TypeOK
  <2> QED  BY <2>1, <2>2, <2>4 DEF CalledRuns
<1>4. ASSUME NEW s \in Servers, CallPeer(s) PROVE CalledRuns'
  <2>1. UNCHANGED <<up, dst>> /\ pc[s] = "route"  BY <1>4 DEF CallPeer, Working, procVars
  <2>2. \A t \in Servers : pc'[t] = "route" => pc[t] = "route"
    BY <1>4 DEF CallPeer, Continue, ThreadInv, TypeOK
  <2>3. dst[s] \in Servers  BY <2>1 DEF CalledRuns
  <2>4. /\ \A m \in Msgs : m # cur[s] => call'[m] = call[m]
        /\ \A m \in Msgs : m = cur[s] =>
             call'[m] = [st |-> IF up[dst[s]] THEN "sent" ELSE "lost", dst |-> dst[s]]
    BY <1>4 DEF CallPeer, ThreadInv, TypeOK
  <2>5. \A m \in Msgs : call'[m].st = "sent" => call'[m].dst \in Servers /\ up[call'[m].dst]
    BY <2>3, <2>4 DEF CalledRuns
  <2>6. \A t \in Servers : pc'[t] = "route" => dst'[t] \in Servers
    BY <2>1, <2>2 DEF CalledRuns
  <2> QED  BY <2>1, <2>5, <2>6 DEF CalledRuns
<1>5. ASSUME NEW s \in Servers, Crash(s) PROVE CalledRuns'
  <2>1. \A t \in Servers : t # s => pc'[t] = pc[t] /\ dst'[t] = dst[t] /\ up'[t] = up[t]
    BY <1>5 DEF Crash, ThreadInv, TypeOK
  <2>2. pc'[s] = "idle"  BY <1>5 DEF Crash, ThreadInv, TypeOK
  <2>3. \A m \in Msgs : call'[m] = IF call[m].st = "sent" /\ call[m].dst = s
                                   THEN [st |-> "lost", dst |-> s] ELSE call[m]
    BY <1>5 DEF Crash
  <2>4. ASSUME NEW m \in Msgs, call'[m].st = "sent"
        PROVE  call'[m].dst \in Servers /\ up'[call'[m].dst]
    <3>1. call'[m] = call[m] /\ call[m].dst # s  BY <2>3, <2>4
    <3> QED  BY <2>1, <2>4, <3>1 DEF CalledRuns
  <2> QED  BY <2>1, <2>2, <2>4 DEF CalledRuns
<1>6. ASSUME NEW s \in Servers, Restart(s) PROVE CalledRuns'
  <2>1. UNCHANGED <<pc, dst, call>> /\ \A t \in Servers : up[t] => up'[t]
    BY <1>6 DEF Restart, ThreadInv, TypeOK
  <2> QED  BY <2>1 DEF CalledRuns
<1>7. ASSUME NEW s \in Servers, NEW m \in Msgs, GetReplyMessage(s, m) PROVE CalledRuns'
  <2>1. UNCHANGED <<pc, dst, up>>  BY <1>7 DEF GetReplyMessage, procVars
  <2>2. \A k \in Msgs : call'[k].st = "sent" => call'[k] = call[k]
    BY <1>7 DEF GetReplyMessage, ThreadInv, TypeOK
  <2> QED  BY <2>1, <2>2 DEF CalledRuns
<1>8. ASSUME NEW s \in Servers, NEW c \in Clients,
             AddSession(s, c) \/ ReadPrivate(s, c) \/ ReadError(s, c) \/ WriteError(s, c)
      PROVE  CalledRuns'
  <2>1. /\ UNCHANGED <<up, call, dst>> /\ pc'[s] # "route"
        /\ \A t \in Servers : t # s => pc'[t] = pc[t]
    BY <1>8
    DEF AddSession, ReadPrivate, ReadError, WriteError, RemoveClient, procVars, ThreadInv,
        TypeOK
  <2> QED  BY <1>1, <2>1
<1>9. ASSUME UNCHANGED <<up, call, pc, dst>> PROVE CalledRuns'
  BY <1>9 DEF CalledRuns
<1> QED
  BY <1>2, <1>3, <1>4, <1>5, <1>6, <1>7, <1>8, <1>9
  DEF Next, ServerStep, SessionStep, ClientStep, RedisLost, ReadName, ReadPublic,
      GetChatServer, Leave, Send, StatusRestart, ReadCount, procVars, vars

LEMMA CalledRunsInvariant == Spec => [](ThreadInv /\ FailInv /\ CalledRuns)
<1>1. Init => FailInv /\ CalledRuns
  BY DEF Init, FailInv, HandedTraced, WaitingCalled, RefusedByFault, Got, CalledRuns
<1>2. ThreadInv /\ DeliveryInv /\ FailInv /\ [Next]_vars => FailInv'
  BY FailStep, SentKeptStep
<1>3. ThreadInv /\ CalledRuns /\ [Next]_vars => CalledRuns'
  BY CalledRunsStep
<1> QED
  BY <1>1, <1>2, <1>3, ThreadInvariant, DeliveryInvariant, PTL DEF Spec

\* No io thread is stuck: one in a handler can take its next step, or waits in
\* GetReplyMessage for a server that runs and whose mutex is free, or is held by a thread
\* that waits for nobody.  However many servers call each other, none waits, in however
\* many steps, for itself.
THEOREM HandlersNeverStuck == Spec => []NobodyStuck
<1>1. ThreadInv /\ FailInv /\ CalledRuns => NobodyStuck
  <2> SUFFICES ASSUME ThreadInv, FailInv, CalledRuns, NEW s \in Servers, pc[s] # "idle"
               PROVE  CanGo(s) \/ PeerCanGo(s)
    BY DEF NobodyStuck
  <2>1. up[s] /\ pc[s] \in PCs  BY DEF ThreadInv, TypeOK, DownInv
  <2>2. CASE pc[s] # "wait"  BY <2>1, <2>2 DEF CanGo, CalledRuns, PCs
  <2>3. CASE pc[s] = "wait"
    <3>1. cur[s] \in Msgs  BY <2>3 DEF ThreadInv, CurInv, Busy
    <3>2. call[cur[s]].st \in {"sent", "found", "absent", "lost"}
      BY <2>3, <3>1 DEF FailInv, WaitingCalled, ThreadInv, TypeOK, Calls
    <3>3. CASE call[cur[s]].st # "sent"  BY <2>1, <2>3, <3>2, <3>3 DEF CanGo
    <3>4. CASE call[cur[s]].st = "sent"
      BY <2>3, <3>1, <3>4 DEF PeerCanGo, CanGo, CalledRuns, MutexFree
    <3> QED  BY <3>3, <3>4
  <2> QED  BY <2>2, <2>3
<1> QED  BY <1>1, CalledRunsInvariant, PTL

\* A handler ends: what is left of it never grows, whatever the others do, and each step
\* of its thread, and the answer of the peer it waits for, leaves less.  So seven of these
\* steps settle a message that is being handled, for any number of servers and messages.
THEOREM HandlersEnd == Spec => [][\A s \in Servers : Advances(s)]_vars
<1>1. ThreadInv /\ [Next]_vars => [\A s \in Servers : Advances(s)]_vars
  BY LeftStep, IoStepAdvances, AnswerAdvances DEF Advances
<1> QED  BY <1>1, ThreadInvariant, PTL DEF Spec
=============================================================================
