----------------------------- MODULE ChatRouting -----------------------------
(***************************************************************************)
(* Private and public message routing between several ChatServer           *)
(* processes, the StatusServer that assigns users to them and the Redis    *)
(* store they share.                                                       *)
(*                                                                         *)
(* Every ChatServer runs one io thread (accepting, reading, handling a     *)
(* message from start to end, blocking in its RPCs) and a pool of gRPC     *)
(* threads that run ChatServiceImpl::GetReplyMessage for the other server. *)
(* The two share the session vector and its mutex.  A handler is split     *)
(* here wherever another thread or process can act in between: at every    *)
(* RPC, at every Redis command, and between the change of the session      *)
(* vector and the write of its size to Redis, which happen under one lock. *)
(***************************************************************************)
EXTENDS Naturals, Sequences, SequencesExt

CONSTANTS
  Users,       (* names a message can be addressed to                       *)
  Registered,  (* the users that have an account in MySQL                   *)
  Servers,     (* the ChatServer processes StatusServer is configured with  *)
  Healthy,     (* those its start-up health checks found alive              *)
  Clients,     (* client processes: each logs in and connects at most once  *)
  Owner,       (* the account each client process logs in with              *)
  MaxMsgs,     (* bound: messages sent by all clients together              *)
  MaxFaults,   (* bound: crashes, broken RPCs and lost Redis connections    *)
  None,        (* no server, no client; the name "unname" of a new session  *)
  Everyone     (* the addressee of a public message                         *)

ASSUME RoutingAssumption ==
  /\ Registered \subseteq Users
  /\ Healthy \subseteq Servers
  /\ Owner \in [Clients -> Registered]
  /\ MaxMsgs \in Nat /\ MaxFaults \in Nat
  /\ None \notin Users \cup Servers \cup Clients
  /\ Everyone \notin Users

Msgs == 1 .. MaxMsgs

VARIABLES
  userServer, (* StatusServer: user_server_map, None when there is no entry  *)
  asking,     (* the client GetChatServer runs for; its lock admits one      *)
  seen,       (* the counts it has read, None before                         *)
  count,      (* Redis: the connection count stored under a service key      *)
  history,    (* Redis: the messages in the sorted set history:a:b           *)
  up,         (* the server process is running                               *)
  redis,      (* the server's only hiredis context still works               *)
  sessions,   (* TcpChatServer::sessions, a vector                           *)
  pc,         (* where the server's io thread is                             *)
  cur,        (* the message the io thread is handling, 0 for none           *)
  dst,        (* the server GetUserServer named for it                       *)
  phase,      (* what has become of a client and its connection              *)
  at,         (* the server a client was told to connect to                  *)
  name,       (* ClientSession::name_                                        *)
  wfail,      (* the session's write has failed: nothing more is written     *)
  roster,     (* names in the last USERLIST sent to a session, {} if none    *)
  inbox,      (* chat messages handed to a session's write queue, in order   *)
  from, to,   (* sender and addressee of a message                           *)
  stage,      (* how far a message has come                                  *)
  call,       (* the GetReplyMessage RPC made for a message                  *)
  faults      (* faults injected so far                                      *)

statusVars == <<userServer, asking, seen>>
redisVars  == <<count, history>>
ioVars     == <<pc, cur, dst>>
procVars   == <<up, redis>>
clientVars == <<phase, at, wfail>>
viewVars   == <<name, roster>>
msgVars    == <<from, to>>
vars == <<statusVars, redisVars, procVars, sessions, ioVars, clientVars,
          viewVars, inbox, msgVars, stage, call, faults>>

Phases == {"new", "assigned", "open", "left", "closed", "gone"}
Stages == {"unsent", "wire", "handling", "ok", "failed", "lost"}
PCs    == {"idle", "publish", "uid", "server", "route", "wait", "save1", "save2"}
Calls  == [st : {"none", "sent", "found", "absent", "lost"}, dst : Servers \cup {None}]

TypeOK ==
  /\ userServer \in [Users -> Servers \cup {None}]
  /\ asking \in Clients \cup {None}
  /\ seen \in [Servers -> Nat \cup {None}]
  /\ count \in [Servers -> Nat]
  /\ history \in [Users \X Users -> SUBSET Msgs]
  /\ up \in [Servers -> BOOLEAN]
  /\ redis \in [Servers -> BOOLEAN]
  /\ sessions \in [Servers -> Seq(Clients)]
  /\ pc \in [Servers -> PCs]
  /\ cur \in [Servers -> Msgs \cup {0}]
  /\ dst \in [Servers -> Servers \cup {None}]
  /\ phase \in [Clients -> Phases]
  /\ at \in [Clients -> Servers \cup {None}]
  /\ name \in [Clients -> Users \cup {None}]
  /\ wfail \in [Clients -> BOOLEAN]
  /\ roster \in [Clients -> SUBSET (Users \cup {None})]
  /\ inbox \in [Clients -> Seq(Msgs)]
  /\ from \in [Msgs -> Clients \cup {None}]
  /\ to \in [Msgs -> Users \cup {None, Everyone}]
  /\ stage \in [Msgs -> Stages]
  /\ call \in [Msgs -> Calls]
  /\ faults \in 0 .. MaxFaults

Init ==
  /\ userServer = [u \in Users |-> None]
  /\ asking = None /\ seen = [s \in Servers |-> None]
  /\ count = [s \in Servers |-> 0]
  /\ history = [p \in Users \X Users |-> {}]
  /\ up = [s \in Servers |-> TRUE]
  /\ redis = [s \in Servers |-> TRUE]
  /\ sessions = [s \in Servers |-> <<>>]
  /\ pc = [s \in Servers |-> "idle"]
  /\ cur = [s \in Servers |-> 0]
  /\ dst = [s \in Servers |-> None]
  /\ phase = [c \in Clients |-> "new"]
  /\ at = [c \in Clients |-> None]
  /\ name = [c \in Clients |-> None]
  /\ wfail = [c \in Clients |-> FALSE]
  /\ roster = [c \in Clients |-> {}]
  /\ inbox = [c \in Clients |-> <<>>]
  /\ from = [m \in Msgs |-> None]
  /\ to = [m \in Msgs |-> None]
  /\ stage = [m \in Msgs |-> "unsent"]
  /\ call = [m \in Msgs |-> [st |-> "none", dst |-> None]]
  /\ faults = 0

Fault == faults < MaxFaults /\ faults' = faults + 1

-----------------------------------------------------------------------------
(* StatusServer and the login that goes through GateServer                 *)

\* GetChatServer, called for a client whose password GateServer has checked, reads
\* the counts of the healthy servers one after the other.  One whose GET fails is
\* taken for "0".
ReadCount(c) ==
  /\ phase[c] = "new" /\ asking \in {None, c}
  /\ \E t \in Healthy :
       /\ seen[t] = None
       /\ \/ seen' = [seen EXCEPT ![t] = count[t]] /\ UNCHANGED faults
          \/ seen' = [seen EXCEPT ![t] = 0] /\ Fault
  /\ asking' = c
  /\ UNCHANGED <<userServer, redisVars, procVars, sessions, ioVars, clientVars,
                 viewVars, inbox, msgVars, stage, call>>

\* MUTANT of LeastSeen: the server with the highest count.
MostSeen(s) == \A t \in Healthy : seen[s] >= seen[t]

\* The key GetChatServer comes to.
LeastSeen(s) == \A t \in Healthy : seen[s] <= seen[t]

\* It has read all of them, and records the server with the least for the user.
GetChatServer(c) ==
  /\ phase[c] = "new" /\ asking = c /\ \A t \in Healthy : seen[t] # None
  /\ \E s \in Healthy :
       /\ LeastSeen(s)
       /\ userServer' = [userServer EXCEPT ![Owner[c]] = s]
       /\ at' = [at EXCEPT ![c] = s]
  /\ phase' = [phase EXCEPT ![c] = "assigned"]
  /\ asking' = None /\ seen' = [t \in Servers |-> None]
  /\ UNCHANGED <<redisVars, procVars, sessions, ioVars, wfail,
                 viewVars, inbox, msgVars, stage, call, faults>>

\* StatusServer ends and starts again: user_server_map was in memory only, and the
\* call of GetChatServer fails.  (While it is down LookupFails.)
StatusRestart ==
  /\ Fault
  /\ userServer' = [u \in Users |-> None]
  /\ asking' = None /\ seen' = [t \in Servers |-> None]
  /\ UNCHANGED <<redisVars, procVars, sessions, ioVars, clientVars,
                 viewVars, inbox, msgVars, stage, call>>

-----------------------------------------------------------------------------
(* The client                                                              *)

\* The client writes "@user text", or any other text, to its socket.
Send(c, u) ==
  /\ phase[c] = "open"
  /\ \E m \in Msgs :
       /\ stage[m] = "unsent"
       /\ \A k \in 1 .. (m - 1) : stage[k] # "unsent"
       /\ stage' = [stage EXCEPT ![m] = "wire"]
       /\ from' = [from EXCEPT ![m] = c]
       /\ to' = [to EXCEPT ![m] = u]
  /\ UNCHANGED <<statusVars, redisVars, procVars, sessions, ioVars, clientVars,
                 viewVars, inbox, call, faults>>

\* The client closes, crashes or loses its network: before it has connected
\* nobody notices, afterwards its server does, later.
Leave(c) ==
  /\ \/ phase[c] = "assigned" /\ phase' = [phase EXCEPT ![c] = "gone"]
     \/ phase[c] = "open" /\ phase' = [phase EXCEPT ![c] = "left"]
  /\ UNCHANGED <<statusVars, redisVars, procVars, sessions, ioVars, at, wfail,
                 viewVars, inbox, msgVars, stage, call, faults>>

-----------------------------------------------------------------------------
(* The io thread: connections                                              *)

IoIdle(s) == up[s] /\ pc[s] = "idle"

\* MUTANT of MutexFree: send_private_msg holds mtx_ over the RPC to the peer.
MutexHeldOverCall(s) == pc[s] \notin {"publish", "wait"}

\* The thread holds mtx_ across a Redis command only while it publishes.
MutexFree(s) == pc[s] # "publish"

Members(v) == ToSet(v)

\* A USERLIST for the vector v and the names nm.  None stands for its header and for
\* "unname", the entry of a session that has not sent its name.
NamesIn(v, nm) == {nm[c] : c \in Members(v)} \cup {None}

\* broadcast_user_list_no_lock: every session in v is sent the list.
BroadcastUserList(v, nm) ==
  roster' = [c \in Clients |-> IF c \in Members(v) THEN NamesIn(v, nm) ELSE roster[c]]

\* sessions.erase(std::remove(...)): a session is in the vector at most once.
Erase(v, c) ==
  IF \E i \in 1 .. Len(v) : v[i] = c
  THEN RemoveAt(v, CHOOSE i \in 1 .. Len(v) : v[i] = c)
  ELSE v

\* do_acceptor and add_session, up to the write of the size.
AddSession(s, c) ==
  /\ IoIdle(s) /\ phase[c] = "assigned" /\ at[c] = s
  /\ sessions' = [sessions EXCEPT ![s] = Append(@, c)]
  /\ phase' = [phase EXCEPT ![c] = "open"]
  /\ pc' = [pc EXCEPT ![s] = "publish"]
  /\ UNCHANGED <<statusVars, redisVars, procVars, cur, dst, at, wfail, viewVars,
                 inbox, msgVars, stage, call, faults>>

\* MUTANT of PublishCount: add_user_to_redis(sessions.size() - 1).
PublishOneLess(s) ==
  /\ up[s] /\ pc[s] = "publish"
  /\ count' = IF redis[s] THEN [count EXCEPT ![s] = Len(sessions[s]) - 1] ELSE count
  /\ pc' = [pc EXCEPT ![s] = "idle"]
  /\ UNCHANGED <<statusVars, history, procVars, sessions, cur, dst, clientVars,
                 viewVars, inbox, msgVars, stage, call, faults>>

\* add_user_to_redis, the last step under the lock of add_session and
\* remove_client; a broken context drops the command.
PublishCount(s) ==
  /\ up[s] /\ pc[s] = "publish"
  /\ count' = IF redis[s] THEN [count EXCEPT ![s] = Len(sessions[s])] ELSE count
  /\ pc' = [pc EXCEPT ![s] = "idle"]
  /\ UNCHANGED <<statusVars, history, procVars, sessions, cur, dst, clientVars,
                 viewVars, inbox, msgVars, stage, call, faults>>

\* MUTANT of RemoveClient: the size is written when a session is added only.
RemoveUnpublished(s, c) ==
  /\ sessions' = [sessions EXCEPT ![s] = Erase(@, c)]
  /\ BroadcastUserList(sessions'[s], name)
  /\ UNCHANGED pc

\* MUTANT of RemoveClient: the list is sent before the session is erased.
RemoveAfterBroadcast(s, c) ==
  /\ sessions' = [sessions EXCEPT ![s] = Erase(@, c)]
  /\ BroadcastUserList(sessions[s], name)
  /\ pc' = [pc EXCEPT ![s] = "publish"]

\* remove_client up to the write of the size.
RemoveClient(s, c) ==
  /\ sessions' = [sessions EXCEPT ![s] = Erase(@, c)]
  /\ BroadcastUserList(sessions'[s], name)
  /\ pc' = [pc EXCEPT ![s] = "publish"]

\* do_read completes with an error: close() and remove_client().  What the
\* client had written and the server had not read is lost.
ReadError(s, c) ==
  /\ IoIdle(s) /\ phase[c] = "left" /\ at[c] = s
  /\ RemoveClient(s, c)
  /\ phase' = [phase EXCEPT ![c] = "closed"]
  /\ stage' = [m \in Msgs |-> IF stage[m] = "wire" /\ from[m] = c
                              THEN "lost" ELSE stage[m]]
  /\ UNCHANGED <<statusVars, redisVars, procVars, cur, dst, at, wfail, name, inbox,
                 msgVars, call, faults>>

\* do_write of something sent to the session completes with an error, before or
\* after the read does: remove_client() without close(), the read stays pending.
WriteError(s, c) ==
  /\ IoIdle(s) /\ phase[c] \in {"left", "closed"} /\ at[c] = s
  /\ (roster[c] # {} \/ inbox[c] # <<>>) /\ ~wfail[c]
  /\ RemoveClient(s, c)
  /\ wfail' = [wfail EXCEPT ![c] = TRUE]
  /\ UNCHANGED <<statusVars, redisVars, procVars, cur, dst, phase, at, name, inbox,
                 msgVars, stage, call, faults>>

-----------------------------------------------------------------------------
(* The io thread: handle_read_msg                                          *)

Readable(s, c) == IoIdle(s) /\ phase[c] \in {"open", "left"} /\ at[c] = s

\* The first message is the user's name.
ReadName(s, c) ==
  /\ Readable(s, c) /\ name[c] = None
  /\ name' = [name EXCEPT ![c] = Owner[c]]
  /\ BroadcastUserList(sessions[s], name')
  /\ UNCHANGED <<statusVars, redisVars, procVars, sessions, ioVars, clientVars,
                 inbox, msgVars, stage, call, faults>>

\* m is the oldest message of c the server has not read.
NextOnWire(c, m) ==
  /\ stage[m] = "wire" /\ from[m] = c
  /\ \A k \in 1 .. (m - 1) : from[k] = c => stage[k] # "wire"

\* "@user text": handle_read_msg calls send_private_msg, which asks for the uid.
ReadPrivate(s, c) ==
  /\ Readable(s, c) /\ name[c] # None
  /\ \E m \in Msgs :
       /\ NextOnWire(c, m) /\ to[m] # Everyone
       /\ stage' = [stage EXCEPT ![m] = "handling"]
       /\ cur' = [cur EXCEPT ![s] = m]
  /\ pc' = [pc EXCEPT ![s] = "uid"]
  /\ UNCHANGED <<statusVars, redisVars, procVars, sessions, dst, clientVars,
                 viewVars, inbox, msgVars, call, faults>>

\* Anything else is public: every other session of this server gets it.
ReadPublic(s, c) ==
  /\ Readable(s, c) /\ name[c] # None
  /\ \E m \in Msgs :
       /\ NextOnWire(c, m) /\ to[m] = Everyone
       /\ stage' = [stage EXCEPT ![m] = "ok"]
       /\ inbox' = [d \in Clients |-> IF d \in Members(sessions[s]) \ {c}
                                      THEN Append(inbox[d], m) ELSE inbox[d]]
  /\ UNCHANGED <<statusVars, redisVars, procVars, sessions, ioVars, clientVars,
                 viewVars, msgVars, call, faults>>

-----------------------------------------------------------------------------
(* The io thread: send_private_msg and save_history_msg                    *)

Working(s, p) == up[s] /\ pc[s] = p

\* send_private_msg returned false: the sender is told the chat failed.
Refuse(s) ==
  /\ stage' = [stage EXCEPT ![cur[s]] = "failed"]
  /\ pc' = [pc EXCEPT ![s] = "idle"]
  /\ cur' = [cur EXCEPT ![s] = 0]
  /\ dst' = [dst EXCEPT ![s] = None]

Continue(s, p) == pc' = [pc EXCEPT ![s] = p] /\ UNCHANGED <<stage, cur>>

\* ClientSession::async_send of a chat message, which posts it to the write queue.
AsyncSend(c, m) == inbox' = [inbox EXCEPT ![c] = Append(@, m)]

\* MUTANT of FirstNamed: the loop takes the first session there is.
FirstOfAll(v, u, i) == i \in 1 .. Len(v) /\ \A j \in 1 .. (i - 1) : name[v[j]] # u

\* The index of the first session that carries the name u.
FirstNamed(v, u, i) ==
  /\ i \in 1 .. Len(v) /\ name[v[i]] = u
  /\ \A j \in 1 .. (i - 1) : name[v[j]] # u

SomeNamed(v, u) == \E i \in 1 .. Len(v) : name[v[i]] = u

\* GetUserUid answers: through GateServer, from MySQL.
ResolveUid(s) ==
  /\ Working(s, "uid")
  /\ \/ to[cur[s]] \in Registered /\ Continue(s, "server") /\ UNCHANGED dst
     \/ to[cur[s]] \notin Registered /\ Refuse(s)
  /\ UNCHANGED <<statusVars, redisVars, procVars, sessions, clientVars, viewVars,
                 inbox, msgVars, call, faults>>

\* GetUserUid or GetUserServer fails.  For GetUserUid the client stub then runs
\* off the end of a function without a return: the caller either sees the error
\* (here) or the process dies on the garbage it was given (Crash).
LookupFails(s) ==
  /\ Working(s, "uid") \/ Working(s, "server")
  /\ Fault /\ Refuse(s)
  /\ UNCHANGED <<statusVars, redisVars, procVars, sessions, clientVars, viewVars,
                 inbox, msgVars, call>>

\* GetUserServer answers with what the map holds at that moment.
ResolveServer(s) ==
  /\ Working(s, "server")
  /\ \/ /\ userServer[to[cur[s]]] # None
        /\ dst' = [dst EXCEPT ![s] = userServer[to[cur[s]]]]
        /\ Continue(s, "route")
     \/ userServer[to[cur[s]]] = None /\ Refuse(s)
  /\ UNCHANGED <<statusVars, redisVars, procVars, sessions, clientVars, viewVars,
                 inbox, msgVars, call, faults>>

\* MUTANT of DeliverLocal: the loop does not stop at the first session.
DeliverToEach(s) ==
  LET named == {c \in Members(sessions[s]) : name[c] = to[cur[s]]} IN
  /\ Working(s, "route") /\ dst[s] = s
  /\ \/ /\ named # {} /\ Continue(s, "save1") /\ UNCHANGED dst
        /\ inbox' = [c \in Clients |-> IF c \in named THEN Append(inbox[c], cur[s])
                                                      ELSE inbox[c]]
     \/ named = {} /\ Refuse(s) /\ UNCHANGED inbox
  /\ UNCHANGED <<statusVars, redisVars, procVars, sessions, clientVars, viewVars,
                 msgVars, call, faults>>

\* target_server == current_server: the first session with the name gets it.
DeliverLocal(s) ==
  /\ Working(s, "route") /\ dst[s] = s
  /\ \/ /\ \E i \in 1 .. Len(sessions[s]) :
             /\ FirstNamed(sessions[s], to[cur[s]], i)
             /\ AsyncSend(sessions[s][i], cur[s])
        /\ Continue(s, "save1") /\ UNCHANGED dst
     \/ ~SomeNamed(sessions[s], to[cur[s]]) /\ Refuse(s) /\ UNCHANGED inbox
  /\ UNCHANGED <<statusVars, redisVars, procVars, sessions, clientVars, viewVars,
                 msgVars, call, faults>>

\* MUTANT of CallPeer: an asynchronous call, its outcome taken for granted.
CallPeerAsync(s) ==
  /\ Working(s, "route") /\ dst[s] # s
  /\ call' = [call EXCEPT ![cur[s]] =
                [st |-> IF up[dst[s]] THEN "sent" ELSE "lost", dst |-> dst[s]]]
  /\ Continue(s, "save1")
  /\ UNCHANGED <<statusVars, redisVars, procVars, sessions, dst, clientVars,
                 viewVars, inbox, msgVars, faults>>

\* Otherwise the io thread blocks in GetReplyMessage on the other server.
CallPeer(s) ==
  /\ Working(s, "route") /\ dst[s] # s
  /\ call' = [call EXCEPT ![cur[s]] =
                [st |-> IF up[dst[s]] THEN "sent" ELSE "lost", dst |-> dst[s]]]
  /\ Continue(s, "wait")
  /\ UNCHANGED <<statusVars, redisVars, procVars, sessions, dst, clientVars,
                 viewVars, inbox, msgVars, faults>>

\* MUTANT of GetReplyMessage: the error is not reset when the session is found.
GetReplyMessageUnset(t, m) ==
  /\ call[m].st = "sent" /\ call[m].dst = t /\ up[t] /\ MutexFree(t)
  /\ \/ \E i \in 1 .. Len(sessions[t]) :
          /\ FirstNamed(sessions[t], to[m], i)
          /\ AsyncSend(sessions[t][i], m)
     \/ ~SomeNamed(sessions[t], to[m]) /\ UNCHANGED inbox
  /\ call' = [call EXCEPT ![m] = [st |-> "absent", dst |-> t]]
  /\ UNCHANGED <<statusVars, redisVars, procVars, sessions, ioVars, clientVars,
                 viewVars, msgVars, stage, faults>>

\* A gRPC thread of t runs ChatServiceImpl::GetReplyMessage under mtx_.  The
\* caller may have given up on the call by then.
GetReplyMessage(t, m) ==
  /\ call[m].st = "sent" /\ call[m].dst = t /\ up[t] /\ MutexFree(t)
  /\ \/ \E i \in 1 .. Len(sessions[t]) :
          /\ FirstNamed(sessions[t], to[m], i)
          /\ AsyncSend(sessions[t][i], m)
          /\ call' = [call EXCEPT ![m] = [st |-> "found", dst |-> t]]
     \/ /\ ~SomeNamed(sessions[t], to[m])
        /\ call' = [call EXCEPT ![m] = [st |-> "absent", dst |-> t]]
        /\ UNCHANGED inbox
  /\ UNCHANGED <<statusVars, redisVars, procVars, sessions, ioVars, clientVars,
                 viewVars, msgVars, stage, faults>>

\* MUTANT of PeerAnswers: a reply is a success, whatever its error field.
PeerAnswersUnchecked(s) ==
  /\ Working(s, "wait")
  /\ \/ call[cur[s]].st \in {"found", "absent"} /\ Continue(s, "save1") /\ UNCHANGED dst
     \/ call[cur[s]].st = "lost" /\ Refuse(s)
  /\ UNCHANGED <<statusVars, redisVars, procVars, sessions, clientVars, viewVars,
                 inbox, msgVars, call, faults>>

\* The reply arrives.
PeerAnswers(s) ==
  /\ Working(s, "wait")
  /\ \/ call[cur[s]].st = "found" /\ Continue(s, "save1") /\ UNCHANGED dst
     \/ call[cur[s]].st \in {"absent", "lost"} /\ Refuse(s)
  /\ UNCHANGED <<statusVars, redisVars, procVars, sessions, clientVars, viewVars,
                 inbox, msgVars, call, faults>>

\* MUTANT of PeerCallFails: the call is tried again.
PeerCallRetried(s) ==
  /\ Working(s, "wait") /\ Fault
  /\ Continue(s, "route")
  /\ UNCHANGED <<statusVars, redisVars, procVars, sessions, dst, clientVars,
                 viewVars, inbox, msgVars, call>>

\* The channel breaks.  The request may have been executed, or may be later.
PeerCallFails(s) ==
  /\ Working(s, "wait") /\ Fault /\ Refuse(s)
  /\ UNCHANGED <<statusVars, redisVars, procVars, sessions, clientVars, viewVars,
                 inbox, msgVars, call>>

\* ZADD to the key p, unless the context is broken.
ZAdd(s, p) ==
  history' = IF redis[s] THEN [history EXCEPT ![p] = @ \cup {cur[s]}] ELSE history

\* MUTANT of SaveSenderKey: the key of the other direction.
SaveSwapped(s) ==
  /\ Working(s, "save1")
  /\ ZAdd(s, <<to[cur[s]], Owner[from[cur[s]]]>>)
  /\ Continue(s, "save2")
  /\ UNCHANGED <<statusVars, count, procVars, sessions, dst, clientVars, viewVars,
                 inbox, msgVars, call, faults>>

\* save_history_msg: ZADD history:sender:recver ...
SaveSenderKey(s) ==
  /\ Working(s, "save1")
  /\ ZAdd(s, <<Owner[from[cur[s]]], to[cur[s]]>>)
  /\ Continue(s, "save2")
  /\ UNCHANGED <<statusVars, count, procVars, sessions, dst, clientVars, viewVars,
                 inbox, msgVars, call, faults>>

\* ... then ZADD history:recver:sender, whatever became of the first.
SaveRecverKey(s) ==
  /\ Working(s, "save2")
  /\ ZAdd(s, <<to[cur[s]], Owner[from[cur[s]]]>>)
  /\ stage' = [stage EXCEPT ![cur[s]] = "ok"]
  /\ pc' = [pc EXCEPT ![s] = "idle"]
  /\ cur' = [cur EXCEPT ![s] = 0]
  /\ dst' = [dst EXCEPT ![s] = None]
  /\ UNCHANGED <<statusVars, count, procVars, sessions, clientVars, viewVars,
                 inbox, msgVars, call, faults>>

-----------------------------------------------------------------------------
(* Faults                                                                  *)

\* The process dies: its sessions are gone, the entries about it in Redis and
\* in StatusServer are not, and calls waiting to run on it fail.
Crash(s) ==
  /\ up[s] /\ Fault
  /\ up' = [up EXCEPT ![s] = FALSE]
  /\ sessions' = [sessions EXCEPT ![s] = <<>>]
  /\ pc' = [pc EXCEPT ![s] = "idle"]
  /\ cur' = [cur EXCEPT ![s] = 0]
  /\ dst' = [dst EXCEPT ![s] = None]
  /\ LET Lost(c) == at[c] = s /\ phase[c] \in {"open", "left", "closed"} IN
       /\ phase' = [c \in Clients |-> IF Lost(c) THEN "gone" ELSE phase[c]]
       /\ name' = [c \in Clients |-> IF Lost(c) THEN None ELSE name[c]]
       /\ roster' = [c \in Clients |-> IF Lost(c) THEN {} ELSE roster[c]]
       /\ wfail' = [c \in Clients |-> IF Lost(c) THEN FALSE ELSE wfail[c]]
  /\ stage' = [m \in Msgs |->
                 IF m = cur[s] \/ (stage[m] = "wire" /\ at[from[m]] = s)
                 THEN "lost" ELSE stage[m]]
  /\ call' = [m \in Msgs |-> IF call[m].st = "sent" /\ call[m].dst = s
                             THEN [st |-> "lost", dst |-> s] ELSE call[m]]
  /\ UNCHANGED <<statusVars, redisVars, redis, at, inbox, msgVars>>

\* main() again: a new Redis connection, and Register() writes the count "0".
Restart(s) ==
  /\ ~up[s]
  /\ up' = [up EXCEPT ![s] = TRUE]
  /\ redis' = [redis EXCEPT ![s] = TRUE]
  /\ count' = [count EXCEPT ![s] = 0]
  /\ UNCHANGED <<statusVars, history, sessions, ioVars, clientVars, viewVars, inbox,
                 msgVars, stage, call, faults>>

\* hiredis never leaves the error state: every later command of s is dropped.
RedisLost(s) ==
  /\ up[s] /\ redis[s] /\ Fault
  /\ redis' = [redis EXCEPT ![s] = FALSE]
  /\ UNCHANGED <<statusVars, redisVars, up, sessions, ioVars, clientVars, viewVars,
                 inbox, msgVars, stage, call>>

-----------------------------------------------------------------------------
ServerStep(s) ==
  \/ PublishCount(s)
  \/ ResolveUid(s) \/ LookupFails(s) \/ ResolveServer(s)
  \/ DeliverLocal(s) \/ CallPeer(s) \/ PeerAnswers(s) \/ PeerCallFails(s)
  \/ SaveSenderKey(s) \/ SaveRecverKey(s)
  \/ Crash(s) \/ Restart(s) \/ RedisLost(s)
  \/ \E m \in Msgs : GetReplyMessage(s, m)

SessionStep(s, c) ==
  \/ AddSession(s, c) \/ ReadName(s, c)
  \/ ReadPrivate(s, c) \/ ReadPublic(s, c)
  \/ ReadError(s, c) \/ WriteError(s, c)

ClientStep(c) ==
  \/ ReadCount(c) \/ GetChatServer(c) \/ Leave(c)
  \/ \E u \in Users \cup {Everyone} : Send(c, u)

Next ==
  \/ StatusRestart
  \/ \E s \in Servers : ServerStep(s)
  \/ \E s \in Servers, c \in Clients : SessionStep(s, c)
  \/ \E c \in Clients : ClientStep(c)

Spec == Init /\ [][Next]_vars

\* What the io thread does next once it has begun something.
IoStep(s) ==
  \/ PublishCount(s) \/ ResolveUid(s) \/ ResolveServer(s) \/ DeliverLocal(s)
  \/ CallPeer(s) \/ PeerAnswers(s) \/ SaveSenderKey(s) \/ SaveRecverKey(s)

ReadStep(s, c) == ReadName(s, c) \/ ReadPrivate(s, c) \/ ReadPublic(s, c)

\* The io thread does not stop inside a handler, gRPC runs a request it has, and
\* asio's completion queue is first in, first out: a socket that stays readable is
\* read although the thread is busy again and again.  Clients, faults and restarts
\* are under no obligation.
Fairness ==
  /\ \A s \in Servers : WF_vars(IoStep(s))
  /\ \A m \in Msgs : WF_vars(\E s \in Servers : GetReplyMessage(s, m))
  /\ \A c \in Clients : SF_vars(\E s \in Servers : ReadStep(s, c))

FairSpec == Spec /\ Fairness

-----------------------------------------------------------------------------
(* Properties                                                              *)

\* c has been handed the message m.
Got(c, m) == \E i \in 1 .. Len(inbox[c]) : inbox[c][i] = m

Private(m) == to[m] \in Users

\* A private message reaches at most one session, once: send_private_msg tries
\* either its own sessions or one other server and never tries again, also when
\* the RPC broke and the message had, or will have, been delivered.
AtMostOneDelivery ==
  \A m \in Msgs : Private(m) =>
    \A c, d \in Clients :
      \A i \in 1 .. Len(inbox[c]), j \in 1 .. Len(inbox[d]) :
        (inbox[c][i] = m /\ inbox[d][j] = m) => (c = d /\ i = j)

\* Only the addressee's own sessions are handed a private message, although the
\* route is looked up by uid and the session by a name read without the lock.
RightReceiver ==
  \A m \in Msgs, c \in Clients : (Private(m) /\ Got(c, m)) => Owner[c] = to[m]

\* History holds nothing that was not handed to a session of the addressee:
\* save_history_msg runs only after the delivery is known to have happened.
HistoryWasDelivered ==
  \A p \in Users \X Users : \A m \in history[p] :
    /\ {p[1], p[2]} = {Owner[from[m]], to[m]}
    /\ \E c \in Clients : Owner[c] = to[m] /\ Got(c, m)

\* The two ZADDs of save_history_msg are not atomic, but the sender's key is
\* never behind: a message stored under recver:sender is under sender:recver.
SenderKeyNotBehind ==
  \A p \in Users \X Users : \A m \in history[p] :
    m \in history[<<Owner[from[m]], to[m]>>]

\* "chat failed" is a wrong answer only when a call to a peer that had handed the
\* message over broke before its reply arrived: no other of the ways out of
\* send_private_msg refuses a message somebody has got.
FailedIsExact ==
  \A m \in Msgs, c \in Clients :
    Private(m) /\ stage[m] = "failed" /\ Got(c, m) => call[m].st = "found" /\ faults > 0

\* The load GetChatServer reads is the number of live sessions, except while the
\* io thread is about to write it, when the server is down or cut from Redis:
\* this holds across double removals, crashes and restarts.
CountIsSessions ==
  \A s \in Servers : up[s] /\ redis[s] /\ MutexFree(s) => count[s] = Len(sessions[s])

\* By how much a server's count may be behind its vector.
Lag(s) == IF MutexFree(s) THEN 0 ELSE 1

\* A login is sent to the server with the fewest sessions, of those that run and reach
\* Redis, unless a count has changed since it was read or could not be read: the
\* stored counts are behind by no more than the one session each io thread may be
\* adding or removing, over any number of arrivals, breaks and restarts.
LeastLoaded ==
  [][\A c \in Clients, t \in Healthy :
       /\ phase[c] = "new" /\ phase'[c] = "assigned"
       /\ \A s \in Healthy : seen[s] = count[s]
       /\ up[at'[c]] /\ redis[at'[c]] /\ up[t] /\ redis[t]
       => Len(sessions[at'[c]]) <= Len(sessions[t]) + Lag(at'[c]) + Lag(t)]_vars

\* Every named session has been sent the users that are online on its server
\* now: no arrival or departure is missed, whichever of the read and the write
\* error comes first.
RosterIsCurrent ==
  \A s \in Servers : \A c \in Members(sessions[s]) :
    name[c] # None => roster[c] = NamesIn(sessions[s], name)

\* Two messages of one client to the same user, both reported as sent: a session
\* that got both got them in the order they were written, over whichever path.
AcknowledgedInOrder ==
  \A m, n \in Msgs :
    (m < n /\ from[m] = from[n] /\ to[m] = to[n] /\ stage[m] = "ok" /\ stage[n] = "ok")
    => \A c \in Clients : \A i, j \in 1 .. Len(inbox[c]) :
         (inbox[c][i] = m /\ inbox[c][j] = n) => i < j

\* What the servers, StatusServer and Redis do together is the service a user sees:
\* whatever they do in between, and whatever breaks, a private message is handed to
\* one client of its addressee or to none, in the turn its sender wrote it, its sender
\* is told "ok" only after that, and no history is written of any other message.
Service == INSTANCE MessageService WITH
  answer <- [m \in Msgs |-> IF stage[m] \in {"ok", "failed", "lost"} THEN stage[m] ELSE "none"]

ServesMessages == Service!Spec

\* A message on the wire is settled in the end: the two io threads may call each
\* other at the same time and neither waits for ever, for no lock is held over a
\* call.
EveryMessageSettled ==
  \A m \in Msgs : stage[m] = "wire" ~> stage[m] \in {"ok", "failed", "lost"}

\* u has a session on the server StatusServer names for u.
Reachable(u) ==
  u \in Users /\ userServer[u] # None /\ SomeNamed(sessions[userServer[u]], u)

Undisturbed(m) ==
  Reachable(to[m]) /\ phase[from[m]] = "open" /\ faults = 0

\* A message to a user who stays where the map says is delivered and stored,
\* unless its sender goes or something breaks.
DeliveredWhileReachable ==
  \A m \in Msgs :
    stage[m] = "wire" /\ Private(m) ~>
      stage[m] = "ok" \/ (stage[m] # "unsent" /\ ~Undisturbed(m))
=============================================================================
