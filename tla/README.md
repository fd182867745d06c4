# Chat8 in TLA+

Chat8 is a chat system of several processes: a Qt client, an HTTP gateway (GateServer) with a
Node.js mail service (VarifyServer), a StatusServer that assigns users to chat servers, two (or
more) ChatServer processes, MySQL and Redis. This directory holds a model of its own logic in TLA+,
the TLC configurations that check it on small instances, and proofs checked by TLAPS.

Paths below are relative to the repository root. `ChatServer2` is the same program as `ChatServer`
with other ports and paths, so line numbers are given for `ChatServer` only.

## 1. Inventory

| Component | State | Operations | Hard part |
|---|---|---|---|
| **ChatServer: sessions and routing** (`ChatServer/TcpChatServer.*`, `ClientSession.*`, `ChatServiceImpl.*`, `ChatGrpcClient.*`, `StatusGrpcClient.*`, `main.cpp`) | session vector and its mutex, each session's name and write queue | accept, read name, private and public messages, read and write errors, serving `GetReplyMessage`, friend requests, history, search | one io thread that blocks in RPCs, gRPC threads on the same vector, two servers that call each other, crashes in the middle of a handler |
| **ChatServer: registration and heartbeat** (`ServiceRegistry.*`) | two Redis keys per server | `Register`, `DoHeartbeat` | heartbeat from another thread on the same Redis context |
| **ChatServer: Redis access** (`RedisMgr.*`) | one hiredis context | `Set`, `HSet`, `ZAdd`, `ZRange` | shared by two threads without a lock, never reconnected |
| **StatusServer: assignment and lookup** (`StatusServiceImpl.*`) | `user_server_map`, healthy servers | `GetChatServer`, `GetUserServer`, `GetUserUid` | works on counts and entries that other processes make stale |
| **StatusServer: health checker** (`ServiceHealthChecker.*`, `StatusServer.cpp`) | timers, last heartbeat in Redis | `DoCheck` | object lifetime, clocks, one key for all servers |
| **Connection pools** (`StatusServer/RedisMgr.h`, `GateServer/RedisMgr.h`, `GateServer/MysqlDao.h`) | queue of connections, stop flag, failure counter | get, return, check, reconnect, close | condition variables, leaks, notifications |
| **GateServer: HTTP front end** (`LogicSystem.cpp`, `HttpConnection.cpp`, `CServer.cpp`) | none of its own | `/get_varifycode`, `/user_register`, `/reset_pwd`, `/user_login` | several stores updated in one request |
| **GateServer: user store** (`MysqlDao.cpp`) | MySQL tables `user`, `user_id`, `friend` | register, reset, log in, friends | transactions on pooled connections |
| **VarifyServer** (`GateServer/VarifyServer/*.js`) | Redis key `code_<email>` with a time to live | `GetVarifyCode` | `await` between read and write, two commands for one change |
| **Client** (`Client/tcpclient.cpp`, `chatdialog.cpp`, dialogs) | socket, friend list, conversation widgets | log in, send, parse what arrives | no framing from client to server, a list that is parsed from text |
| **Distributed lock** (`StatusServer/DistLock.*`) | a Redis key | acquire, release | nothing calls it |
| **History script, generated and vendored code** | – | – | – |

How they interact: the client asks GateServer over HTTP for a login; GateServer checks the password
in MySQL and asks StatusServer over gRPC for a server; StatusServer reads the connection counts the
ChatServers keep in Redis and records the choice in `user_server_map`; the client connects to that
ChatServer over TCP. For a private message a ChatServer asks StatusServer for the uid (which asks
GateServer, which asks MySQL) and for the server of the addressee, delivers locally or calls
`GetReplyMessage` of the other ChatServer, and writes the message to history in Redis.

What would make each part correct (sections 3 to 8 say how much of it holds):

* routing: a private message reaches at most one session, once, and only one of its addressee; what
  is reported as sent was delivered, in order; no two servers wait for each other for ever; stored
  counts, user lists and history follow the sessions;
* pools: no connection is lent twice, none is lost, no waiter sleeps while a connection is idle;
* user store: uids are unique, a change that is acknowledged is visible to the next login;
* codes: a code that was mailed is accepted as long as the mail says;
* health: a live server stays assignable, a dead one does not;
* byte stream: what the client wrote is what the server handles, message by message.

The full list of hazards, each at its line, is in `PROJECT.json`, with the properties that would
catch each of them going wrong.

## 2. The modules

Every component has one module with its state and one action per operation, an `MC...` module with
small instances, and `...Proofs` modules with its theorems. No module that has theorems declares a
RECURSIVE operator.

| Modules | What |
|---|---|
| `ChatRouting`, `MessageService`, `MCChatRouting`, `ChatRoutingProofs`, `ChatOrderProofs`, `ChatServiceProofs` | The core: how a user is assigned to a server, and how a private or public message travels between clients, several ChatServers, StatusServer and Redis, with crashes and broken calls. `MessageService` says what the users may rely on, whatever fails, and `ChatRouting` implements it |
| `ClientStream`, `FifoChannel`, `MCClientStream`, `ClientStreamProofs` | One TCP connection between `tcpclient.cpp`/`chatdialog.cpp` and a `ClientSession`: frames and the write queue towards the client, bare text towards the server. `FifoChannel` says what a session promises, and `ClientStream` implements it |
| `UserStore`, `AccountBook`, `MCUserStore`, `UserStoreProofs` | Registration, password reset, login, uids and friendships as statements on pooled MySQL connections. `AccountBook` says what somebody who registers or resets a password may rely on, and `UserStore` implements it |
| `ConnPool`, `Lending`, `MCConnPool`, `ConnPoolProofs` | The Redis and MySQL connection pools with their mutex, condition variable, checking thread and `Close`; `Lending` says what a pool promises (a connection has one holder or none), and `ConnPool` implements it |
| `VerifyCode`, `MCVerifyCode`, `VerifyCodeProofs` | Verification codes in Redis with their time to live, VarifyServer await by await, and their use by GateServer |
| `ServiceHealth`, `MCServiceHealth`, `ServiceHealthProofs` | `ServiceRegistry` and `ServiceHealthChecker`: registration, beats, checks, the clock, restarts |

How they fit together. `ChatRouting` composes ChatServer, StatusServer, Redis and the clients,
because its properties are about all of them; GateServer appears in it as the guard of a login. Its
constant `Healthy` is what `ServiceHealth` computes and never takes back, and its sequence `inbox`
is the `sent` of a `FifoChannel`: what is handed to a session is handled by its client in that order
while the connection lasts. `UserStore` takes from the pool only that a connection is lent to one
request at a time, which `ConnPool` and `Lending` establish; the code it takes for checked in
`/user_register` and `/reset_pwd` is `Check` of `VerifyCode`.

## 3. ChatRouting

### State and code

| Variable | In the code |
|---|---|
| `userServer` | `user_server_map` in `StatusServiceImpl` |
| `asking`, `seen` | the call of `GetChatServer` under way (its client), the counts it has read |
| `count`, `history` | Redis: the number stored under a server's `service_key`, the sorted sets `history:a:b` |
| `up`, `redis` | the process runs; its `redisContext` has no error (hiredis never leaves the error state and nothing reconnects) |
| `sessions` | `TcpChatServer::sessions`, in order |
| `pc`, `cur`, `dst` | the io thread: where it is in a handler, the message it handles, the `target_server` it was told |
| `phase`, `at`, `name`, `wfail` | a client and its connection, `ClientSession::name_`, and that `do_write` has failed |
| `roster` | the names in the last `USERLIST` handed to the session |
| `inbox` | the chat messages handed to the session by `async_send`, in order |
| `from`, `to`, `stage` | a message and how far it has come: `ok` after the sender's echo, `failed` after "chat failed", `lost` with its server or its sender |
| `call` | the `GetReplyMessage` RPC made for the message |

`AsioServicePool` runs each of its `io_context`s on one thread, and the acceptor and all sessions of
a ChatServer use one of them: a handler runs from start to end and blocks in its RPCs. gRPC runs
`GetReplyMessage` for the other server on threads of its own, which share `sessions` and `mtx_` with
it. A handler is therefore split into one action per place where somebody else can act: at each RPC
(`ResolveUid`, `ResolveServer`, `CallPeer`, `PeerAnswers`), at each Redis command (`PublishCount`,
`SaveSenderKey`, `SaveRecverKey`). What happens under `mtx_` without leaving the process is one
action; `PublishCount` is the exception, a Redis command under the lock, and `MutexFree` says when a
gRPC thread can have it.

| Actions | Code |
|---|---|
| `ReadCount`, `GetChatServer` | `/user_login` after the password has been checked, and `StatusServiceImpl::GetChatServer`: one GET per healthy server, then the choice |
| `StatusRestart` | a StatusServer that dies and is started again: `user_server_map` was in memory |
| `AddSession`, `PublishCount` | `do_acceptor`, `add_session`, `add_user_to_redis` |
| `ReadName`, `ReadPrivate`, `ReadPublic` | `do_read` and `handle_read_msg` |
| `ResolveUid`, `ResolveServer`, `LookupFails` | the two lookups of `send_private_msg` on StatusServer |
| `DeliverLocal`, `CallPeer`, `PeerAnswers`, `PeerCallFails` | the two branches of `send_private_msg` |
| `GetReplyMessage` | `ChatServiceImpl::GetReplyMessage` |
| `SaveSenderKey`, `SaveRecverKey` | `save_history_msg` |
| `ReadError`, `WriteError`, `RemoveClient` | the error branches of `do_read` and `do_write`, `remove_client` |
| `Send`, `Leave` | the client |
| `Crash`, `Restart`, `RedisLost` | a process that dies and is started again, a Redis connection that breaks |

Abstractions: the text of a message is its number; a name is the email a client logs in with, as in
the code; a message that is neither the first nor `@name text` is public (`@name` without a space,
which is answered with an error text and changes nothing, is left out); `set_name` and the broadcast
of the list that follows it are one step, for a gRPC thread between them would do what it does after
both, but for the lists, which it does not touch; the client sends whole messages (what becomes of
them without frames is `ClientStream`'s question); one login is under way at a time, for GateServer
has one HTTP thread and waits for StatusServer's answer; what `ServiceHealthChecker` found at
start-up is the constant `Healthy`, for it checks a server once (`ServiceHealth`). Two kinds of
undefined behaviour are not given a meaning: the data race on `name_` between `set_name` and a gRPC
thread (the name is seen before or after, never half written), and the missing `return` of
`GetUserUid` when its RPC fails (the caller sees an error, `LookupFails`, or the process dies,
`Crash`).

### Runs

| Run | Instance | Checks |
|---|---|---|
| `faults` | 2 servers, alice with one client and bob with two, 2 messages, 1 fault, carol who has no account, within `MCBound` | `TypeOK`, `AtMostOneDelivery`, `RightReceiver`, `HistoryWasDelivered`, `SenderKeyNotBehind`, `CountIsSessions`, `RosterIsCurrent`, `AcknowledgedInOrder`, `FailedIsExact`, `LeastLoaded`, `ServesMessages` (that `ChatRouting` implements `MessageService`) |
| `live` | 2 servers, one client each, 2 messages, no fault, no symmetry | `EveryMessageSettled`, `DeliveredWhileReachable` under `FairSpec` |

Why the bounds are enough. Two servers are what the configuration files name, and a call has two
ends. Three clients give a user two sessions on one server, or one on each, or a reconnect after a
loss, with the sender on either server. Two messages are what order is about, and `live` lets each
server call the other at the same time. One fault meets the messages at every point of their
handlers and reaches every state a crash, a broken call or a broken Redis connection can leave.

Three clients, two messages and a fault together are too many states, so `faults` has a constraint,
`MCBound` of MCChatRouting: the fault and the second message meet one client of each user, of whom
bob's sends and meets the fault after alice's has begun to log in (the other order is the same with
the names exchanged); bob's second client comes to a world without faults and with one message,
which alice sends to bob when all three take part, and one of bob's sends otherwise; the second
message is a private one to somebody who has an account.
What that leaves out, the proofs of section 9 cover for every one of the safety properties.

Fairness of `live`: the io thread finishes what it has begun (weak fairness of `IoStep`: it blocks
only in calls that return), gRPC runs the requests it has (weak fairness of `GetReplyMessage`), and
a socket that stays readable is read although the thread is busy again and again, because asio's
queue of completions is first in first out (strong fairness of `ReadStep`). Clients, faults and
restarts are under no obligation, and the run has no faults: a call whose server crashes fails.

### What the runs show

`AtMostOneDelivery` and `RightReceiver` hold through every fault: `send_private_msg` tries one path,
once. The price is that "chat failed" is not always true: after a broken call the message may have
been delivered, or be delivered later, which is why `AcknowledgedInOrder` is about acknowledged
messages only. `FailedIsExact` says that nothing else makes it untrue: when a sender was told that a
message failed which somebody has got, a call that had found the session broke before its reply
arrived. `HistoryWasDelivered` and `SenderKeyNotBehind` say what a crash between the two ZADDs can
leave: the sender's copy may have an entry the receiver's lacks, never the other way round.
`CountIsSessions` holds across double removals (the read and the write of one session can both fail)
and restarts. `EveryMessageSettled` fails if the lock were held over the peer call (its mutant): two
servers that call each other would wait for ever.

`ServesMessages` puts the messages' properties together as one small specification without servers,
threads, calls or locks. `MessageService` hands a private message to one client of its addressee or
to none, in the turn its sender wrote it, and possibly after it was given up, but never after "ok";
its sender is told "ok" only after somebody was handed it; it is stored, for the sender first, only
then; a public message is handed to any number of others in one step; and what is on its way may be
given up at any moment, with or without an answer. The map takes each variable over as it is, but
for `stage`, of which the users see only how it ends. Each action of the servers is one step of the
service or none: `SaveRecverKey` is its `Confirm`, `GetReplyMessage` its `Deliver`, a `Crash` its
`GiveUp` of everything the server or its clients had begun, and everything about names, lists, the
map and the counts is a stutter. The two properties of the service a user would miss, that a message
is handed over and that its sender is answered in the end, are those of `live`.

`LeastLoaded` says how good an assignment is when no count changed while `GetChatServer` read them:
the chosen server has at most as many sessions as any other, but for the one session each io thread
may be adding or removing. When a count does change between the reads, or a GET fails and is taken
for 0, or a server has crashed and left its count, nothing holds. Nor does an assignment show in any
count before the client connects: the comment at StatusServiceImpl.cpp:182 announces a "+1" that the
code below it does not do, so logins that arrive before the first of them has connected go to the
same server. The property is about what the counts say, not about that.

`DeliveredWhileReachable` has the premise that the map is right about the addressee. It is written
at login and corrected by nobody: a second login that never connects, or a restart of StatusServer,
cuts a user who is online from private messages until the next login. No message is misrouted by it
(`RightReceiver`).

## 4. UserStore

GateServer handles `/user_register`, `/reset_pwd` and `/user_login` with calls of `MysqlDao`, and so
does `GetUseruid` of its gRPC service, which looks up the uid of a user somebody writes to (request
`chat`) or asks to be a friend (`friend`). Each call borrows a connection from `MySqlPool`. `main`
(HttpConnection.cpp:206-254) runs the HTTP handlers on one thread, so that they run one after the
other; the gRPC calls run on as many threads as there are calls. A request is one handler: `Arrive`
is its beginning (JSON, the password confirmation and the code in Redis have been checked),
`GetConnection` a call of the pool, and each statement sent to MySQL is one action, for other
requests run in between.

| Variable | In the code |
|---|---|
| `rows`, `lastId`, `friends` | the committed rows of `user`, the committed `user_id.id`, the committed pairs of `friend` |
| `auto`, `snap`, `pend`, `pendId`, `pendF`, `live` | a MySQL session: autocommit, the snapshot of its transaction, the rows, the counter and the friends it has changed and not committed (which are locked), and whether it works |
| `ghosts` | transactions of connections that broke without MySQL noticing yet: they keep their locks |
| `idle`, `dropped` | the pool, and connections destroyed because nobody returned them |
| `req`, `pc`, `con`, `newId`, `pair` | a request: what it is, where its handler is, its connection, the `newId` it has read, the uids `loadFriend` has read |

| Actions | Code |
|---|---|
| `SelectEmail`, `SelectName`, `TakeId`, `InsertUser`, `InsertFails`, `Commit` | `RegUserTransaction`, statement by statement; `setAutoCommit(false)` is part of the first |
| `CheckEmail`, `UpdatePwd` | the calls of `/reset_pwd` |
| `CheckPwd`, `GetFriend` | the calls of `/user_login` |
| `GetUid`, `FindPair`, `InsertFriend`, `InsertFriendFails` | `GetUseruid`: `GetUid`, and for a friend request the two SELECTs and the two INSERTs of `loadFriend` |
| `LockFails`, `Broken` | a statement that throws, and what the `catch` blocks and `Defer`s do then |
| `ConnectionLost`, `CommitUnheard`, `GhostEnds` | a connection that breaks, also between the COMMIT and its answer; MySQL notices later or at once |
| `Reconnect` | `checkConnectionPro` and `reconnect` |

MySQL itself is external: InnoDB with its default isolation (REPEATABLE READ), as far as these
statements can tell. The table definitions are not in the repository, so an INSERT that repeats a
name, an email or a pair may fail or not (`InsertUser`, `InsertFails`, `InsertFriendFails`), and no
property assumes a unique key; an UPDATE by name is taken to lock the rows of that name. The order
of the pool is abstracted to a set because the checker takes idle connections from its front and
puts them to its back at any time.

| Run | Instance | Checks |
|---|---|---|
| `accounts` | 4 requests out of 8 kinds (two registrations with one address, one with a name that is taken, a reset with the right e-mail and one with somebody else's, a login, a chat message, a friend request), 2 connections, 1 broken connection | `TypeOK`, `UidsUnique`, `RegistrationExact`, `CounterIsFree`, `ConnectionsKept`, `FriendsMutual`, `KeepsAccounts` (that `UserStore` implements `AccountBook`) |
| `answers` | 3 requests out of 4 kinds, 2 connections, 1 broken connection, no symmetry | `EveryRequestAnswered` under `FairSpec` |
| `reset` | 2 requests, no fault | expected violation of `ResetIsStored` |

Two connections give the races of a registration with the transaction a broken connection has left,
and of two friend requests for one pair; four requests let a connection be used again after every
way out of a handler. Fairness: a handler that can take a step does (weak fairness of `Handle`), and
the pool's checker replaces a broken idle connection in the end (weak fairness of `Reconnect`: it
runs every minute, and MySQL is taken to come back). A lock somebody keeps for ever is not waited
for: `innodb_lock_wait_timeout` ends the wait (`LockFails`). `EveryRequestAnswered` excepts the case
that `CheckEmail` has destroyed every connection: a name without an account makes it return without
giving its connection back (MysqlDao.cpp:187), and after one such call per connection every request
waits for ever. `ConnectionsKept` says that this is the only leak: whichever way a call of the DAO
ends and whatever breaks, its connection is in the pool again, but for those `CheckEmail` destroys,
and each of these has cost a refused reset of its own.

`FriendsMutual` names the way two users can be friends in one direction only: the second INSERT of
`loadFriend` fails or never happens, while the first is committed, for only a connection on which
somebody has registered before does the two in one transaction. The request is answered with success
all the same.

`KeepsAccounts` is about the table `user` as a whole. `AccountBook` is a set of accounts that is
written in single steps, by registrations and resets, without connections, transactions or locks: an
account is entered by a registration with the uid it was given, which was new when it was given and
still is; no account is lost, and none changes its uid, its name or its e-mail; a password changes
only to one that a reset has set which named the account and the e-mail of one with that name; and
a registration that is refused, or a login, changes nothing. `Repassworded` has the one thing that a
reader would not expect of a book, and the code makes necessary: passwords that were set earlier
may show only when somebody registers, for a reset on a connection without autocommit waits for
that connection's next COMMIT, and may be rolled back instead. So the book allows a password to come
late, in any order, or never, but never to be one nobody was entitled to set.

The finding: `RegUserTransaction` turns autocommit off on a pooled connection (MysqlDao.cpp:78) and
nothing turns it on again. A later `UpdatePwd` on that connection is answered with success and not
committed: the old password stays valid until somebody registers on the same connection, and if that
registration is refused, its `rollback()` undoes the reset (`reset`). The same mode makes a login or
a lookup on that connection read the snapshot its first SELECT took: it does not see an account
registered since, until the transaction ends.

## 5. ClientStream

Towards the client, `ClientSession` puts four bytes of length in front of a message; `async_send`
posts to the io thread, which appends the frame to `write_bufs_` and starts an `async_write` unless
one is under way. `TcpClient` emits what `readAll` returns, and `ChatDialog::onRecvMessage` appends
it to `buffer_` and takes headers and contents off its front. Towards the server there are no
frames: what one read returns is one message. The unit of the model is the byte, named by its frame
and its place in it, so that a parser that loses its place reads garbage and shows it.

| Variable | In the code |
|---|---|
| `phase`, `link`, `listed`, `reading`, `closed` | the client's socket, the network, the session in the vector, its pending read, its socket |
| `mail`, `ran`, `queue`, `writes` | calls of `async_send`, how many of their posted functions have run, `write_bufs_`, the `async_write`s under way |
| `wire`, `begin` | the bytes written, and where each frame began |
| `arrived`, `parsed`, `exp_len`, `parsing`, `shown` | what `readAll` has returned, what has been taken off `buffer_`, `expectedLength`, whether `onRecvMessage` runs, what it has handled |
| `texts`, `upstream`, `taken`, `heard` | the client's writes and their bytes, how many the server has read, what `handle_read_msg` was given |

| Run | Instance | Checks |
|---|---|---|
| `stream` | 3 messages of 1 or 2 bytes behind a header of 4, 2 texts, reads of at most 2 bytes, a break at any moment | `TypeOK`, `OneWrite`, `InOrderAndWhole` (that `ClientStream` implements `FifoChannel`), `Delivered` under `FairSpec` |
| `framing` | 2 texts of 1 byte | expected violation of `TextsFramed` |

Contents of two sizes show a parser that takes one length for another, and three messages let one
wait in `write_bufs_` behind another while the client holds half of the first. `Garbage` is what
four bytes that are no header can read as; the code never reads them, and the mutants do. Fairness:
what is posted runs and what completes is handled (asio), the socket moves bytes while the
connection lasts (TCP), and the client's event loop runs.

The finding: README.md:23 says that messages have a 4-byte length prefix, both ways. The client
writes none, and two texts that arrive together (the name and a first command, for instance) are
handled as one (`framing`).

## 6. ConnPool

`RedisConPool` (StatusServer; the copy in GateServer is the same) and `MySqlPool` (GateServer) are
one design: a queue under a mutex, a condition variable for callers who find it empty, and a thread
that takes every idle connection once a minute, pings it, puts it back or discards it, and opens as
many new ones as it has discarded. The variable `kind` says which of the two it is, and so what
differs: MySqlPool's checking thread does not start when a connection cannot be opened, does not
ping a connection twice in one round, does not look at `b_stop_` inside a round, notifies nobody
after `reconnect`, and `Close` does not wait for it.

| Variable | In the code |
|---|---|
| `kind` | which of the two pools this is; `Kinds` are those considered |
| `pool`, `stop` | `connections_` or `pool_`, `b_stop_` |
| `pc`, `con`, `calls` | a caller: on its way to the mutex (`lock`), between the predicate of `cond_.wait` and sleep (`empty`), `asleep`, with a connection (`have`), told that the pool is closed (`null`) |
| `cpc`, `ccon`, `left`, `fresh`, `failed` | the checking thread: where it is, the connection it has, how many remain in the round, those whose `_last_oper_time` is recent, those it has discarded and not replaced (`fail_count_` many) |
| `closing` | the caller of `Close`: the flag is set, the sleepers are notified, the checking thread has been joined, the queue has been cleared |
| `live` | the connection works |

What is done under the mutex is one action, for nobody can see it half done - except by `Close`,
which stores `b_stop_` without the mutex; hence `GetConnection` and `Sleep` are two actions, and
`MutexFree` keeps everybody else out between them. A notification wakes an arbitrary sleeper, who
then competes for the mutex with new callers (`lock`); a sleeper may also wake for no reason.
Reconnecting replaces a discarded connection under the same name, `live` again. A `CheckEmail` that
loses its connection is `Forget`.

`Lending` has one variable, the place of each connection, and five kinds of move. `ConnPool` maps a
connection to its only holder; one that had two would map to no place of `Lending`.

| Run | Instance | Checks |
|---|---|---|
| `pools` | both kinds, 2 connections of which any may fail to open, 2 threads with 2 calls each, 2 faults, Close at any moment | `TypeOK`, `IdleIsNoticed`, `LendsEach`, `NothingIsLost`, `CloseReturns`, `EveryCallServed` |

Two threads with two calls each are enough for the race that matters: one is notified and the other
comes back and takes the connection first. Two faults let a connection break and its replacement
fail. Calls are bounded because a caller can be overtaken any number of times; `EveryCallServed`
says that a burst of calls is served to the last one. Fairness: threads that can run do, and a
waiter who finds a connection again and again takes it (strong fairness of `Served`): the checking
thread holds connections for moments a minute apart, and TLC would otherwise let it hold one at
every moment the waiter looks. Nobody has to call, and nobody has to close. A PING is taken to
return, with an answer or an error: `CloseReturns` and `EveryCallServed` rest on that, for the code
sets no timeout on a context, and a server that is silent for ever holds the checking thread.

`IdleIsNoticed` is the reason why `notify_one` suffices in RedisConPool: a caller that overtakes a
notified sleeper takes one connection and leaves one thread too many, never one too few. It does not
hold of MySqlPool, whose `reconnect` is silent; there `EveryCallServed` shows that the waiter is
served, but only by the next round of the checking thread, a minute later. (In both pools the rounds
also make up for a lost notification of `returnConnection`, but not for one of the checking thread
itself.)

`CloseReturns` is about the caller of `Close`, who joins the checking thread of a Redis pool. A
caller of `getConnection` is promised less: `Close` can come between its look at `b_stop_` and its
going to sleep, and the notification is lost. `EveryCallServed` is about an open pool only. Both
pools are closed only when their process ends.

## 7. VerifyCode

One mail address: the Redis key `code_<email>` with its time to live, VarifyServer's handlers (a
step between two `await`s is an action), GateServer's HTTP thread, which waits for its RPC, and
time. Two handlers run at once only after an RPC broke: GateServer gives it up, and the handler runs
on.

| Variable | In the code |
|---|---|
| `code`, `ttl` | the key and its time to live |
| `up`, `client` | VarifyServer runs; its `RedisCli` has not been told to `quit` (its error handler does, for good) |
| `pc`, `uid` | what the handler of a call awaits, its `uniqueId` |
| `waits`, `result` | the call the HTTP thread waits for, the error of each response |
| `rest`, `age` | history, for the property: the time the code had left when the mail of a call went out, and how long ago that was |

`Get`, `Set`, `Expire`, `Mail` and `Callback` are the steps of `GetVarifyCode`; `Request`,
`CallBreaks` and `Check` are GateServer; `ClientQuits`, `Crash`, `Start` and `Tick` the world.
ioredis and the mail transport are external: a command that was under way when the client quit may
have reached Redis, a mail that failed may have been sent.

| Run | Instance | Checks |
|---|---|---|
| `verify` | 3 requests, 2 codes, a life of 2 ticks, 2 faults | `TypeOK`, `MailedCodeWorks`, `EndlessIfCutOff`, `RequestAnswered` under `FairSpec` |

Three requests are a handler that was given up, the request that races it and one that comes after
both; two codes let the two draw different ones; two ticks of life are a code that is fresh, one
that is about to run out, and none. Fairness is that every `await` ends: the Redis client resends or
rejects, the mail transport has timeouts.

`MailedCodeWorks` says which codes a user may rely on: a code is accepted for the time it had left
when its mail went out. That a second request mails the same code without renewing its time is why
`rest` may be less than the three minutes the mail or the ten minutes README.md:34 speaks of. It
fails only beside a handler that GateServer has given up. It is about the code in Redis: a GET of
GateServer itself that fails is answered like an expired code, and is not modelled.
`EndlessIfCutOff` says when a code stays valid for ever: SET and EXPIRE are two commands, and only a
crash or a lost Redis connection comes between them.

## 8. ServiceHealth

A starting ChatServer deletes its old entry of the hash `service_registry`, writes one without a
heartbeat and then one with a heartbeat every interval. StatusServer checks each configured server
when it starts: an entry is alive while its heartbeat is at most two intervals old. Each
`ServiceHealthChecker` is a local variable of the loop in `RunServer` (StatusServer.cpp:48) and its
`io_context` and timer are destroyed with it, so that no second check is made; and `GetServiceKey`
takes the key of the first server whichever server is checked (`Home`).

| Variable | In the code |
|---|---|
| `now` | `time(nullptr)`: the configuration has one host, so one clock |
| `entry` | the hash in Redis |
| `spc`, `due`, `redis` | how far a ChatServer's `main` has come, when its timer expires, its Redis context |
| `ran` | history, for the property: the last moment it ran |
| `checking`, `healthy` | RunServer's loop, `_healthy_servers` |

| Run | Instance | Checks |
|---|---|---|
| `health` | 2 servers, an interval of 2, beats up to 2 late, 8 ticks, 2 faults | `TypeOK`, `SteadyIsAlive`, `ListedRanLately`, `HomeIsListed` under `FairSpec` |
| `delist` | the same, 10 ticks | expected violation of `StaleIsDelisted` |
| `misjudged` | as `health`, no fault | expected violation of `ListedAsItRuns` |

Eight ticks are four intervals: a start, a crash, an entry that gets too old and a restart. A beat
can be late by its timer and by its HSET, `Late` in all; `HealthAssumption` has `Late <= Interval`,
which is as much as `SteadyIsAlive` bears, and the code has nothing that enforces it.
`ListedRanLately` and `HomeIsListed` speak of the first server only, for the others are judged by
its entry: an old entry of it lists nobody, and the one check it is given does not miss it while it
runs, however late its heartbeats come. The only fairness is that `RunServer` goes on with its loop.

The findings. What the code should do for each server is `ListedAsItRuns`: one that has beaten
without a miss is listed after its check (StatusServiceImpl.cpp:138), and one that is listed ran
lately (:142 has an unhealthy one removed). It holds of a `DoCheck` that reads `entry[i]`. It is
violated because `GetServiceHostAndPort` reads the section of the first server whichever server the
checker was made for: a second server that runs alone is not listed, as in TLC's counterexample, and
one that is dead is listed and assigned to users while the first one runs (`misjudged`). And a
server that stops beating stays listed and is assigned to users, although
StatusServiceImpl.cpp:142 says it is removed (`delist`).

## 9. Proofs

All theorems are for every value of the constants allowed by the named assumptions
(`RoutingAssumption`, `StreamAssumption`, `StoreAssumption`, `PoolAssumption`, `VerifyAssumption`,
`HealthAssumption`), which TLC evaluates in every run. Every safety property of the passing runs is
proved, invariants and action properties alike, and so are the four refinements (`ServesMessages`,
`KeepsAccounts`, `InOrderAndWhole`, `LendsEach`).

**ChatRoutingProofs.** The inductive invariant is built in layers, each proved preserved with the
help of the ones below.

1. `ThreadInv` = `TypeOK` and `SentInv` (a message has a sender and an addressee once it is sent),
   `CurInv` (a thread inside `send_private_msg` has a message that is being handled, read from a
   client of that server), `OneHandler` (no two threads have the same message) and `DownInv` (a dead
   server has no sessions and no handler). With `CountIsSessions` it gives `TypeCorrect` and
   `CountCorrect`.
2. `DeliveryInv` = `CallInv` (a call exists only for a message that took the peer's path, and its
   state agrees with where the caller is), `HandedInv` (what has been handed to a session has left
   the point where it could be handed over again) and `AtMostOneDelivery`. `HandedInv` is why the
   invariant is needed: `AtMostOneDelivery` alone is not inductive, for it says nothing of a call
   that is still on its way when its caller has given up.
3. `NameInv` (a session has its owner's name or none), which gives `RightReceiver`.
4. `SaveInv` (a thread in `save_history_msg` has evidence of a delivery), which gives
   `HistoryWasDelivered`.
5. `Save2Inv` (at the second ZADD the first one has been done, or Redis is broken), which gives
   `SenderKeyNotBehind`.

The lemmas `SentKept`, `HandedToAddressee`, `SavesOnEvidence` and `SenderKeyFirst` state what a
single step can do in each respect and are proved action by action; the layers above them do not
open the actions again.

**ChatOrderProofs** goes on from there.

* `WithinLag` (a count is behind its vector by at most one, and only while the io thread is about to
  write it) gives `LeastLoaded`.
* `RosterInv` = `Placed` (a session is in the vector of its client's server), `NamedConnected` (only
  a session that was accepted has a name) and `RosterIsCurrent`.
* `OrderInv` gives `AcknowledgedInOrder`. Its parts follow a client's messages from its socket to
  the receiver: `WrittenInTurn`, `HandledAtSender`, `SettledInTurn` (a later message is not begun
  before an earlier one is settled), `OkAnswered` (one reported as sent is no longer waiting at a
  peer) and `OrderedUnlessGivenUp`, the induction's heart: of two messages a session has in the
  wrong order the earlier one was given up - its sender was told "chat failed" and its call
  delivered it later.

**ChatServiceProofs** has what needs most of these layers.

* `FailInv` gives `FailureIsExact`: a private message that somebody has got came over a call that
  found the session, or from the thread that handles it, which from then on does not refuse it
  (`HandedTraced`); a waiting thread has made a call (`WaitingCalled`); and a call that is given up
  unanswered, or after it has found the session, broke (`RefusedByFault`).
* `ImplementsService`: `ServiceStep` maps every action of `Next` to a step of `MessageService` or a
  stutter. Its guards are the invariants: that a message was handed to nobody before is
  `DeliveryInv`, that its addressee is right is `NameInv`, that it is its turn is `OrderInv`, that
  somebody has it when it is stored or confirmed is `SaveInv`, that it is stored for its sender
  first is `Save2Inv`, and that a step begins no message twice is `UnsentInv` (a message that was
  not sent has no sender).
* `HandlersNeverStuck` and `HandlersEnd` are the part of `EveryMessageSettled` that needs no
  fairness, for any number of servers. The first says that nobody waits for somebody who waits: an
  io thread in a handler has its next step before it (`CanGo` puts the guards of `IoStep` together),
  or waits in `GetReplyMessage` for a server that runs and whose mutex is free, or held by a thread
  that can go; it needs `CalledRuns`, that a call to a server that crashed is lost. The second has a
  number, `Left`, that each step of the thread and the answer of its peer make smaller and no step
  of anybody makes larger. That these steps are taken in the end is the fairness of `live`; the
  conclusion from it is left to TLC.

**UserStoreProofs.** `AccountInv` = `StoreInv` (types, and that a connection is lent to one request)
with

* `CounterInv`: who has raised `user_id` is between `TakeId` and the end of its transaction, is
  alone, and has one more than everybody else can see;
* `PendInv`: what is not committed is a newer version of a committed row or the row of a
  registration that is about to commit - which needs `ModeInv`, that such a transaction is not in
  autocommit mode;
* `RowInv`: uids are unique and not above the counter;
* `KindInv`, `InsertedInv`: what the registration knows at each step;
* `RegistrationExact`;
* `FriendInv`: a pair, committed or not, has its reverse beside it or a handler that still has to
  insert it, or that failed to.

From it follow `UidsAreUnique`, `RegistrationIsExact`, `CounterLockReleased`, `FriendsAreMutual`,
`StoreTypeCorrect` and, with the observation that a step lends a connection, takes one back or
destroys one for a reset it refuses (`PoolMoves`), `ConnectionsAreKept`. That uids are unique does
not need a unique key: it follows from the lock that `UPDATE user_id SET id = id + 1` holds until
the end of the transaction, and `CounterLockReleased` says that every way out of the function ends
it - also when the transaction was begun by an earlier request on the same connection.

`BookInv` says why the table is a book, on top of `AccountInv`: what a transaction reads in its
snapshot are versions of accounts that exist; a handler that is about to set a password has found
the e-mail it was told at an account of that name, and that stays true, for accounts keep their name
and e-mail; a number is given to a registration at `TakeId` and is what it answers with; and a row
that is not committed is what a registration has inserted, or has a password set by a request that
has been answered with "ok". The last part is what makes a late COMMIT harmless: whoever's COMMIT it
is, it writes what others were told had been written. `BookMoves` maps every action to a step of
`AccountBook` or a stutter, and `KeepsBook` is the theorem.

**ClientStreamProofs.** `StreamInv` = `TypeOK`, `WriteInv` (the frames begun, written and waiting
are the posted ones, in order), `WireInv` (where each frame begins and which bytes it has) and
`ReadInv` (the parser is at the beginning of a frame or behind its header, `exp_len` is that
frame's, and what was handled is a prefix of `mail`). From the first two `HeaderIsNext` and
`ContentIsNext` conclude that four bytes at the front are a header and `exp_len` bytes a content,
however the stream was cut up; with them a step of `ClientStream` is a step of `FifoChannel` or none
(`HandledInOrder`). `OneWriteAtATime` is in `WriteInv`.

**ConnPoolProofs.** `PoolInv` = `TypeOK`, `Owners` (who has a connection is at the point where it
can) and `OneHome` (a connection is in one place of the queue, or with one thread, or with the
checking thread, or noted as discarded). It gives `NothingLost`, and `LendsEachOnce`: the map to
`Lending` never comes to "shared" and each step moves connections as `Lending` allows. `IdleNoticed`
needs `WaitInv` (a thread that is about to sleep has found the queue empty, and nobody has filled it
since) and counts: whoever adds a connection also makes one sleeper come for it.

**VerifyCodeProofs.** `VerifyInv` = `TypeOK`, `CallInv` (a handler whose call nobody waits for was
given up, and a handler draws and mails once) and `CodeInv` (a mailed code is the code in Redis,
with the time it was promised, or one given up has stored another). It gives `MailedWorks` and
`EndlessOnlyIfCutOff`.

**ServiceHealthProofs.** The inductive invariant says when the next beat of a running server is due
(`BeatIsPending`) and that an entry with a beat is of a moment at which the process ran
(`BeatWhileRunning`): a running server's entry is never older than `Interval + Late`, which is at
most the two intervals the checker allows. It gives `SteadyServersAlive` and
`ListedOnlyIfRanLately`.

**Only model-checked:** the liveness properties `EveryMessageSettled`, `DeliveredWhileReachable`,
`EveryRequestAnswered`, `Delivered`, `EveryCallServed`, `CloseReturns`, `RequestAnswered` and
`HomeIsListed`: TLAPS cannot prove liveness under fairness.

## 10. Not modelled

* **Generated code.** Most lines of the C++ directories are the output of protoc and its gRPC
  plugin, in four copies (`message.pb.*`, `message.grpc.pb.*`). It has no logic of this program, and
  what the calls can do - fail before or after the peer has run them - is in the models. The
  hand-written code is a small part of the lines, and ChatServer is in it twice: `ChatServer2`
  differs in ports and paths and where a line feed is printed.
* **`History|` and `SEARCH_HISTORY|`** of a session: they read what `save_history_msg` wrote and
  send it, or write it to a file for a script. The script is one call of a language model and has no
  state. Merging of equal texts of one second in the sorted set is a matter of the text, which is a
  number here.
* **`ADDFRIEND|`** on the ChatServer's side. What it leaves in the database is in `UserStore`; what
  it tells the two clients depends on the value that `check_user` and `GetUserUid` do not return
  (undefined behaviour, TcpChatServer.cpp:134, StatusGrpcClient.cpp:35), so that nothing can be
  promised.
* **Data races.** The heartbeat thread and the io thread of a ChatServer use one `redisContext`
  without a lock, and `name_` is read by gRPC threads without one. Their outcomes cannot be
  enumerated; those a process survives are taken for a lost context (`RedisLost`) and for a name
  read before or after it was set, the rest for a `Crash`.
* **Shutdown.** `main`'s signal handler stops the `io_context` on one of its own threads, and the
  pools are destroyed while detached threads use them; a process is taken to stop at any point.
* **The pools of gRPC stubs** (`GateConPool`, `StatusConPool`): a queue from which one thread takes
  a stub for the length of a call. Nobody waits and nobody checks them.
* **GateServer's HTTP**: parsing, the deadline timer of a connection, `/get_test` and
  `TestProcedure`.
* **DistLock**, the copy of `MysqlDao` and `MysqlMgr` in StatusServer, VarifyServer's `QueryRedis`,
  `checkThread` and `checkConnection`: nothing calls them. `OnTimer` of the checker: nothing lives
  until it would run.
* **Widgets** of the client and vendored code (`node_modules`).
