------------------------------- MODULE ConnPool -------------------------------
(***************************************************************************)
(* The connection pools of GateServer and StatusServer: RedisConPool       *)
(* (kind = "redis") and MySqlPool (kind = "mysql"), a queue under a mutex  *)
(* and a condition variable, with a thread that checks and replaces idle   *)
(* connections.                                                            *)
(*                                                                         *)
(* What is done under the mutex is one action; the exception is a caller   *)
(* that has found the queue empty and is about to sleep, because Close     *)
(* does not take the mutex and can come in between.                        *)
(***************************************************************************)
EXTENDS Naturals, Sequences, FiniteSets, SequencesExt

CONSTANTS
  Kinds,       (* the pools considered: "redis", "mysql" or both            *)
  Conns,       (* the connections the pool is to be opened with             *)
  Threads,     (* the threads that call it                                  *)
  Closed,      (* somebody calls Close                                      *)
  MaxCalls,    (* bound: calls of getConnection by one thread               *)
  MaxFaults,   (* bound: connections that break, are lost or cannot be      *)
               (* opened again, and spurious wakeups, together              *)
  None         (* no connection                                             *)

ASSUME PoolAssumption ==
  /\ Kinds \subseteq {"redis", "mysql"}
  /\ IsFiniteSet(Conns) /\ IsFiniteSet(Threads)
  /\ Closed \in BOOLEAN /\ MaxCalls \in Nat /\ MaxFaults \in Nat
  /\ None \notin Conns
  /\ Threads \cap {"pool", "check", "gone", "shared"} = {}

VARIABLES
  kind,      (* which of the two pools this is                              *)
  pool,      (* the queue, its front first                                  *)
  stop,      (* b_stop_                                                     *)
  live,      (* the connection works                                        *)
  pc,        (* where a thread is in a call of the pool                     *)
  con,       (* the connection a thread has                                 *)
  calls,     (* calls of getConnection by a thread                          *)
  cpc,       (* where the checking thread is                                *)
  ccon,      (* the connection it is checking                               *)
  left,      (* targetCount - processed                                     *)
  fresh,     (* the connections checked less than 5 seconds before the      *)
             (* round began, which MySqlPool does not ping                  *)
  failed,    (* the connections it has discarded and not yet replaced: as   *)
             (* many as fail_count_ says                                    *)
  closing,   (* where the caller of Close is                                *)
  faults     (* faults so far                                               *)

callers == <<pc, con, calls>>
checker == <<cpc, ccon, left, fresh, failed>>
vars == <<kind, pool, stop, live, callers, checker, closing, faults>>

TypeOK ==
  /\ kind \in Kinds
  /\ pool \in Seq(Conns) /\ stop \in BOOLEAN /\ live \in [Conns -> BOOLEAN]
  /\ pc \in [Threads -> {"out", "lock", "empty", "asleep", "have", "null"}]
  /\ con \in [Threads -> Conns \cup {None}] /\ calls \in [Threads -> 0 .. MaxCalls]
  /\ cpc \in {"absent", "pause", "loop", "check", "give", "repair", "ended"}
  /\ ccon \in Conns \cup {None} /\ left \in Nat
  /\ fresh \subseteq Conns /\ failed \subseteq Conns
  /\ closing \in {"open", "set", "done", "joined", "cleared"} /\ faults \in 0 .. MaxFaults

\* A connection that cannot be opened is skipped by RedisConPool.
RedisOpens(opened) == cpc = "pause" /\ fresh = {}

\* MySqlPool stops at the first one and does not start its checking thread.
MysqlOpens(opened) ==
  /\ cpc = IF opened = Conns THEN "pause" ELSE "absent"
  /\ fresh = opened

Init ==
  /\ kind \in Kinds
  /\ \E opened \in SUBSET Conns :
       /\ pool = SetToSeq(opened)
       /\ IF kind = "redis" THEN RedisOpens(opened) ELSE MysqlOpens(opened)
  /\ stop = FALSE
  /\ live = [c \in Conns |-> TRUE]
  /\ pc = [t \in Threads |-> "out"]
  /\ con = [t \in Threads |-> None]
  /\ calls = [t \in Threads |-> 0]
  /\ ccon = None /\ left = 0 /\ failed = {}
  /\ closing = "open" /\ faults = 0

\* A thing that goes wrong.
Fault == faults < MaxFaults /\ faults' = faults + 1 /\ UNCHANGED kind

-----------------------------------------------------------------------------
(* The mutex and the condition variable                                    *)

MutexFree == \A t \in Threads : pc[t] # "empty"

Asleep == {t \in Threads : pc[t] = "asleep"}

\* notify_one: some sleeping thread, of those the calls p leaves asleep.
NotifyOne(p) ==
  IF \E t \in Threads : p[t] = "asleep"
  THEN \E t \in Threads : p[t] = "asleep" /\ pc' = [p EXCEPT ![t] = "lock"]
  ELSE pc' = p

-----------------------------------------------------------------------------
(* getConnection and returnConnection                                      *)

Call(t) ==
  /\ pc[t] \in {"out", "null"} /\ calls[t] < MaxCalls
  /\ pc' = [pc EXCEPT ![t] = "lock"]
  /\ calls' = [calls EXCEPT ![t] = @ + 1]
  /\ UNCHANGED <<pool, stop, live, con, checker, closing, kind, faults>>

\* The thread has the mutex and evaluates the predicate of cond_.wait.
GetConnection(t) ==
  /\ pc[t] = "lock" /\ MutexFree
  /\ \/ /\ stop
        /\ pc' = [pc EXCEPT ![t] = "null"]
        /\ UNCHANGED <<pool, con>>
     \/ /\ ~stop /\ pool # <<>>
        /\ con' = [con EXCEPT ![t] = Head(pool)]
        /\ pool' = Tail(pool)
        /\ pc' = [pc EXCEPT ![t] = "have"]
     \/ /\ ~stop /\ pool = <<>>
        /\ pc' = [pc EXCEPT ![t] = "empty"]
        /\ UNCHANGED <<pool, con>>
  /\ UNCHANGED <<stop, live, calls, checker, closing, kind, faults>>

\* The wait gives the mutex back and sleeps.
Sleep(t) ==
  /\ pc[t] = "empty"
  /\ pc' = [pc EXCEPT ![t] = "asleep"]
  /\ UNCHANGED <<pool, stop, live, con, calls, checker, closing, kind, faults>>

\* A condition variable may wake a thread without a notification.
SpuriousWakeup(t) ==
  /\ pc[t] = "asleep" /\ Fault
  /\ pc' = [pc EXCEPT ![t] = "lock"]
  /\ UNCHANGED <<pool, stop, live, con, calls, checker, closing>>

\* MUTANT of ReturnConnection: returnConnection does not notify.
ReturnSilently(t) ==
  /\ pc[t] = "have" /\ MutexFree
  /\ con' = [con EXCEPT ![t] = None]
  /\ pool' = IF stop THEN pool ELSE Append(pool, con[t])
  /\ pc' = [pc EXCEPT ![t] = "out"]
  /\ UNCHANGED <<stop, live, calls, checker, closing, kind, faults>>

\* A closed pool drops what it is given.
ReturnConnection(t) ==
  /\ pc[t] = "have" /\ MutexFree
  /\ con' = [con EXCEPT ![t] = None]
  /\ \/ stop /\ pc' = [pc EXCEPT ![t] = "out"] /\ UNCHANGED pool
     \/ /\ ~stop
        /\ pool' = Append(pool, con[t])
        /\ NotifyOne([pc EXCEPT ![t] = "out"])
  /\ UNCHANGED <<stop, live, calls, checker, closing, kind, faults>>

\* CheckEmail of MysqlDao: the caller's unique_ptr destroys the connection.
Forget(t) ==
  /\ kind = "mysql" /\ pc[t] = "have" /\ Fault
  /\ con' = [con EXCEPT ![t] = None]
  /\ pc' = [pc EXCEPT ![t] = "out"]
  /\ UNCHANGED <<pool, stop, live, calls, checker, closing>>

-----------------------------------------------------------------------------
(* The checking thread                                                     *)

Goes(p) == cpc' = p /\ UNCHANGED <<stop, live, con, calls, closing>>

\* MUTANT of CheckBegins: the loop of the checking thread does not look at b_stop_.
CheckBeginsAlways ==
  /\ cpc = "pause" /\ MutexFree
  /\ left' = Len(pool) /\ Goes("loop")
  /\ UNCHANGED <<pool, pc, ccon, fresh, failed, kind, faults>>

\* It begins a round with the size of the queue, or ends.
CheckBegins ==
  /\ cpc = "pause" /\ MutexFree
  /\ \/ ~stop /\ left' = Len(pool) /\ Goes("loop")
     \/ stop /\ Goes("ended") /\ UNCHANGED left
  /\ UNCHANGED <<pool, pc, ccon, fresh, failed, kind, faults>>

\* MUTANT of CheckTakes: the checking thread looks at the front and does not take it.
CheckPeeks ==
  /\ cpc = "loop" /\ MutexFree
  /\ IF left = 0 \/ pool = <<>>
     THEN left' = 0 /\ Goes("repair") /\ UNCHANGED ccon
     ELSE ccon' = Head(pool) /\ left' = left - 1 /\ Goes("check")
  /\ UNCHANGED <<pool, pc, fresh, failed, kind, faults>>

\* RedisConPool stops the round when it is closed, MySqlPool does not.
CheckTakes ==
  LET over == left = 0 \/ pool = <<>> \/ (kind = "redis" /\ stop)
  IN /\ cpc = "loop" /\ MutexFree
     /\ \/ /\ ~over
           /\ ccon' = Head(pool) /\ pool' = Tail(pool)
           /\ left' = left - 1 /\ Goes("check")
        \/ /\ over
           /\ left' = 0 /\ Goes("repair") /\ UNCHANGED <<pool, ccon>>
     /\ UNCHANGED <<pc, fresh, failed, kind, faults>>

\* MUTANT of CheckPings: a discarded connection is not counted in fail_count_.
PingForgets ==
  /\ cpc = "check"
  /\ ccon' = IF live[ccon] THEN ccon ELSE None
  /\ Goes(IF live[ccon] THEN "give" ELSE "loop")
  /\ UNCHANGED <<pool, pc, left, fresh, failed, kind, faults>>

\* MUTANT of CheckPings: the connection is given up before it is noted.
PingNotesNone ==
  /\ cpc = "check"
  /\ ccon' = IF live[ccon] THEN ccon ELSE None
  /\ failed' = IF live[ccon] THEN failed ELSE failed \cup {ccon'}
  /\ Goes(IF live[ccon] THEN "give" ELSE "loop")
  /\ UNCHANGED <<pool, pc, left, fresh, kind, faults>>

\* The ping, outside the mutex.
CheckPings ==
  /\ cpc = "check"
  /\ \/ /\ ccon \in fresh \/ live[ccon]
        /\ fresh' = IF kind = "mysql" THEN fresh \cup {ccon} ELSE {}
        /\ Goes("give") /\ UNCHANGED <<ccon, failed>>
     \/ /\ ccon \notin fresh /\ ~live[ccon]
        /\ failed' = failed \cup {ccon}
        /\ ccon' = None
        /\ Goes("loop") /\ UNCHANGED fresh
  /\ UNCHANGED <<pool, pc, left, kind, faults>>

\* MUTANT of CheckGives: the checking thread notifies nobody.
GivesSilently ==
  /\ cpc = "give" /\ MutexFree
  /\ pool' = IF kind = "redis" /\ stop THEN pool ELSE Append(pool, ccon)
  /\ ccon' = None
  /\ Goes("loop") /\ UNCHANGED <<pc, left, fresh, failed, kind, faults>>

\* What it does with a connection that works: RedisConPool uses returnConnection,
\* which drops it when the pool is closed.
CheckGives ==
  /\ cpc = "give" /\ MutexFree
  /\ IF kind = "redis" /\ stop
     THEN UNCHANGED <<pool, pc>>
     ELSE pool' = Append(pool, ccon) /\ NotifyOne(pc)
  /\ ccon' = None
  /\ Goes("loop") /\ UNCHANGED <<left, fresh, failed, kind, faults>>

\* The next round is a minute or more away.
Pauses == Goes("pause") /\ fresh' = {} /\ UNCHANGED <<pool, pc, ccon, left, failed>>

RoundEnds == cpc = "repair" /\ failed = {} /\ Pauses /\ UNCHANGED <<kind, faults>>

\* reconnect() fails: the connections still to be replaced wait for the next round.
ReconnectFails == cpc = "repair" /\ failed # {} /\ Fault /\ Pauses

\* reconnect() succeeds.  MySqlPool notifies nobody of the new connection.
Reconnect ==
  /\ cpc = "repair" /\ MutexFree
  /\ \E c \in failed :
       /\ failed' = failed \ {c}
       /\ live' = [live EXCEPT ![c] = TRUE]
       /\ \/ kind = "redis" /\ stop /\ UNCHANGED <<pool, pc>>
          \/ kind = "redis" /\ ~stop /\ pool' = Append(pool, c) /\ NotifyOne(pc)
          \/ kind = "mysql" /\ pool' = Append(pool, c) /\ UNCHANGED pc
  /\ UNCHANGED <<stop, con, calls, cpc, ccon, left, fresh, closing, kind, faults>>

-----------------------------------------------------------------------------
(* Close, and the world                                                    *)

\* Close stores b_stop_ without the mutex ...
SetStop ==
  /\ closing = "open" /\ Closed
  /\ closing' = "set" /\ stop' = TRUE
  /\ UNCHANGED <<pool, live, callers, checker, kind, faults>>

\* ... wakes those who sleep now ...
NotifyAll ==
  /\ closing = "set" /\ closing' = "done"
  /\ pc' = [t \in Threads |-> IF t \in Asleep THEN "lock" ELSE pc[t]]
  /\ UNCHANGED <<pool, stop, live, con, calls, checker, kind, faults>>

\* ... and, in RedisConPool, waits for the checking thread.
Join ==
  /\ closing = "done" /\ kind = "redis" /\ cpc = "ended"
  /\ closing' = "joined"
  /\ UNCHANGED <<pool, stop, live, callers, checker, kind, faults>>

\* RedisMgr::Close then empties the queue.
ClearConnections ==
  /\ closing = "joined" /\ MutexFree
  /\ closing' = "cleared" /\ pool' = <<>>
  /\ UNCHANGED <<stop, live, callers, checker, kind, faults>>

\* The server drops a connection.
Break(c) ==
  /\ live[c] /\ c \notin failed /\ Fault
  /\ live' = [live EXCEPT ![c] = FALSE]
  /\ UNCHANGED <<pool, stop, callers, checker, closing>>

Next ==
  \/ \E t \in Threads :
       \/ Call(t) \/ GetConnection(t) \/ Sleep(t) \/ SpuriousWakeup(t)
       \/ ReturnConnection(t) \/ Forget(t)
  \/ CheckBegins \/ CheckTakes \/ CheckPings \/ CheckGives
  \/ RoundEnds \/ ReconnectFails \/ Reconnect
  \/ SetStop \/ NotifyAll \/ Join \/ ClearConnections
  \/ \E c \in Conns : Break(c)

Spec == Init /\ [][Next]_vars

-----------------------------------------------------------------------------
(* Fairness: a thread that can run does, and one that has been woken gets  *)
(* a connection if it finds one again and again.  The second is strong     *)
(* because the checking thread takes the connections out for moments, a    *)
(* minute apart.                                                           *)

Served(t) == pc[t] = "lock" /\ GetConnection(t) /\ pc'[t] # "empty"

FairSpec ==
  /\ Spec
  /\ \A t \in Threads :
       /\ WF_vars(GetConnection(t)) /\ SF_vars(Served(t))
       /\ WF_vars(Sleep(t)) /\ WF_vars(ReturnConnection(t))
  /\ WF_vars(CheckBegins) /\ WF_vars(CheckTakes) /\ WF_vars(CheckPings)
  /\ WF_vars(CheckGives) /\ WF_vars(RoundEnds) /\ WF_vars(Reconnect)
  /\ WF_vars(NotifyAll) /\ WF_vars(Join) /\ WF_vars(ClearConnections)

-----------------------------------------------------------------------------
(* What a pool promises                                                    *)

\* The places where a connection is.
Homes(c) ==
  {t \in Threads : con[t] = c}
    \cup (IF \E i \in DOMAIN pool : pool[i] = c THEN {"pool"} ELSE {})
    \cup (IF c = ccon \/ c \in failed THEN {"check"} ELSE {})

Place(c) ==
  IF Homes(c) = {} THEN "gone"
  ELSE IF \E h \in Homes(c) : Homes(c) = {h} THEN CHOOSE h \in Homes(c) : TRUE
  ELSE "shared"

Lent == INSTANCE Lending WITH place <- [c \in Conns |-> Place(c)]

\* The pool lends each connection to one thread at a time, and only what is in it,
\* whatever the checking thread takes out, discards and replaces meanwhile, and
\* does not bring back what is gone.
LendsEach == Lent!Spec

\* RedisConPool before it is closed: no thread sleeps while a connection lies in
\* the queue that no thread on its way to the queue will take.  A notification may
\* be overtaken by a new caller, a spurious wakeup or the checking thread.
IdleIsNoticed ==
  (kind = "redis" /\ ~stop /\ Asleep # {})
     => Len(pool) <= Cardinality({t \in Threads : pc[t] = "lock"})

\* RedisConPool loses no connection that it opened, however often connections break
\* and reconnecting fails, until it is closed.
NothingIsLost ==
  [][(kind = "redis" /\ ~stop) =>
       \A c \in Conns : Homes(c) # {} => Homes(c)' # {}]_vars

\* Every call is answered: as long as some connection is left and the pool is not
\* closed, a caller gets one.
\* MySqlPool notifies nobody after reconnect, and it is the next round that does.
EveryCallServed ==
  \A t \in Threads :
    pc[t] = "lock" ~> \/ pc[t] \in {"have", "null"} \/ stop
                      \/ \A c \in Conns : Homes(c) = {}

\* Close of RedisConPool returns: the checking thread ends, in whatever part of a
\* round it is, and no caller can keep it from doing so.
CloseReturns == stop ~> (kind = "redis" => closing = "cleared")
=============================================================================
