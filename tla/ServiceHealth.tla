---------------------------- MODULE ServiceHealth ----------------------------
(***************************************************************************)
(* How a ChatServer announces itself in the Redis hash service_registry    *)
(* and how StatusServer decides, from that hash, which servers may be      *)
(* assigned to users: ServiceRegistry and main.cpp of ChatServer, and      *)
(* ServiceHealthChecker and RunServer of StatusServer.                     *)
(*                                                                         *)
(* A starting ChatServer removes its old entry, writes one without a       *)
(* heartbeat, and then one with a heartbeat every Interval.  StatusServer  *)
(* checks each configured server once: the checker and its timer live in   *)
(* the body of a loop and are destroyed before the timer can fire.  The    *)
(* list it comes to is what ChatRouting calls Healthy.                     *)
(***************************************************************************)
EXTENDS Integers

CONSTANTS
  N,          (* number of servers StatusServer is configured with           *)
  Interval,   (* between two heartbeats, and check_interval_                 *)
  Late,       (* bound: how late a heartbeat is, by its timer and its HSET   *)
  MaxTime,    (* bound: the clock stops here                                 *)
  MaxFaults   (* bound: crashes, lost contexts and failed commands           *)

ASSUME HealthAssumption ==
  /\ N \in Nat \ {0} /\ Interval \in Nat \ {0}
  /\ Late \in 0 .. Interval
  /\ MaxTime \in Nat /\ MaxFaults \in Nat

\* StatusServiceImpl::_servers, in order; the first is the one that the section
\* ChatServer of StatusServer's config.ini names.
Servers == 1 .. N
Home    == 1

VARIABLES
  now,       (* time(nullptr), one clock: the configuration has one host     *)
  entry,     (* Redis: service_registry, by server                           *)
  spc,       (* how far main() of the ChatServer has come                    *)
  due,       (* when its heartbeat_timer_ expires                            *)
  redis,     (* its hiredis context works                                    *)
  ran,       (* the last moment it ran: recorded for the properties          *)
  checking,  (* RunServer: 0 not running, i the server to check, N+1 waiting *)
  healthy,   (* the keys of StatusServiceImpl::_healthy_servers              *)
  faults     (* faults injected so far                                       *)

serverVars == <<entry, spc, due, redis, ran>>
statusVars == <<checking, healthy>>
vars == <<now, serverVars, statusVars, faults>>

Times   == 0 .. MaxTime
Entries == [kind : {"none", "bare", "beat"}, last : Times]

\* The entry of a server that is not registered.
Absent == [kind |-> "none", last |-> 0]

TypeOK ==
  /\ now \in Times
  /\ entry \in [Servers -> Entries]
  /\ spc \in [Servers -> {"down", "register", "heartbeat", "up"}]
  /\ due \in [Servers -> 0 .. (MaxTime + Interval)]
  /\ redis \in [Servers -> BOOLEAN]
  /\ ran \in [Servers -> Times]
  /\ checking \in 0 .. (N + 1)
  /\ healthy \in SUBSET Servers
  /\ faults \in 0 .. MaxFaults

Init ==
  /\ now = 0
  /\ entry = [s \in Servers |-> Absent]
  /\ spc = [s \in Servers |-> "down"]
  /\ due = [s \in Servers |-> 0]
  /\ redis = [s \in Servers |-> FALSE]
  /\ ran = [s \in Servers |-> 0]
  /\ checking = 0
  /\ healthy = {}
  /\ faults = 0

Fault == faults < MaxFaults /\ faults' = faults + 1

-----------------------------------------------------------------------------
(* A ChatServer                                                            *)

At(s, p) == spc[s] = p
GoTo(s, p) == spc' = [spc EXCEPT ![s] = p]

\* HSET service_registry, unless the context is broken.
HSet(s, e) == entry' = IF redis[s] THEN [entry EXCEPT ![s] = e] ELSE entry

\* main: a new Redis context, Init, and Unregister, which deletes the entry that a
\* process that died has left.
Start(s) ==
  /\ At(s, "down") /\ GoTo(s, "register")
  /\ redis' = [redis EXCEPT ![s] = TRUE]
  /\ entry' = [entry EXCEPT ![s] = Absent]
  /\ ran' = [ran EXCEPT ![s] = now]
  /\ UNCHANGED <<now, due, statusVars, faults>>

\* Register: an entry with start_time and without last_heartbeat.
Register(s) ==
  /\ At(s, "register") /\ GoTo(s, "heartbeat")
  /\ HSet(s, [kind |-> "bare", last |-> 0])
  /\ UNCHANGED <<now, due, redis, ran, statusVars, faults>>

\* MUTANT of DoHeartbeat: the first heartbeat waits for the timer.
BeatLater(s) ==
  /\ entry' = IF redis[s] /\ At(s, "up")
              THEN [entry EXCEPT ![s] = [kind |-> "beat", last |-> now]] ELSE entry
  /\ due' = [due EXCEPT ![s] = now + Interval]

\* MUTANT of DoHeartbeat: the timer is set for the interval the checker allows.
BeatTooLate(s) ==
  /\ HSet(s, [kind |-> "beat", last |-> now])
  /\ due' = [due EXCEPT ![s] = now + 2 * Interval]

\* DoHeartbeat: the entry with the time, and the timer for the next one.
DoHeartbeat(s) ==
  /\ HSet(s, [kind |-> "beat", last |-> now])
  /\ due' = [due EXCEPT ![s] = now + Interval]

\* StartHeartbeat, after which main opens the two ports.
StartHeartbeat(s) ==
  /\ At(s, "heartbeat") /\ GoTo(s, "up")
  /\ DoHeartbeat(s)
  /\ UNCHANGED <<now, redis, ran, statusVars, faults>>

\* heartbeat_timer_ has expired.
OnTimer(s) ==
  /\ At(s, "up") /\ now >= due[s]
  /\ DoHeartbeat(s)
  /\ UNCHANGED <<now, spc, redis, ran, statusVars, faults>>

\* The process ends, by itself or by a signal: Unregister is not called.
Crash(s) ==
  /\ spc[s] # "down" /\ Fault /\ GoTo(s, "down")
  /\ redis' = [redis EXCEPT ![s] = FALSE]
  /\ UNCHANGED <<now, entry, due, ran, statusVars>>

\* hiredis never leaves the error state: every later command is dropped.
RedisLost(s) ==
  /\ redis[s] /\ Fault
  /\ redis' = [redis EXCEPT ![s] = FALSE]
  /\ UNCHANGED <<now, entry, spc, due, ran, statusVars>>

-----------------------------------------------------------------------------
(* StatusServer                                                            *)

\* RunServer: the gRPC service runs from here on, with no healthy server yet.
StatusStart ==
  /\ checking = 0 /\ checking' = 1
  /\ UNCHANGED <<now, serverVars, healthy, faults>>

\* UpdateServerHealth(server_key, is_alive).
UpdateServerHealth(i, alive) == healthy' = IF alive THEN healthy \cup {i} ELSE healthy \ {i}

\* MUTANT of IsAlive: any entry with a heartbeat counts.
IsAliveEver(e) == e.kind = "beat"

\* MUTANT of IsAlive: one interval, not two.
IsAliveOnce(e) == e.kind = "beat" /\ now - e.last <= Interval

\* What DoCheck makes of an entry: one without last_heartbeat is not alive.
IsAlive(e) == e.kind = "beat" /\ now - e.last <= 2 * Interval

\* StartChecking for server i: one DoCheck, of the entry of the server that the
\* section ChatServer names, whichever i is.  No entry, no call of the callback.
DoCheck(i) ==
  /\ checking = i /\ checking' = i + 1
  /\ \/ entry[Home].kind # "none" /\ UpdateServerHealth(i, IsAlive(entry[Home]))
     \/ entry[Home].kind = "none" /\ UNCHANGED healthy
  /\ UNCHANGED <<now, serverVars, faults>>

\* The HGET fails, which DoCheck takes for a missing entry.
CheckFails(i) ==
  /\ checking = i /\ checking' = i + 1 /\ Fault
  /\ UNCHANGED <<now, serverVars, healthy>>

\* StatusServer ends: the list was in memory only.
StatusCrash ==
  /\ checking # 0 /\ Fault
  /\ checking' = 0 /\ healthy' = {}
  /\ UNCHANGED <<now, serverVars>>

-----------------------------------------------------------------------------
\* Time passes, but not beyond the latest moment of a heartbeat.
Tick ==
  /\ now < MaxTime /\ now' = now + 1
  /\ \A s \in Servers : At(s, "up") => now < due[s] + Late
  /\ ran' = [s \in Servers |-> IF At(s, "down") THEN ran[s] ELSE now + 1]
  /\ UNCHANGED <<entry, spc, due, redis, statusVars, faults>>

ServerStep(s) ==
  \/ Start(s) \/ Register(s) \/ StartHeartbeat(s) \/ OnTimer(s)
  \/ Crash(s) \/ RedisLost(s)

StatusStep(i) == DoCheck(i) \/ CheckFails(i)

Next ==
  \/ \E s \in Servers : ServerStep(s)
  \/ \E i \in Servers : StatusStep(i)
  \/ StatusStart \/ StatusCrash \/ Tick

Spec == Init /\ [][Next]_vars

\* RunServer does not stop in the loop over the servers.
FairSpec == Spec /\ WF_vars(\E i \in Servers : DoCheck(i))

-----------------------------------------------------------------------------
(* Properties                                                              *)

\* The server runs, and has been connected to Redis since it started.
Steady(s) == At(s, "up") /\ redis[s]

\* A server that runs has an entry DoCheck takes for alive, at every moment, also
\* when each heartbeat comes as late as it may and after any number of restarts.
SteadyIsAlive == \A s \in Servers : Steady(s) => IsAlive(entry[s])

\* A server is listed only if the first server ran at most two intervals before: an
\* entry that a dead process left is not believed for longer.  (For the other
\* servers this says nothing of themselves: all are judged by the first one's entry.)
ListedRanLately ==
  [][\A i \in healthy' \ healthy : now - ran[Home] <= 2 * Interval]_vars

\* When StatusServer starts after the first server has, it comes to list that server,
\* unless something fails meanwhile: however late its heartbeats come, the one check
\* it is given does not find it dead.
HomeIsListed ==
  \A f \in 0 .. MaxFaults :
    (checking = 1 /\ Steady(Home) /\ faults = f) ~> (Home \in healthy \/ faults > f)

\* What StatusServiceImpl.cpp:138 and :142 say of each server: a healthy one is added
\* to the list, an unhealthy one removed from it.  After its own check a server that
\* has beaten without a miss is listed, and one that is listed ran lately.
ListedAsItRuns ==
  [][\A i \in Servers :
       checking = i /\ checking' = i + 1 /\ faults' = faults =>
         /\ Steady(i) => i \in healthy'
         /\ i \in healthy' => now - ran[i] <= 2 * Interval]_vars

\* What StatusServiceImpl.cpp:142 says, "an unhealthy server is removed from the
\* list", of a check every interval (ServiceHealthChecker.h:34): a server whose entry
\* is too old when the next check is due is no longer listed.
StaleIsDelisted ==
  checking = N + 1 /\ Home \in healthy /\ entry[Home].kind = "beat"
    => now - entry[Home].last <= 3 * Interval + Late
=============================================================================
