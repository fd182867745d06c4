------------------------- MODULE ServiceHealthProofs -------------------------
(***************************************************************************)
(* Proofs about ServiceHealth, for any number of servers, any interval,    *)
(* any lateness up to the interval and any number of faults.               *)
(***************************************************************************)
EXTENDS ServiceHealth, TLAPS

\* A steady server's last heartbeat set the timer that is pending, and the clock
\* is not past the latest moment that timer is served.
BeatIsPending ==
  \A s \in Servers : Steady(s) =>
    /\ entry[s].kind = "beat"
    /\ due[s] = entry[s].last + Interval
    /\ now <= due[s] + Late

\* An entry with a heartbeat is of a moment at which the process ran.
BeatWhileRunning ==
  \A s \in Servers :
    /\ ran[s] <= now
    /\ spc[s] # "down" => ran[s] = now
    /\ entry[s].kind = "beat" => entry[s].last <= ran[s]

IInv == TypeOK /\ BeatIsPending /\ BeatWhileRunning

\* Home is a server.
LEMMA HomeIsServer == Home \in Servers
  BY HealthAssumption DEF Home, Servers

-----------------------------------------------------------------------------
(* The type invariant                                                      *)

\* What a heartbeat leaves has its type.
LEMMA BeatType ==
  ASSUME TypeOK, NEW s \in Servers, DoHeartbeat(s)
  PROVE  /\ entry' \in [Servers -> Entries]
         /\ due' \in [Servers -> 0 .. (MaxTime + Interval)]
  <1>1. [kind |-> "beat", last |-> now] \in Entries
    BY DEF TypeOK, Entries
  <1>2. entry' \in [Servers -> Entries]
    BY <1>1 DEF TypeOK, DoHeartbeat, HSet
  <1>3. now + Interval \in 0 .. (MaxTime + Interval)
    BY HealthAssumption DEF TypeOK, Times
  <1> QED
    BY <1>2, <1>3 DEF TypeOK, DoHeartbeat

\* Each step of a ChatServer keeps the types.
LEMMA ServerTypes ==
  ASSUME TypeOK, NEW s \in Servers, ServerStep(s)
  PROVE  TypeOK'
  <1> USE DEF TypeOK, At, GoTo
  <1>1. Absent \in Entries /\ [kind |-> "bare", last |-> 0] \in Entries
    BY HealthAssumption DEF Absent, Entries, Times
  <1>2. CASE Start(s)
    BY <1>1, <1>2 DEF Start, statusVars
  <1>3. CASE Register(s)
    BY <1>1, <1>3 DEF Register, HSet, statusVars
  <1>4. CASE StartHeartbeat(s)
    BY <1>4, BeatType DEF StartHeartbeat, statusVars
  <1>5. CASE OnTimer(s)
    BY <1>5, BeatType DEF OnTimer, statusVars
  <1>6. CASE Crash(s)
    BY <1>6, HealthAssumption DEF Crash, Fault, statusVars
  <1>7. CASE RedisLost(s)
    BY <1>7, HealthAssumption DEF RedisLost, Fault, statusVars
  <1> QED
    BY <1>2, <1>3, <1>4, <1>5, <1>6, <1>7 DEF ServerStep

\* Each step of StatusServer and of the clock keeps the types.
LEMMA StatusTypes ==
  ASSUME TypeOK,
         \/ \E i \in Servers : StatusStep(i)
         \/ StatusStart \/ StatusCrash \/ Tick
  PROVE  TypeOK'
  <1> USE HealthAssumption DEF TypeOK
  <1>1. ASSUME NEW i \in Servers, DoCheck(i)
        PROVE  TypeOK'
    <2>1. healthy' \in SUBSET Servers
      BY <1>1 DEF DoCheck, UpdateServerHealth
    <2>2. checking' \in 0 .. (N + 1)
      BY <1>1 DEF DoCheck, Servers
    <2> QED
      BY <1>1, <2>1, <2>2 DEF DoCheck, serverVars
  <1>2. ASSUME NEW i \in Servers, CheckFails(i)
        PROVE  TypeOK'
    BY <1>2 DEF CheckFails, Fault, Servers, serverVars
  <1>3. CASE StatusStart
    BY <1>3 DEF StatusStart, serverVars
  <1>4. CASE StatusCrash
    BY <1>4 DEF StatusCrash, Fault, serverVars
  <1>5. CASE Tick
    BY <1>5 DEF Tick, At, Times, statusVars
  <1> QED
    BY <1>1, <1>2, <1>3, <1>4, <1>5 DEF StatusStep

-----------------------------------------------------------------------------
(* Heartbeats                                                              *)

\* A server's own steps do not touch another server.
LEMMA OthersUntouched ==
  ASSUME TypeOK, NEW s \in Servers, ServerStep(s), NEW t \in Servers \ {s}
  PROVE  /\ entry'[t] = entry[t] /\ due'[t] = due[t] /\ ran'[t] = ran[t]
         /\ spc'[t] = spc[t] /\ redis'[t] = redis[t]
  BY DEF TypeOK, ServerStep, Start, Register, StartHeartbeat, OnTimer, Crash, RedisLost,
         DoHeartbeat, HSet, GoTo

\* The clock stands still while a ChatServer takes a step.
LEMMA ClockStands ==
  ASSUME NEW s \in Servers, ServerStep(s)
  PROVE  now' = now
  BY DEF ServerStep, Start, Register, StartHeartbeat, OnTimer, Crash, RedisLost

\* A step of a ChatServer keeps the timer of its heartbeat in view.
LEMMA ServerKeepsBeat ==
  ASSUME IInv, NEW s \in Servers, ServerStep(s)
  PROVE  BeatIsPending'
  <1> USE DEF IInv, TypeOK, At, GoTo, Steady
  <1>1. SUFFICES ASSUME NEW t \in Servers, Steady(t)'
                 PROVE  /\ entry'[t].kind = "beat"
                        /\ due'[t] = entry'[t].last + Interval
                        /\ now' <= due'[t] + Late
    BY DEF BeatIsPending
  <1>2. CASE t # s
    BY <1>1, <1>2, OthersUntouched, ClockStands DEF BeatIsPending
  <1>3. CASE t = s
    <2>1. CASE DoHeartbeat(s) /\ redis[s]
      <3>1. entry'[s] = [kind |-> "beat", last |-> now] /\ due'[s] = now + Interval
        BY <2>1 DEF DoHeartbeat, HSet
      <3>2. now \in Nat
        BY HealthAssumption DEF Times
      <3> QED
        BY <1>3, <3>1, <3>2, ClockStands, HealthAssumption
    <2>2. CASE Start(s)
      BY <1>1, <1>3, <2>2 DEF Start
    <2>3. CASE Register(s)
      BY <1>1, <1>3, <2>3 DEF Register
    <2>4. CASE StartHeartbeat(s)
      BY <1>1, <1>3, <2>1, <2>4 DEF StartHeartbeat
    <2>5. CASE OnTimer(s)
      BY <1>1, <1>3, <2>1, <2>5 DEF OnTimer
    <2>6. CASE Crash(s)
      BY <1>1, <1>3, <2>6 DEF Crash
    <2>7. CASE RedisLost(s)
      BY <1>1, <1>3, <2>7 DEF RedisLost
    <2> QED
      BY <2>2, <2>3, <2>4, <2>5, <2>6, <2>7 DEF ServerStep
  <1> QED
    BY <1>2, <1>3

\* A step of a ChatServer writes a heartbeat only of the moment it is taken.
LEMMA ServerKeepsRan ==
  ASSUME IInv, NEW s \in Servers, ServerStep(s)
  PROVE  BeatWhileRunning'
  <1> USE DEF IInv, TypeOK, At, GoTo
  <1>1. SUFFICES ASSUME NEW t \in Servers
                 PROVE  /\ ran'[t] <= now'
                        /\ spc'[t] # "down" => ran'[t] = now'
                        /\ entry'[t].kind = "beat" => entry'[t].last <= ran'[t]
    BY DEF BeatWhileRunning
  <1>2. CASE t # s
    BY <1>2, OthersUntouched, ClockStands DEF BeatWhileRunning
  <1>3. CASE t = s
    <2>1. ran[s] <= now /\ (spc[s] # "down" => ran[s] = now)
          /\ (entry[s].kind = "beat" => entry[s].last <= ran[s])
      BY DEF BeatWhileRunning
    <2>2. now \in Nat /\ ran[s] \in Nat
      BY HealthAssumption DEF Times
    <2>3. CASE Start(s)
      BY <1>3, <2>2, <2>3 DEF Start, Absent
    <2>4. CASE Register(s)
      BY <1>3, <2>1, <2>4 DEF Register, HSet
    <2>5. CASE StartHeartbeat(s)
      BY <1>3, <2>1, <2>2, <2>5 DEF StartHeartbeat, DoHeartbeat, HSet
    <2>6. CASE OnTimer(s)
      BY <1>3, <2>1, <2>2, <2>6 DEF OnTimer, DoHeartbeat, HSet
    <2>7. CASE Crash(s)
      BY <1>3, <2>1, <2>7 DEF Crash
    <2>8. CASE RedisLost(s)
      BY <1>3, <2>1, <2>8 DEF RedisLost
    <2> QED
      BY <2>3, <2>4, <2>5, <2>6, <2>7, <2>8 DEF ServerStep
  <1> QED
    BY <1>2, <1>3

\* Time passes no further than the timers allow.
LEMMA TickKeeps ==
  ASSUME IInv, Tick
  PROVE  BeatIsPending' /\ BeatWhileRunning'
  <1> USE DEF IInv, TypeOK, At, Steady, Times, Entries
  <1>1. now \in Nat /\ now' = now + 1
    BY HealthAssumption DEF Tick
  <1>2. ASSUME NEW s \in Servers, Steady(s)'
        PROVE  /\ entry'[s].kind = "beat"
               /\ due'[s] = entry'[s].last + Interval
               /\ now' <= due'[s] + Late
    <2>1. Steady(s) /\ now < due[s] + Late
      BY <1>2 DEF Tick
    <2> QED
      BY <1>1, <2>1, HealthAssumption DEF Tick, BeatIsPending
  <1>3. ASSUME NEW s \in Servers
        PROVE  /\ ran'[s] <= now'
               /\ spc'[s] # "down" => ran'[s] = now'
               /\ entry'[s].kind = "beat" => entry'[s].last <= ran'[s]
    <2>1. ran[s] \in Nat /\ entry[s].last \in Nat
      BY HealthAssumption
    <2>2. ran[s] <= now /\ (spc[s] # "down" => ran[s] = now)
          /\ (entry[s].kind = "beat" => entry[s].last <= ran[s])
      BY DEF BeatWhileRunning
    <2>3. ran'[s] = IF spc[s] = "down" THEN ran[s] ELSE now + 1
      BY DEF Tick
    <2> QED
      BY <1>1, <2>1, <2>2, <2>3 DEF Tick
  <1> QED
    BY <1>2, <1>3 DEF BeatIsPending, BeatWhileRunning

\* StatusServer only reads what the servers write.
LEMMA StatusKeeps ==
  ASSUME IInv, UNCHANGED <<now, serverVars>>
  PROVE  BeatIsPending' /\ BeatWhileRunning'
  BY DEF IInv, BeatIsPending, BeatWhileRunning, Steady, At, serverVars

-----------------------------------------------------------------------------
(* The theorems                                                            *)

\* The inductive invariant of the registry: types, pending timers, and heartbeats
\* that are no younger than the process.
THEOREM HealthInvariant == Spec => []IInv
  <1>1. Init => IInv
    BY HealthAssumption
    DEF Init, IInv, TypeOK, BeatIsPending, BeatWhileRunning, Steady, At, Absent, Entries, Times
  <1>2. IInv /\ [Next]_vars => IInv'
    <2> SUFFICES ASSUME IInv, [Next]_vars PROVE IInv'
      OBVIOUS
    <2>1. ASSUME NEW s \in Servers, ServerStep(s)
          PROVE  IInv'
      BY <2>1, ServerTypes, ServerKeepsBeat, ServerKeepsRan DEF IInv
    <2>2. ASSUME NEW i \in Servers, StatusStep(i)
          PROVE  IInv'
      <3>1. UNCHANGED <<now, serverVars>>
        BY <2>2 DEF StatusStep, DoCheck, CheckFails
      <3> QED
        BY <2>2, <3>1, StatusTypes, StatusKeeps DEF IInv
    <2>3. CASE StatusStart
      <3>1. UNCHANGED <<now, serverVars>>
        BY <2>3 DEF StatusStart
      <3> QED
        BY <2>3, <3>1, StatusTypes, StatusKeeps DEF IInv
    <2>4. CASE StatusCrash
      <3>1. UNCHANGED <<now, serverVars>>
        BY <2>4 DEF StatusCrash
      <3> QED
        BY <2>4, <3>1, StatusTypes, StatusKeeps DEF IInv
    <2>5. CASE Tick
      BY <2>5, StatusTypes, TickKeeps DEF IInv
    <2>6. CASE UNCHANGED vars
      BY <2>6 DEF vars, serverVars, statusVars, IInv, TypeOK, BeatIsPending,
                  BeatWhileRunning, Steady, At
    <2> QED
      BY <2>1, <2>2, <2>3, <2>4, <2>5, <2>6 DEF Next
  <1> QED
    BY <1>1, <1>2, PTL DEF Spec

\* Every variable keeps its type, whatever fails and restarts.
THEOREM HealthTypes == Spec => []TypeOK
  <1>1. IInv => TypeOK
    BY DEF IInv
  <1> QED
    BY <1>1, HealthInvariant, PTL

\* DoCheck never takes a steady server's entry for a dead one's: two intervals
\* suffice because a heartbeat is at most one interval late.
THEOREM SteadyServersAlive == Spec => []SteadyIsAlive
  <1>1. IInv => SteadyIsAlive
    <2> SUFFICES ASSUME IInv, NEW s \in Servers, Steady(s) PROVE IsAlive(entry[s])
      BY DEF SteadyIsAlive
    <2>1. entry[s].last \in Int /\ now \in Int
      BY HealthAssumption DEF IInv, TypeOK, Entries, Times
    <2>2. entry[s].kind = "beat" /\ now <= entry[s].last + Interval + Late
      BY DEF IInv, BeatIsPending
    <2> QED
      BY <2>1, <2>2, HealthAssumption DEF IsAlive
  <1> QED
    BY <1>1, HealthInvariant, PTL

\* A server comes to be listed only by an entry of the first server that is at most
\* two intervals old, and that server ran when it was written.
THEOREM ListedOnlyIfRanLately == Spec => ListedRanLately
  <1>1. IInv /\ [Next]_vars
          => [\A i \in healthy' \ healthy : now - ran[Home] <= 2 * Interval]_vars
    <2> SUFFICES ASSUME IInv, Next, NEW i \in healthy' \ healthy
                 PROVE  now - ran[Home] <= 2 * Interval
      OBVIOUS
    <2>1. IsAlive(entry[Home])
      BY DEF Next, ServerStep, StatusStep, Start, Register, StartHeartbeat, OnTimer, Crash,
             RedisLost, DoCheck, UpdateServerHealth, CheckFails, StatusStart, StatusCrash,
             Tick, statusVars
    <2>2. now \in Int /\ ran[Home] \in Int /\ entry[Home].last \in Int
      BY HomeIsServer, HealthAssumption DEF IInv, TypeOK, Entries, Times
    <2>3. entry[Home].last <= ran[Home]
      BY <2>1, HomeIsServer DEF IInv, BeatWhileRunning, IsAlive
    <2> QED
      BY <2>1, <2>2, <2>3, HealthAssumption DEF IsAlive
  <1> QED
    BY <1>1, HealthInvariant, PTL DEF Spec, ListedRanLately
=============================================================================
