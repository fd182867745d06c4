---------------------------- MODULE ConnPoolProofs ----------------------------
(***************************************************************************)
(* Proofs about ConnPool: its type invariant, the refinement of Lending,   *)
(* NothingIsLost and IdleIsNoticed, for both pools and any connections,    *)
(* threads and bounds.                                                     *)
(***************************************************************************)
EXTENDS ConnPool, FiniteSetTheorems, TLAPS

\* A thread has a connection exactly between getConnection and returnConnection, the
\* checking thread exactly while it checks one.
Owners ==
  /\ \A t \in Threads : con[t] # None <=> pc[t] = "have"
  /\ ccon # None <=> cpc \in {"check", "give"}
  /\ stop <=> closing # "open"

\* A connection is in one place at most, and there once.
OneHome ==
  /\ IsInjective(pool) /\ ccon \notin failed
  /\ \A c \in Conns : \A g, h \in Homes(c) : g = h

PoolInv == TypeOK /\ Owners /\ OneHome

\* The connection c moves from the homes P to the homes Q, and no other moves.
Moves(c, P, Q) ==
  /\ c \in Conns /\ Homes(c) = P /\ Homes(c)' = Q
  /\ \A d \in Conns \ {c} : Homes(d)' = Homes(d)

\* What a step does with the connections: none moves, one does, or a closed queue is
\* emptied.
Still == \A d \in Conns : Homes(d)' = Homes(d)
Lends == \E c \in Conns, t \in Threads :
           Moves(c, {"pool"}, {t}) /\ \A d \in Conns : t \notin Homes(d)
TakesBack == \E c \in Conns, t \in Threads : Moves(c, {t}, {"pool"})
Loses == (stop \/ kind = "mysql") /\ \E c \in Conns, t \in Threads : Moves(c, {t}, {})
TakesOut == \E c \in Conns : Moves(c, {"pool"}, {"check"})
Replaces == \E c \in Conns : Moves(c, {"check"}, {"pool"})
Drops == stop /\ \E c \in Conns : Moves(c, {"check"}, {})
Clears == stop /\ \A c \in Conns : Homes(c)' = Homes(c) \ {"pool"}

Hop == Still \/ Lends \/ TakesBack \/ Loses \/ TakesOut \/ Replaces \/ Drops \/ Clears

\* What every action keeps of the invariant, beside the homes.
Kept == TypeOK' /\ Owners' /\ IsInjective(pool)' /\ (ccon \notin failed)'

-----------------------------------------------------------------------------
(* Sequences without repetitions                                           *)

In(c, s) == \E i \in DOMAIN s : s[i] = c

\* Taking the front of such a sequence removes its one occurrence.
LEMMA TakeFront ==
  ASSUME NEW S, NEW s \in Seq(S), s # <<>>, IsInjective(s)
  PROVE  /\ Head(s) \in S /\ Tail(s) \in Seq(S) /\ IsInjective(Tail(s))
         /\ In(Head(s), s) /\ ~In(Head(s), Tail(s))
         /\ \A c : c # Head(s) => (In(c, Tail(s)) <=> In(c, s))
         /\ Len(Tail(s)) = Len(s) - 1 /\ Len(s) \in Nat \ {0}
<1> DEFINE r == Tail(s)
<1>1. /\ Len(s) \in Nat /\ Len(s) > 0 /\ DOMAIN s = 1 .. Len(s)
      /\ Head(s) = s[1] /\ Head(s) \in S
      /\ r \in Seq(S) /\ Len(r) = Len(s) - 1 /\ DOMAIN r = 1 .. Len(r)
      /\ \A i \in 1 .. Len(r) : r[i] = s[i + 1]
  OBVIOUS
<1> HIDE DEF r
<1>2. \A i, j \in 1 .. Len(s) : s[i] = s[j] => i = j
  BY <1>1 DEF IsInjective
<1>3. IsInjective(r)
  <2> SUFFICES ASSUME NEW i \in 1 .. Len(r), NEW j \in 1 .. Len(r), r[i] = r[j]
               PROVE  i = j
    BY <1>1 DEF IsInjective
  <2>1. i + 1 \in 1 .. Len(s) /\ j + 1 \in 1 .. Len(s) /\ s[i + 1] = s[j + 1]
    BY <1>1
  <2>2. i + 1 = j + 1
    BY <1>2, <2>1
  <2> QED
    BY <1>1, <2>2
<1>4. In(Head(s), s)
  BY <1>1 DEF In
<1>5. ~In(Head(s), r)
  <2> SUFFICES ASSUME NEW i \in 1 .. Len(r), r[i] = Head(s) PROVE FALSE
    BY <1>1 DEF In
  <2>1. i + 1 \in 1 .. Len(s) /\ 1 \in 1 .. Len(s) /\ s[i + 1] = s[1] /\ i + 1 # 1
    BY <1>1
  <2> QED
    BY <1>2, <2>1
<1>6. ASSUME NEW c, c # Head(s) PROVE In(c, r) <=> In(c, s)
  <2>1. ASSUME NEW i \in 1 .. Len(r), r[i] = c PROVE In(c, s)
    BY <1>1, <2>1 DEF In
  <2>2. ASSUME NEW i \in 1 .. Len(s), s[i] = c PROVE In(c, r)
    <3>1. i # 1
      BY <1>1, <1>6, <2>2
    <3>2. i - 1 \in 1 .. Len(r) /\ r[i - 1] = c
      BY <1>1, <2>2, <3>1
    <3> QED
      BY <1>1, <3>2 DEF In
  <2> QED
    BY <1>1, <2>1, <2>2 DEF In
<1> QED
  BY <1>1, <1>3, <1>4, <1>5, <1>6 DEF r

\* Appending what is not in it adds one occurrence.
LEMMA AppendNew ==
  ASSUME NEW S, NEW s \in Seq(S), NEW e \in S, IsInjective(s), ~In(e, s)
  PROVE  /\ Append(s, e) \in Seq(S) /\ IsInjective(Append(s, e))
         /\ In(e, Append(s, e))
         /\ \A c : c # e => (In(c, Append(s, e)) <=> In(c, s))
         /\ Len(Append(s, e)) = Len(s) + 1 /\ Len(s) \in Nat
<1> DEFINE r == Append(s, e)
<1>1. /\ Len(s) \in Nat /\ DOMAIN s = 1 .. Len(s)
      /\ r \in Seq(S) /\ Len(r) = Len(s) + 1 /\ DOMAIN r = 1 .. Len(r)
      /\ \A i \in 1 .. Len(s) : r[i] = s[i]
      /\ r[Len(s) + 1] = e
  OBVIOUS
<1> HIDE DEF r
<1>2. \A i \in 1 .. Len(r) : i \in 1 .. Len(s) \/ i = Len(s) + 1
  BY <1>1
<1>3. \A i \in 1 .. Len(s) : s[i] # e /\ i \in 1 .. Len(r)
  BY <1>1 DEF In
<1>4. \A i, j \in 1 .. Len(s) : s[i] = s[j] => i = j
  BY <1>1 DEF IsInjective
<1>5. IsInjective(r)
  <2> SUFFICES ASSUME NEW i \in 1 .. Len(r), NEW j \in 1 .. Len(r), r[i] = r[j]
               PROVE  i = j
    BY <1>1 DEF IsInjective
  <2> QED
    BY <1>1, <1>2, <1>3, <1>4
<1>6. In(e, r)
  <2>1. Len(s) + 1 \in 1 .. Len(r)
    BY <1>1
  <2> QED
    BY <1>1, <2>1 DEF In
<1>7. ASSUME NEW c, c # e PROVE In(c, r) <=> In(c, s)
  BY <1>1, <1>2, <1>3, <1>7 DEF In
<1> QED
  BY <1>1, <1>5, <1>6, <1>7 DEF r

\* A finite set is the sequence SetToSeq makes of it.
LEMMA SetToSeqOnce ==
  ASSUME NEW S, IsFiniteSet(S)
  PROVE  SetToSeq(S) \in Seq(S) /\ IsInjective(SetToSeq(S))
<1>1. Cardinality(S) \in Nat /\ ExistsBijection(1 .. Cardinality(S), S)
  BY FS_CardinalityType
<1>2. \E f \in [1 .. Cardinality(S) -> S] : IsInjective(f)
  BY <1>1 DEF ExistsBijection, Bijection, Injection
<1>3. /\ SetToSeq(S) \in [1 .. Cardinality(S) -> S] /\ IsInjective(SetToSeq(S))
  BY <1>2 DEF SetToSeq
<1> QED
  BY <1>1, <1>3

-----------------------------------------------------------------------------
(* Homes                                                                   *)

\* The homes of a connection, spelt out.
LEMMA HomeIs ==
  \A c : /\ \A h : h \in Homes(c) <=> \/ h \in Threads /\ con[h] = c
                                      \/ h = "pool" /\ In(c, pool)
                                      \/ h = "check" /\ (c = ccon \/ c \in failed)
         /\ \A h : h \in Homes(c)' <=> \/ h \in Threads /\ con'[h] = c
                                       \/ h = "pool" /\ In(c, pool')
                                       \/ h = "check" /\ (c = ccon' \/ c \in failed')
BY DEF Homes, In

\* A connection that is in one place is in no other.
LEMMA HomeOnly ==
  ASSUME PoolInv, NEW c \in Conns, NEW h \in Homes(c)
  PROVE  /\ Homes(c) = {h}
         /\ \A t \in Threads : con[t] = c => t = h
         /\ In(c, pool) => h = "pool"
         /\ c = ccon \/ c \in failed => h = "check"
<1>1. \A g \in Homes(c) : g = h
  BY DEF PoolInv, OneHome
<1> QED
  BY <1>1, HomeIs

\* Nothing moves if no thread, nor the checking thread, takes or gives a connection.
LEMMA StillIf ==
  ASSUME con' = con, \A d \in Conns : In(d, pool') <=> In(d, pool),
         \A d \in Conns : (d = ccon' \/ d \in failed') <=> (d = ccon \/ d \in failed)
  PROVE  Still
<1> SUFFICES ASSUME NEW d \in Conns PROVE \A h : h \in Homes(d)' <=> h \in Homes(d)
  BY DEF Still
<1> QED
  BY HomeIs

\* The names of the places are those of no threads.
LEMMA PlacesApart ==
  \A t \in Threads : t \notin {"pool", "check", "gone", "shared"}
BY PoolAssumption

\* The invariant's types, in the form the proofs below use.
LEMMA PoolFacts ==
  ASSUME PoolInv
  PROVE  /\ pool \in Seq(Conns) /\ IsInjective(pool) /\ ccon \notin failed
         /\ None \notin Conns /\ ccon \in Conns \cup {None} /\ failed \subseteq Conns
         /\ con \in [Threads -> Conns \cup {None}]
         /\ \A t \in Threads : con[t] # None <=> pc[t] = "have"
         /\ ccon # None <=> cpc \in {"check", "give"}
BY PoolAssumption DEF PoolInv, TypeOK, Owners, OneHome

-----------------------------------------------------------------------------
(* The actions that move no connection                                     *)

\* Nothing of the pool changes at all.
LEMMA IdleStep ==
  ASSUME PoolInv, UNCHANGED vars PROVE Kept /\ Hop
<1>1. Kept
  BY DEF Kept, PoolInv, TypeOK, Owners, OneHome, vars, callers, checker
<1>2. Still
  BY StillIf DEF vars, callers, checker
<1> QED
  BY <1>1, <1>2 DEF Hop

\* Threads that call, sleep and wake.
LEMMA ThreadStep ==
  ASSUME PoolInv, NEW t \in Threads, Call(t) \/ Sleep(t) \/ SpuriousWakeup(t)
  PROVE  Kept /\ Hop
<1>1. Still
  BY StillIf DEF Call, Sleep, SpuriousWakeup, checker
<1>2. MaxCalls \in Nat /\ MaxFaults \in Nat
  BY PoolAssumption
<1>3. CASE Call(t)
  <2>1. Kept
    BY <1>2, <1>3 DEF Kept, PoolInv, TypeOK, Owners, OneHome, Call, checker
  <2> QED
    BY <1>1, <2>1 DEF Hop
<1>4. CASE Sleep(t)
  <2>1. Kept
    BY <1>4 DEF Kept, PoolInv, TypeOK, Owners, OneHome, Sleep, checker
  <2> QED
    BY <1>1, <2>1 DEF Hop
<1>5. CASE SpuriousWakeup(t)
  <2>1. Kept
    BY <1>2, <1>5 DEF Kept, PoolInv, TypeOK, Owners, OneHome, SpuriousWakeup, Fault, checker
  <2> QED
    BY <1>1, <2>1 DEF Hop
<1> QED
  BY <1>3, <1>4, <1>5

\* The beginning and the end of a round of the checking thread.
LEMMA RoundStep ==
  ASSUME PoolInv, CheckBegins \/ RoundEnds \/ ReconnectFails
  PROVE  Kept /\ Hop
<1>1. Still
  BY StillIf DEF CheckBegins, RoundEnds, ReconnectFails, Pauses, Goes
<1>2. MaxFaults \in Nat /\ (pool \in Seq(Conns) => Len(pool) \in Nat)
  BY PoolAssumption
<1>3. Kept
  <2>1. CASE CheckBegins
    BY <1>2, <2>1 DEF Kept, PoolInv, TypeOK, Owners, OneHome, CheckBegins, Goes
  <2>2. CASE RoundEnds
    BY <2>2 DEF Kept, PoolInv, TypeOK, Owners, OneHome, RoundEnds, Pauses, Goes
  <2>3. CASE ReconnectFails
    BY <1>2, <2>3
       DEF Kept, PoolInv, TypeOK, Owners, OneHome, ReconnectFails, Pauses, Goes, Fault
  <2> QED
    BY <2>1, <2>2, <2>3
<1> QED
  BY <1>1, <1>3 DEF Hop

\* A ping: the connection stays with the checking thread, noted as failed or not.
LEMMA PingStep ==
  ASSUME PoolInv, CheckPings PROVE Kept /\ Hop
<1>1. ccon \in Conns /\ None \notin Conns /\ None \notin failed
  BY PoolFacts DEF CheckPings
<1>2. Still
  <2>1. \A d \in Conns : (d = ccon' \/ d \in failed') <=> (d = ccon \/ d \in failed)
    BY <1>1 DEF CheckPings
  <2>2. con' = con /\ pool' = pool
    BY DEF CheckPings, Goes
  <2> QED
    BY <2>1, <2>2, StillIf
<1>3. Kept
  BY <1>1 DEF Kept, PoolInv, TypeOK, Owners, OneHome, CheckPings, Goes
<1> QED
  BY <1>2, <1>3 DEF Hop

\* Close, until it empties the queue, and a connection that breaks.
LEMMA WorldStep ==
  ASSUME PoolInv, SetStop \/ NotifyAll \/ Join \/ (\E c \in Conns : Break(c))
  PROVE  Kept /\ Hop
<1>1. Still
  BY StillIf DEF SetStop, NotifyAll, Join, Break, callers, checker
<1>2. Kept
  <2>1. CASE SetStop
    BY <2>1 DEF Kept, PoolInv, TypeOK, Owners, OneHome, SetStop, callers, checker
  <2>2. CASE NotifyAll
    BY <2>2 DEF Kept, PoolInv, TypeOK, Owners, OneHome, NotifyAll, Asleep, checker
  <2>3. CASE Join
    BY <2>3 DEF Kept, PoolInv, TypeOK, Owners, OneHome, Join, callers, checker
  <2>4. CASE \E c \in Conns : Break(c)
    <3>1. MaxFaults \in Nat
      BY PoolAssumption
    <3> QED
      BY <2>4, <3>1 DEF Kept, PoolInv, TypeOK, Owners, OneHome, Break, Fault, callers, checker
  <2> QED
    BY <2>1, <2>2, <2>3, <2>4
<1> QED
  BY <1>1, <1>2 DEF Hop

-----------------------------------------------------------------------------
(* The actions that move a connection                                      *)

\* notify_one touches no thread but one that sleeps.
LEMMA Notified ==
  ASSUME NEW p \in [Threads -> {"out", "lock", "empty", "asleep", "have", "null"}],
         NotifyOne(p)
  PROVE  /\ pc' \in [Threads -> {"out", "lock", "empty", "asleep", "have", "null"}]
         /\ \A t \in Threads : pc'[t] = "have" <=> p[t] = "have"
BY DEF NotifyOne

\* getConnection lends the front of the queue, or moves nothing.
LEMMA GetStep ==
  ASSUME PoolInv, NEW t \in Threads, GetConnection(t)
  PROVE  Kept /\ Hop
<1>1. CASE ~stop /\ pool # <<>>
  <2>0. PICK c \in Conns : c = Head(pool)
    BY <1>1, PoolFacts, TakeFront
  <2>1. /\ con' = [con EXCEPT ![t] = c] /\ pool' = Tail(pool)
        /\ pc' = [pc EXCEPT ![t] = "have"]
        /\ UNCHANGED <<stop, live, calls, checker, closing, kind, faults>>
    BY <1>1, <2>0 DEF GetConnection
  <2>2. /\ c \in Conns /\ Tail(pool) \in Seq(Conns) /\ IsInjective(Tail(pool))
        /\ In(c, pool) /\ ~In(c, Tail(pool))
        /\ \A d : d # c => (In(d, Tail(pool)) <=> In(d, pool))
    BY <1>1, <2>0, PoolFacts, TakeFront
  <2>3. con[t] = None /\ None \notin Conns
    BY PoolFacts DEF GetConnection
  <2>4. Homes(c) = {"pool"} /\ (\A s \in Threads : con[s] # c) /\ c # ccon /\ c \notin failed
    <3>1. "pool" \in Homes(c)
      BY <2>2, HomeIs
    <3> QED
      BY <2>2, <3>1, HomeOnly, PlacesApart
  <2>5. Homes(c)' = {t}
    <3>1. \A h : h \in Homes(c)' <=> h = t
      <4>1. \A h \in Threads : con'[h] = c <=> h = t
        BY <2>1, <2>4, PoolFacts
      <4> QED
        BY <2>1, <2>2, <2>4, <4>1, HomeIs DEF checker
    <3> QED
      BY <3>1
  <2>6. \A d \in Conns \ {c} : Homes(d)' = Homes(d)
    <3> SUFFICES ASSUME NEW d \in Conns \ {c} PROVE \A h : h \in Homes(d)' <=> h \in Homes(d)
      OBVIOUS
    <3>1. \A h \in Threads : con'[h] = d <=> con[h] = d
      BY <2>1, <2>3, PoolFacts
    <3> QED
      BY <2>1, <2>2, <3>1, HomeIs DEF checker
  <2>7. \A d \in Conns : t \notin Homes(d)
    BY <2>3, HomeIs, PlacesApart
  <2>8. Lends
    BY <2>2, <2>4, <2>5, <2>6, <2>7 DEF Lends, Moves
  <2>9. Kept
    BY <2>1, <2>2, <2>3 DEF Kept, PoolInv, TypeOK, Owners, OneHome, checker
  <2> QED
    BY <2>8, <2>9 DEF Hop
<1>2. CASE stop \/ pool = <<>>
  <2>1. /\ pc' \in {[pc EXCEPT ![t] = "null"], [pc EXCEPT ![t] = "empty"]} /\ pc[t] = "lock"
        /\ UNCHANGED <<pool, con, stop, live, calls, checker, closing, kind, faults>>
    BY <1>2 DEF GetConnection
  <2>2. Still
    BY <2>1, StillIf DEF checker
  <2>3. Kept
    BY <2>1 DEF Kept, PoolInv, TypeOK, Owners, OneHome, checker
  <2> QED
    BY <2>2, <2>3 DEF Hop
<1> QED
  BY <1>1, <1>2

\* What a thread has is at that thread and nowhere else.
LEMMA OwnerIsHome ==
  ASSUME PoolInv, NEW t \in Threads, pc[t] = "have"
  PROVE  /\ con[t] \in Conns /\ Homes(con[t]) = {t}
         /\ \A s \in Threads : con[s] = con[t] => s = t
         /\ ~In(con[t], pool) /\ con[t] # ccon /\ con[t] \notin failed
<1>1. con[t] \in Conns
  BY PoolFacts
<1>2. t \in Homes(con[t])
  BY HomeIs
<1> QED
  BY <1>1, <1>2, HomeOnly, PlacesApart

\* returnConnection gives it to the queue, or drops it.
LEMMA ReturnStep ==
  ASSUME PoolInv, NEW t \in Threads, ReturnConnection(t) \/ Forget(t)
  PROVE  Kept /\ Hop
<1>0. PICK c \in Conns : c = con[t]
  BY PoolFacts DEF ReturnConnection, Forget
<1>1. /\ pc[t] = "have" /\ con' = [con EXCEPT ![t] = None]
      /\ UNCHANGED <<stop, live, calls, checker, closing, kind>>
  BY DEF ReturnConnection, Forget, Fault
<1>2. /\ c \in Conns /\ Homes(c) = {t} /\ (\A s \in Threads : con[s] = c => s = t)
      /\ ~In(c, pool) /\ c # ccon /\ c \notin failed /\ None \notin Conns
  BY <1>0, <1>1, OwnerIsHome, PoolFacts
<1>3. \A h \in Threads : con'[h] # c /\ \A d \in Conns \ {c} : con'[h] = d <=> con[h] = d
  BY <1>0, <1>1, <1>2, PoolFacts
<1>4. CASE pool' = pool /\ pc' = [pc EXCEPT ![t] = "out"] /\ (stop \/ kind = "mysql")
           /\ faults' \in 0 .. MaxFaults
  <2>1. Homes(c)' = {}
    <3>1. \A h : h \notin Homes(c)'
      BY <1>1, <1>2, <1>3, <1>4, HomeIs DEF checker
    <3> QED
      BY <3>1
  <2>2. \A d \in Conns \ {c} : Homes(d)' = Homes(d)
    <3> SUFFICES ASSUME NEW d \in Conns \ {c} PROVE \A h : h \in Homes(d)' <=> h \in Homes(d)
      OBVIOUS
    <3> QED
      BY <1>1, <1>3, <1>4, HomeIs DEF checker
  <2>3. Loses
    BY <1>2, <1>4, <2>1, <2>2 DEF Loses, Moves
  <2>4. Kept
    BY <1>1, <1>4 DEF Kept, PoolInv, TypeOK, Owners, OneHome, checker
  <2> QED
    BY <2>3, <2>4 DEF Hop
<1>5. CASE pool' = Append(pool, c) /\ NotifyOne([pc EXCEPT ![t] = "out"]) /\ UNCHANGED faults
  <2>1. /\ pool' \in Seq(Conns) /\ IsInjective(pool') /\ In(c, pool')
        /\ \A d : d # c => (In(d, pool') <=> In(d, pool))
    BY <1>2, <1>5, PoolFacts, AppendNew
  <2>2. Homes(c)' = {"pool"}
    <3>1. \A h : h \in Homes(c)' <=> h = "pool"
      BY <1>1, <1>2, <1>3, <2>1, HomeIs DEF checker
    <3> QED
      BY <3>1
  <2>3. \A d \in Conns \ {c} : Homes(d)' = Homes(d)
    <3> SUFFICES ASSUME NEW d \in Conns \ {c} PROVE \A h : h \in Homes(d)' <=> h \in Homes(d)
      OBVIOUS
    <3> QED
      BY <1>1, <1>3, <2>1, HomeIs DEF checker
  <2>4. TakesBack
    BY <1>2, <2>2, <2>3 DEF TakesBack, Moves
  <2>5. /\ [pc EXCEPT ![t] = "out"] \in
             [Threads -> {"out", "lock", "empty", "asleep", "have", "null"}]
        /\ \A s \in Threads : [pc EXCEPT ![t] = "out"][s] = "have" <=> con'[s] # None
    BY <1>1, PoolFacts DEF PoolInv, TypeOK
  <2>6. /\ pc' \in [Threads -> {"out", "lock", "empty", "asleep", "have", "null"}]
        /\ \A s \in Threads : pc'[s] = "have" <=> con'[s] # None
    BY <1>5, <2>5, Notified
  <2>7. Kept
    BY <1>1, <1>5, <2>1, <2>6 DEF Kept, PoolInv, TypeOK, Owners, OneHome, checker
  <2> QED
    BY <2>4, <2>7 DEF Hop
<1>6. MaxFaults \in Nat /\ faults \in 0 .. MaxFaults
  BY PoolAssumption DEF PoolInv, TypeOK
<1> QED
  BY <1>0, <1>1, <1>4, <1>5, <1>6 DEF ReturnConnection, Forget, Fault

\* The checking thread takes the front of the queue, or ends its round.
LEMMA TakeOutStep ==
  ASSUME PoolInv, CheckTakes PROVE Kept /\ Hop
<1> DEFINE over == left = 0 \/ pool = <<>> \/ (kind = "redis" /\ stop)
<1>1. /\ cpc = "loop" /\ UNCHANGED <<stop, live, callers, closing, kind, faults, fresh, failed>>
      /\ ccon = None
  BY PoolFacts DEF CheckTakes, Goes, callers
<1>2. CASE ~over
  <2>1. PICK c \in Conns : c = Head(pool)
    BY <1>2, PoolFacts, TakeFront
  <2>2. ccon' = c /\ pool' = Tail(pool) /\ left' = left - 1 /\ cpc' = "check" /\ left # 0
    BY <1>2, <2>1 DEF CheckTakes, Goes
  <2>3. /\ pool' \in Seq(Conns) /\ IsInjective(pool') /\ In(c, pool) /\ ~In(c, pool')
        /\ \A d : d # c => (In(d, pool') <=> In(d, pool))
    BY <1>2, <2>1, <2>2, PoolFacts, TakeFront
  <2>4. Homes(c) = {"pool"} /\ (\A s \in Threads : con[s] # c) /\ c # ccon /\ c \notin failed
    <3>1. "pool" \in Homes(c)
      BY <2>3, HomeIs
    <3> QED
      BY <2>3, <3>1, HomeOnly, PlacesApart
  <2>5. Homes(c)' = {"check"}
    <3>1. \A h : h \in Homes(c)' <=> h = "check"
      BY <1>1, <2>2, <2>3, <2>4, HomeIs DEF callers
    <3> QED
      BY <3>1
  <2>6. \A d \in Conns \ {c} : Homes(d)' = Homes(d)
    <3> SUFFICES ASSUME NEW d \in Conns \ {c} PROVE \A h : h \in Homes(d)' <=> h \in Homes(d)
      OBVIOUS
    <3>1. d # ccon /\ d # ccon'
      BY <1>1, <2>2, PoolFacts
    <3> QED
      BY <1>1, <2>3, <3>1, HomeIs DEF callers
  <2>7. TakesOut
    BY <2>4, <2>5, <2>6 DEF TakesOut, Moves
  <2>8. Kept
    <3>1. left' \in Nat /\ c # None
      BY <2>2, PoolFacts DEF PoolInv, TypeOK
    <3> QED
      BY <1>1, <2>2, <2>3, <2>4, <3>1 DEF Kept, PoolInv, TypeOK, Owners, OneHome, callers
  <2> QED
    BY <2>7, <2>8 DEF Hop
<1>3. CASE over
  <2>1. left' = 0 /\ cpc' = "repair" /\ UNCHANGED <<pool, ccon>>
    BY <1>3 DEF CheckTakes, Goes
  <2>2. Still
    BY <1>1, <2>1, StillIf DEF callers
  <2>3. Kept
    BY <1>1, <2>1 DEF Kept, PoolInv, TypeOK, Owners, OneHome, callers
  <2> QED
    BY <2>2, <2>3 DEF Hop
<1> QED
  BY <1>2, <1>3

\* What the checking thread holds or is to replace is with it and nowhere else.
LEMMA CheckIsHome ==
  ASSUME PoolInv, NEW c \in Conns, c = ccon \/ c \in failed
  PROVE  /\ Homes(c) = {"check"} /\ ~In(c, pool) /\ \A s \in Threads : con[s] # c
         /\ ~(c = ccon /\ c \in failed)
<1>1. "check" \in Homes(c)
  BY HomeIs
<1> QED
  BY <1>1, HomeOnly, PlacesApart, PoolFacts

\* The checking thread appends a connection to the queue, or drops it.
LEMMA GiveHop ==
  ASSUME PoolInv, NEW c \in Conns, c = ccon \/ c \in failed, con' = con,
         c # ccon' /\ c \notin failed',
         \A d \in Conns \ {c} : (d = ccon' \/ d \in failed') <=> (d = ccon \/ d \in failed),
         pool' = Append(pool, c) \/ (stop /\ pool' = pool)
  PROVE  Hop /\ pool' \in Seq(Conns) /\ IsInjective(pool')
<1>1. Homes(c) = {"check"} /\ ~In(c, pool) /\ \A s \in Threads : con[s] # c
  BY CheckIsHome
<1>2. CASE pool' = Append(pool, c)
  <2>1. /\ pool' \in Seq(Conns) /\ IsInjective(pool') /\ In(c, pool')
        /\ \A d : d # c => (In(d, pool') <=> In(d, pool))
    BY <1>1, <1>2, PoolFacts, AppendNew
  <2>2. Homes(c)' = {"pool"}
    <3>1. \A h : h \in Homes(c)' <=> h = "pool"
      BY <1>1, <2>1, HomeIs
    <3> QED
      BY <3>1
  <2>3. \A d \in Conns \ {c} : Homes(d)' = Homes(d)
    <3> SUFFICES ASSUME NEW d \in Conns \ {c} PROVE \A h : h \in Homes(d)' <=> h \in Homes(d)
      OBVIOUS
    <3> QED
      BY <2>1, HomeIs
  <2> QED
    BY <1>1, <2>1, <2>2, <2>3 DEF Hop, Replaces, Moves
<1>3. CASE stop /\ pool' = pool
  <2>1. Homes(c)' = {}
    <3>1. \A h : h \notin Homes(c)'
      BY <1>1, <1>3, HomeIs
    <3> QED
      BY <3>1
  <2>2. \A d \in Conns \ {c} : Homes(d)' = Homes(d)
    <3> SUFFICES ASSUME NEW d \in Conns \ {c} PROVE \A h : h \in Homes(d)' <=> h \in Homes(d)
      OBVIOUS
    <3> QED
      BY <1>3, HomeIs
  <2> QED
    BY <1>1, <1>3, <2>1, <2>2, PoolFacts DEF Hop, Drops, Moves
<1> QED
  BY <1>2, <1>3

\* ... a connection that works,
LEMMA GiveStep ==
  ASSUME PoolInv, CheckGives PROVE Kept /\ Hop
<1>1. PICK c \in Conns : c = ccon
  BY PoolFacts DEF CheckGives
<1>2. /\ ccon' = None /\ cpc' = "loop"
      /\ UNCHANGED <<con, stop, live, calls, closing, left, fresh, failed, kind, faults>>
      /\ \/ stop /\ UNCHANGED <<pool, pc>>
         \/ pool' = Append(pool, c) /\ NotifyOne(pc)
  BY <1>1 DEF CheckGives, Goes
<1>3. \A d \in Conns \ {c} : (d = ccon' \/ d \in failed') <=> (d = ccon \/ d \in failed)
  BY <1>1, <1>2, PoolFacts
<1>4. c # ccon' /\ c \notin failed' /\ None \notin failed'
  BY <1>1, <1>2, PoolFacts
<1>5. Hop /\ pool' \in Seq(Conns) /\ IsInjective(pool')
  BY <1>1, <1>2, <1>3, <1>4, GiveHop
<1>6. /\ pc' \in [Threads -> {"out", "lock", "empty", "asleep", "have", "null"}]
      /\ \A t \in Threads : pc'[t] = "have" <=> pc[t] = "have"
  BY <1>2, Notified DEF PoolInv, TypeOK
<1>7. Kept
  BY <1>2, <1>4, <1>5, <1>6 DEF Kept, PoolInv, TypeOK, Owners, OneHome
<1> QED
  BY <1>5, <1>7

\* ... or the replacement of one that did not.
LEMMA ReconnectStep ==
  ASSUME PoolInv, Reconnect PROVE Kept /\ Hop
<1>1. PICK c \in failed :
        /\ failed' = failed \ {c} /\ live' = [live EXCEPT ![c] = TRUE]
        /\ \/ stop /\ UNCHANGED <<pool, pc>>
           \/ pool' = Append(pool, c) /\ (NotifyOne(pc) \/ UNCHANGED pc)
  BY DEF Reconnect
<1>2. UNCHANGED <<stop, con, calls, cpc, ccon, left, fresh, closing, kind, faults>>
  BY DEF Reconnect
<1>3. c \in Conns /\ c # ccon
  BY <1>1, PoolFacts
<1>4. \A d \in Conns \ {c} : (d = ccon' \/ d \in failed') <=> (d = ccon \/ d \in failed)
  BY <1>1, <1>2
<1>5. Hop /\ pool' \in Seq(Conns) /\ IsInjective(pool')
  BY <1>1, <1>2, <1>3, <1>4, GiveHop
<1>6. /\ pc' \in [Threads -> {"out", "lock", "empty", "asleep", "have", "null"}]
      /\ \A t \in Threads : pc'[t] = "have" <=> pc[t] = "have"
  BY <1>1, Notified DEF PoolInv, TypeOK
<1>7. Kept
  BY <1>1, <1>2, <1>5, <1>6 DEF Kept, PoolInv, TypeOK, Owners, OneHome
<1> QED
  BY <1>5, <1>7

\* RedisMgr::Close empties the queue.
LEMMA ClearStep ==
  ASSUME PoolInv, ClearConnections PROVE Kept /\ Hop
<1>1. /\ stop /\ pool' = <<>> /\ closing' = "cleared"
      /\ UNCHANGED <<stop, live, callers, checker, kind, faults>>
  BY DEF ClearConnections, PoolInv, Owners
<1>2. pool' \in Seq(Conns) /\ IsInjective(pool') /\ \A c : ~In(c, pool')
  BY <1>1 DEF IsInjective, In
<1>3. Clears
  <2> SUFFICES ASSUME NEW d \in Conns
               PROVE  \A h : h \in Homes(d)' <=> h \in Homes(d) /\ h # "pool"
    BY <1>1 DEF Clears
  <2> QED
    BY <1>1, <1>2, HomeIs, PlacesApart DEF callers, checker
<1>4. Kept
  BY <1>1, <1>2 DEF Kept, PoolInv, TypeOK, Owners, OneHome, callers, checker
<1> QED
  BY <1>3, <1>4 DEF Hop

-----------------------------------------------------------------------------
(* The invariant                                                           *)

\* A pool begins with each connection that could be opened once in the queue.
LEMMA PoolInit ==
  ASSUME Init
  PROVE  PoolInv /\ \A c \in Conns : Homes(c) \in {{}, {"pool"}}
<1>1. PICK opened \in SUBSET Conns :
        /\ pool = SetToSeq(opened)
        /\ IF kind = "redis" THEN RedisOpens(opened) ELSE MysqlOpens(opened)
  BY DEF Init
<1>2. SetToSeq(opened) \in Seq(opened) /\ IsInjective(SetToSeq(opened))
  <2>1. IsFiniteSet(opened)
    BY FS_Subset, PoolAssumption
  <2> QED
    BY <2>1, SetToSeqOnce
<1>3. pool \in Seq(Conns) /\ IsInjective(pool)
  BY <1>1, <1>2
<1>4. cpc \in {"pause", "absent"} /\ fresh \subseteq Conns
  BY <1>1 DEF RedisOpens, MysqlOpens
<1>5. TypeOK /\ Owners
  <2>1. /\ kind \in Kinds /\ stop = FALSE /\ live = [c \in Conns |-> TRUE]
        /\ pc = [t \in Threads |-> "out"] /\ con = [t \in Threads |-> None]
        /\ calls = [t \in Threads |-> 0] /\ ccon = None /\ left = 0 /\ failed = {}
        /\ closing = "open" /\ faults = 0
    BY DEF Init
  <2>2. 0 \in 0 .. MaxCalls /\ 0 \in 0 .. MaxFaults
    BY PoolAssumption
  <2>3. TypeOK
    BY <1>3, <1>4, <2>1, <2>2 DEF TypeOK
  <2> QED
    BY <1>4, <2>1, <2>3 DEF Owners
<1>6. \A c \in Conns : Homes(c) \in {{}, {"pool"}}
  <2> SUFFICES ASSUME NEW c \in Conns PROVE \A h : h \in Homes(c) => h = "pool"
    OBVIOUS
  <2> QED
    BY HomeIs, PoolAssumption DEF Init
<1>7. OneHome
  <2>1. ccon \notin failed
    BY DEF Init
  <2> QED
    BY <1>3, <1>6, <2>1 DEF OneHome
<1> QED
  BY <1>5, <1>6, <1>7 DEF PoolInv

\* Every step keeps the invariant and is one of the moves.
LEMMA PoolStep ==
  ASSUME PoolInv, [Next]_vars PROVE PoolInv' /\ Hop
<1>1. Kept /\ Hop
  <2>1. CASE UNCHANGED vars
    BY <2>1, IdleStep
  <2>2. CASE \E t \in Threads : Call(t) \/ Sleep(t) \/ SpuriousWakeup(t)
    BY <2>2, ThreadStep
  <2>3. CASE \E t \in Threads : GetConnection(t)
    BY <2>3, GetStep
  <2>4. CASE \E t \in Threads : ReturnConnection(t) \/ Forget(t)
    BY <2>4, ReturnStep
  <2>5. CASE CheckBegins \/ RoundEnds \/ ReconnectFails
    BY <2>5, RoundStep
  <2>6. CASE CheckTakes
    BY <2>6, TakeOutStep
  <2>7. CASE CheckPings
    BY <2>7, PingStep
  <2>8. CASE CheckGives
    BY <2>8, GiveStep
  <2>9. CASE Reconnect
    BY <2>9, ReconnectStep
  <2>10. CASE SetStop \/ NotifyAll \/ Join \/ (\E c \in Conns : Break(c))
    BY <2>10, WorldStep
  <2>11. CASE ClearConnections
    BY <2>11, ClearStep
  <2> QED
    BY <2>1, <2>2, <2>3, <2>4, <2>5, <2>6, <2>7, <2>8, <2>9, <2>10, <2>11 DEF Next
<1>2. \A c \in Conns : \A g, h \in Homes(c)' : g = h
  <2>1. \A c \in Conns : \A g, h \in Homes(c) : g = h
    BY DEF PoolInv, OneHome
  <2>2. CASE Still \/ Clears
    BY <2>1, <2>2 DEF Still, Clears
  <2>3. CASE Lends \/ TakesOut
    BY <2>1, <2>3 DEF Lends, TakesOut, Moves
  <2>4. CASE TakesBack \/ Loses
    BY <2>1, <2>4 DEF TakesBack, Loses, Moves
  <2>5. CASE Replaces \/ Drops
    BY <2>1, <2>5 DEF Replaces, Drops, Moves
  <2> QED
    BY <1>1, <2>2, <2>3, <2>4, <2>5 DEF Hop
<1>3. OneHome'
  BY <1>1, <1>2 DEF Kept, OneHome
<1> QED
  BY <1>1, <1>3 DEF Kept, PoolInv

\* The invariant: the types, who has which connection, and one home for each.
THEOREM PoolInvariant == Spec => []PoolInv
<1>1. Init => PoolInv
  BY PoolInit
<1>2. PoolInv /\ [Next]_vars => PoolInv'
  BY PoolStep
<1> QED
  BY <1>1, <1>2, PTL DEF Spec

\* The types of ConnPool, for both pools and all bounds.
THEOREM PoolTypes == Spec => []TypeOK
<1>1. PoolInv => TypeOK
  BY DEF PoolInv
<1> QED
  BY <1>1, PoolInvariant, PTL

\* RedisConPool loses no connection before it is closed, whatever breaks.
THEOREM NothingLost == Spec => NothingIsLost
<1>1. ASSUME PoolInv, [Next]_vars
      PROVE  [(kind = "redis" /\ ~stop) =>
                \A c \in Conns : Homes(c) # {} => Homes(c)' # {}]_vars
  <2> SUFFICES ASSUME kind = "redis", ~stop, NEW c \in Conns, Homes(c) # {}
               PROVE  Homes(c)' # {}
    OBVIOUS
  <2>1. CASE Still
    BY <2>1 DEF Still
  <2>2. CASE \E d \in Conns : \E P, q : Moves(d, P, {q})
    BY <2>2 DEF Moves
  <2> QED
    BY <1>1, PoolStep, <2>1, <2>2
       DEF Hop, Lends, TakesBack, Loses, TakesOut, Replaces, Drops, Clears
<1> QED
  BY <1>1, PoolInvariant, PTL DEF Spec, NothingIsLost

-----------------------------------------------------------------------------
(* The refinement of Lending                                               *)

\* A connection in one place is there for Lending, one in none is gone.
LEMMA PlaceIs ==
  ASSUME NEW c
  PROVE  /\ Homes(c) = {} => Place(c) = "gone"
         /\ \A h : Homes(c) = {h} => Place(c) = h
         /\ Homes(c)' = {} => Place(c)' = "gone"
         /\ \A h : Homes(c)' = {h} => Place(c)' = h
<1>1. \A H, h : H = {h} => (\E g \in H : H = {g}) /\ H # {} /\ (CHOOSE g \in H : TRUE) = h
  OBVIOUS
<1> HIDE DEF Homes
<1> QED
  BY <1>1 DEF Place

\* A move of one connection is a move in Lending.
LEMMA MoveMaps ==
  ASSUME NEW c \in Conns, NEW p, NEW q, NEW Q, Moves(c, {p}, Q),
         Q = {q} \/ (Q = {} /\ q = "gone")
  PROVE  Lent!Move(c, p, q)
<1>1. Place(c) = p /\ Place(c)' = q
  BY PlaceIs DEF Moves
<1>2. \A d \in Conns \ {c} : Place(d)' = Place(d)
  BY DEF Moves, Place
<1> QED
  BY <1>1, <1>2 DEF Lent!Move

\* A pool lends each connection to one thread at a time, and only from the queue.
THEOREM LendsEachOnce == Spec => LendsEach
<1>1. Init => Lent!Init
  <2> SUFFICES ASSUME Init PROVE \A c \in Conns : Place(c) \in {"pool", "gone"}
    BY DEF Lent!Init
  <2> QED
    BY PoolInit, PlaceIs
<1>2. ASSUME PoolInv, [Next]_vars
      PROVE  [Lent!Next]_([c \in Conns |-> Place(c)])
  <2>1. Hop
    BY <1>2, PoolStep
  <2>2. CASE Still
    <3>1. \A d \in Conns : Place(d)' = Place(d)
      BY <2>2 DEF Still, Place
    <3> QED
      BY <3>1
  <2>3. CASE Lends
    <3>1. PICK c \in Conns, t \in Threads :
            Moves(c, {"pool"}, {t}) /\ \A d \in Conns : t \notin Homes(d)
      BY <2>3 DEF Lends
    <3>2. Lent!Move(c, "pool", t)
      BY <3>1, MoveMaps
    <3>3. \A d \in Conns : Place(d) # t
      <4> SUFFICES ASSUME NEW d \in Conns PROVE Place(d) # t
        OBVIOUS
      <4>1. CASE Homes(d) = {}
        BY <4>1, PlaceIs, PlacesApart
      <4>2. CASE \E h \in Homes(d) : TRUE
        <5>1. PICK h \in Homes(d) : TRUE
          BY <4>2
        <5>2. Homes(d) = {h}
          BY <1>2, HomeOnly
        <5> QED
          BY <3>1, <5>1, <5>2, PlaceIs
      <4> QED
        BY <4>1, <4>2
    <3>4. Lent!Lend(c, t)
      BY <3>2, <3>3 DEF Lent!Lend
    <3> QED
      BY <3>4 DEF Lent!Next
  <2>4. CASE TakesBack
    <3>1. PICK c \in Conns, t \in Threads : Moves(c, {t}, {"pool"})
      BY <2>4 DEF TakesBack
    <3>2. Lent!Move(c, t, "pool")
      BY <3>1, MoveMaps
    <3> QED
      BY <3>2 DEF Lent!GiveBack, Lent!Next
  <2>5. CASE Loses
    <3>1. PICK c \in Conns, t \in Threads : Moves(c, {t}, {})
      BY <2>5 DEF Loses
    <3>2. Lent!Move(c, t, "gone")
      BY <3>1, MoveMaps
    <3> QED
      BY <3>2 DEF Lent!GiveBack, Lent!Next
  <2>6. CASE TakesOut
    <3>1. PICK c \in Conns : Moves(c, {"pool"}, {"check"})
      BY <2>6 DEF TakesOut
    <3>2. Lent!Move(c, "pool", "check")
      BY <3>1, MoveMaps
    <3> QED
      BY <3>2 DEF Lent!TakeOut, Lent!Next
  <2>7. CASE Replaces
    <3>1. PICK c \in Conns : Moves(c, {"check"}, {"pool"})
      BY <2>7 DEF Replaces
    <3>2. Lent!Move(c, "check", "pool")
      BY <3>1, MoveMaps
    <3> QED
      BY <3>2 DEF Lent!Replace, Lent!Next
  <2>8. CASE Drops
    <3>1. PICK c \in Conns : Moves(c, {"check"}, {})
      BY <2>8 DEF Drops
    <3>2. Lent!Move(c, "check", "gone")
      BY <3>1, MoveMaps
    <3> QED
      BY <3>2 DEF Lent!Replace, Lent!Next
  <2>9. CASE Clears
    <3> SUFFICES ASSUME NEW d \in Conns
                 PROVE  Place(d)' = IF Place(d) = "pool" THEN "gone" ELSE Place(d)
      BY DEF Lent!Clear, Lent!Next
    <3>1. Homes(d)' = Homes(d) \ {"pool"}
      BY <2>9 DEF Clears
    <3>2. CASE Homes(d) = {}
      BY <3>1, <3>2, PlaceIs
    <3>3. CASE \E h \in Homes(d) : TRUE
      <4>1. PICK h \in Homes(d) : TRUE
        BY <3>3
      <4>2. Homes(d) = {h}
        BY <1>2, HomeOnly
      <4> QED
        BY <3>1, <4>2, PlaceIs
    <3> QED
      BY <3>2, <3>3
  <2> QED
    BY <2>1, <2>2, <2>3, <2>4, <2>5, <2>6, <2>7, <2>8, <2>9 DEF Hop
<1> QED
  BY <1>1, <1>2, PoolInvariant, PTL DEF Spec, LendsEach, Lent!Spec

-----------------------------------------------------------------------------
(* IdleIsNoticed                                                           *)

\* The threads on their way to the queue, in p.
Coming(p) == {t \in Threads : p[t] = "lock"}

\* A thread that has seen the queue empty still has the mutex, so it is empty.
WaitInv == \A t \in Threads : pc[t] = "empty" => pool = <<>>

IdleInv == WaitInv /\ IdleIsNoticed

\* One thread more, or one less, is on its way.
LEMMA ComingCount ==
  ASSUME NEW p, NEW q, NEW t \in Threads,
         \A s \in Threads \ {t} : q[s] = "lock" <=> p[s] = "lock"
  PROVE  /\ Cardinality(Coming(p)) \in Nat /\ Cardinality(Coming(q)) \in Nat
         /\ q[t] # "lock" \/ p[t] = "lock" =>
              Cardinality(Coming(q)) <= Cardinality(Coming(p))
         /\ p[t] # "lock" \/ q[t] = "lock" =>
              Cardinality(Coming(q)) >= Cardinality(Coming(p))
         /\ p[t] # "lock" /\ q[t] = "lock" =>
              Cardinality(Coming(q)) = Cardinality(Coming(p)) + 1
         /\ p[t] = "lock" /\ q[t] # "lock" =>
              Cardinality(Coming(q)) = Cardinality(Coming(p)) - 1
<1>1. \A r : IsFiniteSet(Coming(r)) /\ Cardinality(Coming(r)) \in Nat
  <2> TAKE r
  <2>1. Coming(r) \subseteq Threads /\ IsFiniteSet(Threads)
    BY PoolAssumption DEF Coming
  <2> QED
    BY <2>1, FS_Subset, FS_CardinalityType
<1>2. CASE p[t] # "lock" /\ q[t] = "lock"
  <2>1. Coming(q) = Coming(p) \cup {t} /\ t \notin Coming(p)
    BY <1>2 DEF Coming
  <2>2. Cardinality(Coming(q)) = Cardinality(Coming(p)) + 1
    BY <1>1, <2>1, FS_AddElement
  <2> QED
    BY <1>1, <1>2, <2>2
<1>3. CASE p[t] = "lock" /\ q[t] # "lock"
  <2>1. Coming(q) = Coming(p) \ {t} /\ t \in Coming(p)
    BY <1>3 DEF Coming
  <2>2. Cardinality(Coming(q)) = Cardinality(Coming(p)) - 1
    BY <1>1, <2>1, FS_RemoveElement
  <2> QED
    BY <1>1, <1>3, <2>2
<1>4. CASE p[t] = "lock" <=> q[t] = "lock"
  <2>1. Coming(q) = Coming(p)
    BY <1>4 DEF Coming
  <2> QED
    BY <1>1, <1>4, <2>1
<1> QED
  BY <1>2, <1>3, <1>4

\* IdleIsNoticed, with the set of threads on their way named.
LEMMA IdleIs ==
  /\ IdleIsNoticed <=> ((kind = "redis" /\ ~stop /\ \E t \in Threads : pc[t] = "asleep")
                          => Len(pool) <= Cardinality(Coming(pc)))
  /\ IdleIsNoticed' <=> ((kind' = "redis" /\ ~stop' /\ \E t \in Threads : pc'[t] = "asleep")
                          => Len(pool') <= Cardinality(Coming(pc')))
BY DEF IdleIsNoticed, Asleep, Coming

\* A connection is appended and a thread, if one sleeps, is woken for it.
LEMMA AppendNotifies ==
  ASSUME NEW S, pool \in Seq(S), NEW c \in S, pool' = Append(pool, c),
         NEW p \in [Threads -> {"out", "lock", "empty", "asleep", "have", "null"}],
         NotifyOne(p), kind' = kind, stop' = stop, IdleIsNoticed,
         \A s \in Threads : /\ p[s] = "lock" <=> pc[s] = "lock"
                            /\ p[s] = "asleep" <=> pc[s] = "asleep"
  PROVE  IdleIsNoticed'
<1> SUFFICES ASSUME kind = "redis", ~stop, NEW s \in Threads, pc'[s] = "asleep"
             PROVE  Len(pool') <= Cardinality(Coming(pc'))
  BY IdleIs
<1>1. PICK t \in Threads : p[t] = "asleep" /\ pc' = [p EXCEPT ![t] = "lock"]
  BY DEF NotifyOne
<1>2. Len(pool) <= Cardinality(Coming(pc))
  BY <1>1, IdleIs
<1>3. Coming(p) = Coming(pc)
  BY DEF Coming
<1>4. /\ Cardinality(Coming(pc')) = Cardinality(Coming(p)) + 1
      /\ Cardinality(Coming(p)) \in Nat
  BY <1>1, ComingCount
<1>5. Len(pool') = Len(pool) + 1 /\ Len(pool) \in Nat
  OBVIOUS
<1> QED
  BY <1>2, <1>3, <1>4, <1>5

\* Every step keeps it.
LEMMA IdleStepInv ==
  ASSUME PoolInv, IdleInv, [Next]_vars PROVE IdleInv'
<1> USE DEF IdleInv
<1>1. /\ pool \in Seq(Conns) /\ Len(pool) \in Nat
      /\ pc \in [Threads -> {"out", "lock", "empty", "asleep", "have", "null"}]
      /\ \A r : Cardinality(Coming(r)) \in Nat
  <2>1. \A r : Cardinality(Coming(r)) \in Nat
    <3> TAKE r
    <3>1. Coming(r) \subseteq Threads /\ IsFiniteSet(Threads)
      BY PoolAssumption DEF Coming
    <3> QED
      BY <3>1, FS_Subset, FS_CardinalityType
  <2> QED
    BY <2>1 DEF PoolInv, TypeOK
<1>2. CASE pool' = pool /\ pc' = pc /\ kind' = kind /\ stop' = stop
  BY <1>2, IdleIs DEF WaitInv
<1>3. CASE stop /\ stop' = stop /\ pool' \in {pool, <<>>}
           /\ \A t \in Threads : pc'[t] = "empty" => pc[t] = "empty"
  BY <1>3, IdleIs DEF WaitInv
<1>4. ASSUME NEW t \in Threads, Call(t) \/ SpuriousWakeup(t) PROVE IdleInv'
  <2>1. /\ pc[t] # "lock" /\ pc' = [pc EXCEPT ![t] = "lock"]
        /\ UNCHANGED <<pool, stop, kind>>
    BY <1>4 DEF Call, SpuriousWakeup, Fault
  <2>2. Cardinality(Coming(pc')) = Cardinality(Coming(pc)) + 1
    BY <1>1, <2>1, ComingCount
  <2>3. \A s \in Threads : pc'[s] = "asleep" => pc[s] = "asleep"
    BY <1>1, <2>1
  <2>4. WaitInv'
    BY <1>1, <2>1 DEF WaitInv
  <2> QED
    BY <1>1, <2>1, <2>2, <2>3, <2>4, IdleIs
<1>5. ASSUME NEW t \in Threads, GetConnection(t) PROVE IdleInv'
  <2>1. pc[t] = "lock" /\ MutexFree /\ UNCHANGED <<stop, kind>>
    BY <1>5 DEF GetConnection
  <2>2. CASE stop
    <3>1. pc' = [pc EXCEPT ![t] = "null"] /\ pool' = pool
      BY <1>5, <2>2 DEF GetConnection
    <3> QED
      BY <1>1, <2>1, <2>2, <3>1, IdleIs DEF WaitInv
  <2>3. CASE ~stop /\ pool # <<>>
    <3>1. pc' = [pc EXCEPT ![t] = "have"] /\ pool' = Tail(pool)
      BY <1>5, <2>3 DEF GetConnection
    <3>2. Cardinality(Coming(pc')) = Cardinality(Coming(pc)) - 1
      BY <1>1, <2>1, <3>1, ComingCount
    <3>3. Len(pool') = Len(pool) - 1
      BY <1>1, <2>3, <3>1
    <3>4. \A s \in Threads : pc'[s] = "asleep" => pc[s] = "asleep"
      BY <1>1, <3>1
    <3>5. WaitInv'
      BY <1>1, <2>1, <3>1 DEF WaitInv, MutexFree
    <3> QED
      BY <1>1, <2>1, <3>2, <3>3, <3>4, <3>5, IdleIs
  <2>4. CASE ~stop /\ pool = <<>>
    <3>1. pool' = <<>> /\ Len(pool') = 0
      BY <1>5, <2>4 DEF GetConnection
    <3> QED
      BY <1>1, <3>1, IdleIs DEF WaitInv
  <2> QED
    BY <2>2, <2>3, <2>4
<1>6. ASSUME NEW t \in Threads, Sleep(t) PROVE IdleInv'
  <2>1. pool' = <<>> /\ Len(pool') = 0
    BY <1>6 DEF Sleep, WaitInv
  <2> QED
    BY <1>1, <2>1, IdleIs DEF WaitInv
<1>7. ASSUME NEW t \in Threads, ReturnConnection(t) PROVE IdleInv'
  <2>1. pc[t] = "have" /\ MutexFree /\ UNCHANGED <<stop, kind>>
    BY <1>7 DEF ReturnConnection
  <2>2. CASE stop /\ pool' = pool /\ pc' = [pc EXCEPT ![t] = "out"]
    <3>1. \A s \in Threads : pc'[s] = "empty" => pc[s] = "empty"
      BY <1>1, <2>2
    <3> QED
      BY <1>3, <2>1, <2>2, <3>1
  <2>3. CASE /\ pool' = Append(pool, con[t]) /\ con[t] \in Conns
             /\ NotifyOne([pc EXCEPT ![t] = "out"])
    <3> DEFINE p == [pc EXCEPT ![t] = "out"]
    <3>1. /\ p \in [Threads -> {"out", "lock", "empty", "asleep", "have", "null"}]
          /\ \A s \in Threads : /\ p[s] = "lock" <=> pc[s] = "lock"
                                /\ p[s] = "asleep" <=> pc[s] = "asleep"
                                /\ p[s] # "empty"
      BY <1>1, <2>1 DEF MutexFree
    <3>2. IdleIsNoticed'
      BY <1>1, <2>1, <2>3, <3>1, AppendNotifies
    <3>3. \A s \in Threads : pc'[s] # "empty"
      BY <2>3, <3>1 DEF NotifyOne
    <3> QED
      BY <3>2, <3>3 DEF WaitInv
  <2>4. con[t] \in Conns
    BY <2>1, OwnerIsHome
  <2> QED
    BY <1>7, <2>2, <2>3, <2>4 DEF ReturnConnection
<1>8. ASSUME NEW t \in Threads, Forget(t) PROVE IdleInv'
  <2>1. kind' # "redis" /\ pool' = pool /\ pc' = [pc EXCEPT ![t] = "out"]
    BY <1>8 DEF Forget, Fault
  <2> QED
    BY <1>1, <2>1, IdleIs DEF WaitInv
<1>9. CASE CheckTakes
  <2>1. MutexFree /\ UNCHANGED <<stop, kind, pc>>
    BY <1>9 DEF CheckTakes, Goes
  <2>2. CASE pool' = pool
    BY <1>2, <2>1, <2>2
  <2>3. CASE pool # <<>> /\ pool' = Tail(pool)
    <3>1. Len(pool') = Len(pool) - 1
      BY <1>1, <2>3
    <3>2. WaitInv'
      BY <2>1 DEF WaitInv, MutexFree
    <3> QED
      BY <1>1, <2>1, <3>1, <3>2, IdleIs
  <2> QED
    BY <1>9, <2>2, <2>3 DEF CheckTakes
<1>10. CASE CheckGives
  <2>1. MutexFree /\ UNCHANGED <<stop, kind>> /\ ccon \in Conns
    BY <1>10, PoolFacts DEF CheckGives, Goes
  <2>2. CASE pool' = pool /\ pc' = pc
    BY <1>2, <2>1, <2>2
  <2>3. CASE pool' = Append(pool, ccon) /\ NotifyOne(pc)
    <3>1. IdleIsNoticed'
      BY <1>1, <2>1, <2>3, AppendNotifies
    <3>2. \A s \in Threads : pc'[s] # "empty"
      BY <1>1, <2>1, <2>3 DEF NotifyOne, MutexFree
    <3> QED
      BY <3>1, <3>2 DEF WaitInv
  <2> QED
    BY <1>10, <2>2, <2>3 DEF CheckGives
<1>11. CASE Reconnect
  <2>1. PICK c \in failed :
          \/ pool' = pool /\ pc' = pc
          \/ pool' = Append(pool, c) /\ NotifyOne(pc)
          \/ kind = "mysql" /\ UNCHANGED pc
    BY <1>11 DEF Reconnect
  <2>2. MutexFree /\ UNCHANGED <<stop, kind>> /\ c \in Conns
    BY <1>11, PoolFacts DEF Reconnect
  <2>3. CASE pool' = pool /\ pc' = pc
    BY <1>2, <2>2, <2>3
  <2>4. CASE pool' = Append(pool, c) /\ NotifyOne(pc)
    <3>1. IdleIsNoticed'
      BY <1>1, <2>2, <2>4, AppendNotifies
    <3>2. \A s \in Threads : pc'[s] # "empty"
      BY <1>1, <2>2, <2>4 DEF NotifyOne, MutexFree
    <3> QED
      BY <3>1, <3>2 DEF WaitInv
  <2>5. CASE kind = "mysql" /\ UNCHANGED pc
    BY <2>2, <2>5, IdleIs DEF WaitInv, MutexFree
  <2> QED
    BY <2>1, <2>3, <2>4, <2>5
<1>12. CASE SetStop
  BY <1>12, IdleIs DEF SetStop, callers, WaitInv
<1>13. CASE NotifyAll \/ ClearConnections
  <2>1. /\ stop /\ stop' = stop /\ pool' \in {pool, <<>>}
        /\ \A t \in Threads : pc'[t] = "empty" => pc[t] = "empty"
    BY <1>13 DEF NotifyAll, ClearConnections, PoolInv, Owners, callers
  <2> QED
    BY <1>3, <2>1
<1>14. CASE CheckBegins \/ CheckPings \/ RoundEnds \/ ReconnectFails \/ Join
            \/ (\E c \in Conns : Break(c)) \/ UNCHANGED vars
  <2>1. pool' = pool /\ pc' = pc /\ kind' = kind /\ stop' = stop
    BY <1>14 DEF CheckBegins, CheckPings, RoundEnds, ReconnectFails, Join, Break, Pauses,
                 Goes, Fault, callers, vars
  <2> QED
    BY <1>2, <2>1
<1> QED
  BY <1>4, <1>5, <1>6, <1>7, <1>8, <1>9, <1>10, <1>11, <1>12, <1>13, <1>14 DEF Next

\* In RedisConPool no thread sleeps while a connection lies in the queue that no thread
\* on its way there will take.
THEOREM IdleNoticed == Spec => []IdleIsNoticed
<1>1. ASSUME Init PROVE IdleInv
  <2>1. \A t \in Threads : pc[t] = "out"
    BY <1>1 DEF Init
  <2> QED
    BY <2>1, IdleIs DEF IdleInv, WaitInv
<1>2. PoolInv /\ IdleInv /\ [Next]_vars => IdleInv'
  BY IdleStepInv
<1>3. IdleInv => IdleIsNoticed
  BY DEF IdleInv
<1> QED
  BY <1>1, <1>2, <1>3, PoolInvariant, PTL DEF Spec
=============================================================================
