------------------------------- MODULE Lending -------------------------------
(***************************************************************************)
(* What a connection pool promises: a connection is in the pool, with the  *)
(* one thread it was lent to, or not there, and a thread has one at most.  *)
(***************************************************************************)
CONSTANTS
  Conns,    (* the connections a pool is opened with                        *)
  Threads   (* the threads that borrow them                                 *)

VARIABLE place   (* where a connection is                                   *)

Places == {"pool", "check", "gone"} \cup Threads

Init == place \in [Conns -> {"pool", "gone"}]

Move(c, p, q) == place[c] = p /\ place' = [place EXCEPT ![c] = q]

\* A thread without a connection is lent one that is in the pool.
Lend(c, t) == Move(c, "pool", t) /\ \A d \in Conns : place[d] # t

\* The thread returns it, or loses it for good.
GiveBack(c, t) == Move(c, t, "pool") \/ Move(c, t, "gone")

\* A broken connection is taken out and replaced, unless the pool is closed.
TakeOut(c) == Move(c, "pool", "check")
Replace(c) == Move(c, "check", "pool") \/ Move(c, "check", "gone")

\* What is in a closed pool is thrown away.
Clear == place' = [c \in Conns |-> IF place[c] = "pool" THEN "gone" ELSE place[c]]

Next ==
  \/ \E c \in Conns :
       \/ \E t \in Threads : Lend(c, t) \/ GiveBack(c, t)
       \/ TakeOut(c) \/ Replace(c)
  \/ Clear

Spec == Init /\ [][Next]_place
=============================================================================
