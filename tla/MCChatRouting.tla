--------------------------- MODULE MCChatRouting ---------------------------
(***************************************************************************)
(* Small instances of ChatRouting.  alice has the client a1, bob has b1    *)
(* and b2 (a second login, or a reconnect after the first was lost), and   *)
(* carol has no account.                                                   *)
(***************************************************************************)
EXTENDS ChatRouting, TLC

CONSTANTS alice, bob, carol, a1, b1, b2

MCUsers      == {alice, bob, carol}
MCRegistered == {alice, bob}
MCOwner      == [c \in Clients |-> IF c = a1 THEN alice ELSE bob]
MCSymmetry   == Permutations(Servers)

\* The client has begun to log in.
Begun(c) == asking = c \/ phase[c] # "new"

(* The instance of three clients, two messages and a fault is too large.  A fault and  *)
(* the second message meet a1 and b1 only; b1 sends and meets faults when a1 has begun *)
(* (a1 does before b1 has, which is the same with the names exchanged); with b2 there  *)
(* is one message, from a1 to bob if all three have begun; a message to carol stays    *)
(* the only one; and the second message is not a public one.                           *)
MCBound ==
  /\ to[2] \in {None, alice, bob}
  /\ to[1] = carol => stage[2] = "unsent"
  /\ Begun(b1) /\ ~Begun(a1) => faults = 0 /\ (Begun(b2) \/ stage[1] = "unsent")
  /\ Begun(b2) => Begun(b1) /\ faults = 0 /\ stage[2] = "unsent"
  /\ Begun(b2) /\ Begun(a1) => stage[1] = "unsent" \/ (from[1] = a1 /\ to[1] = bob)
=============================================================================
