---------------------------- MODULE MessageService ----------------------------
(***************************************************************************)
(* What the users of the chat may rely on, whichever servers they are      *)
(* connected to and whatever fails: who is handed which message, what its  *)
(* sender is told, and what the history holds.                             *)
(***************************************************************************)
EXTENDS Naturals, Sequences

CONSTANTS
  Users,      (* names a message can be addressed to                        *)
  Clients,    (* client processes                                           *)
  Owner,      (* the user of each                                           *)
  Msgs,       (* messages, numbered in the order they are written           *)
  None,       (* no client, no user                                         *)
  Everyone    (* the addressee of a public message                          *)

VARIABLES
  from, to,   (* sender and addressee of a message, None before it is       *)
              (* written                                                    *)
  inbox,      (* the messages handed to a client, in order                  *)
  answer,     (* what has become of a message: "ok" and "failed" are what   *)
              (* its sender is told, "lost" is that nobody tells            *)
  history     (* the messages stored for a pair of users, by each of them   *)

vars == <<from, to, inbox, answer, history>>

Init ==
  /\ from = [m \in Msgs |-> None] /\ to = [m \in Msgs |-> None]
  /\ inbox = [c \in Clients |-> <<>>]
  /\ answer = [m \in Msgs |-> "none"]
  /\ history = [p \in Users \X Users |-> {}]

Open(m) == from[m] # None /\ answer[m] = "none"

\* Some client of the addressee has been handed m.
Received(c, m) == \E i \in 1 .. Len(inbox[c]) : inbox[c][i] = m
Handed(m) == \E c \in Clients : Owner[c] = to[m] /\ Received(c, m)

\* Whatever its sender wrote before m has been answered, or is lost.
InTurn(m) == \A k \in Msgs : k < m /\ from[k] = from[m] => answer[k] # "none"

\* A client writes the next message, to a user or to everyone.
Write ==
  /\ \E m \in Msgs, c \in Clients, u \in Users \cup {Everyone} :
       /\ from[m] = None /\ \A k \in Msgs : k < m => from[k] # None
       /\ from' = [from EXCEPT ![m] = c] /\ to' = [to EXCEPT ![m] = u]
  /\ UNCHANGED <<inbox, answer, history>>

\* One client of the addressee is handed a message nobody was handed before: in its
\* turn, and possibly after it has been given up, but never after "ok".
Deliver(m, c) ==
  /\ from[m] # None /\ answer[m] # "ok" /\ to[m] = Owner[c]
  /\ InTurn(m) /\ \A d \in Clients : ~Received(d, m)
  /\ inbox' = [inbox EXCEPT ![c] = Append(@, m)]
  /\ UNCHANGED <<from, to, answer, history>>

\* A public message is handed to any number of others, once.
Broadcast(m) ==
  /\ Open(m) /\ to[m] = Everyone /\ InTurn(m)
  /\ \E D \in SUBSET (Clients \ {from[m]}) :
       inbox' = [c \in Clients |-> IF c \in D THEN Append(inbox[c], m) ELSE inbox[c]]
  /\ answer' = [answer EXCEPT ![m] = "ok"]
  /\ UNCHANGED <<from, to, history>>

\* A message that was handed over is stored for its sender ...
Store(m) ==
  /\ Open(m) /\ Handed(m)
  /\ history' = [history EXCEPT ![<<Owner[from[m]], to[m]>>] = @ \cup {m}]
  /\ UNCHANGED <<from, to, inbox, answer>>

\* ... and then, if it is stored for its sender, for its receiver, and the sender is told
\* that it was sent.  Storing may fail.
Confirm(m) ==
  /\ Open(m) /\ Handed(m)
  /\ \/ UNCHANGED history
     \/ /\ m \in history[<<Owner[from[m]], to[m]>>]
        /\ history' = [history EXCEPT ![<<to[m], Owner[from[m]]>>] = @ \cup {m}]
  /\ answer' = [answer EXCEPT ![m] = "ok"]
  /\ UNCHANGED <<from, to, inbox>>

\* Messages are given up: one that cannot be handed over, and its sender is told, or
\* all that a server or a client had with it when it went.
GiveUp ==
  /\ \E M \in SUBSET {m \in Msgs : Open(m)}, r \in {"failed", "lost"} :
       answer' = [m \in Msgs |-> IF m \in M THEN r ELSE answer[m]]
  /\ UNCHANGED <<from, to, inbox, history>>

Next ==
  \/ Write \/ GiveUp
  \/ \E m \in Msgs : Broadcast(m) \/ Store(m) \/ Confirm(m)
  \/ \E m \in Msgs, c \in Clients : Deliver(m, c)

Spec == Init /\ [][Next]_vars
=============================================================================
