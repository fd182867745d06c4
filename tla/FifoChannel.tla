------------------------------ MODULE FifoChannel ------------------------------
(***************************************************************************)
(* What a session promises to whoever calls async_send: its client handles *)
(* the messages in the order of the calls, each of them once and whole.    *)
(***************************************************************************)
EXTENDS Naturals, Sequences

CONSTANT Msgs   (* what can be sent                                         *)

VARIABLES
  sent,         (* messages given to async_send                             *)
  got           (* messages the client has handled                          *)

Init == sent = <<>> /\ got = <<>>

Send == (\E m \in Msgs : sent' = Append(sent, m)) /\ UNCHANGED got

Deliver ==
  /\ Len(got) < Len(sent)
  /\ got' = Append(got, sent[Len(got) + 1])
  /\ UNCHANGED sent

Spec == Init /\ [][Send \/ Deliver]_<<sent, got>>
=============================================================================
