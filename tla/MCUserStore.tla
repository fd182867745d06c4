---------------------------- MODULE MCUserStore ----------------------------
(***************************************************************************)
(* Small instances of UserStore: ann has an account, bob and cat register, *)
(* and so does somebody with bob's address who wants ann's name, or to set *)
(* her password.                                                           *)
(***************************************************************************)
EXTENDS UserStore, TLC

CONSTANTS ann, bob, cat, annMail, bobMail, catMail, old, new

MCAccounts == {[uid |-> 1, name |-> ann, email |-> annMail, pwd |-> old]}
MCRequests ==
  {[kind |-> "register", name |-> bob, email |-> bobMail, pwd |-> old],
   [kind |-> "register", name |-> cat, email |-> catMail, pwd |-> old],
   [kind |-> "register", name |-> ann, email |-> bobMail, pwd |-> old],
   [kind |-> "reset", name |-> bob, email |-> bobMail, pwd |-> new],
   [kind |-> "reset", name |-> ann, email |-> bobMail, pwd |-> new],
   [kind |-> "login", name |-> bob, email |-> bobMail, pwd |-> new],
   [kind |-> "chat", name |-> annMail, email |-> bobMail, pwd |-> old],
   [kind |-> "friend", name |-> annMail, email |-> bobMail, pwd |-> old]}
MCFewRequests ==
  {[kind |-> "register", name |-> bob, email |-> bobMail, pwd |-> old],
   [kind |-> "reset", name |-> ann, email |-> annMail, pwd |-> new],
   [kind |-> "reset", name |-> bob, email |-> annMail, pwd |-> new],
   [kind |-> "friend", name |-> annMail, email |-> bobMail, pwd |-> old]}
MCSymmetry == Permutations(Reqs) \cup Permutations(Conns)
=============================================================================
