----------------------------- MODULE AccountBook -----------------------------
(***************************************************************************)
(* What somebody who registers, or resets a password, may rely on: the     *)
(* accounts as one book that is written in single steps.                   *)
(***************************************************************************)
EXTENDS Naturals

CONSTANTS
  Reqs,       (* requests, each handled once                               *)
  Requests,   (* what a request can be: [kind, name, email, pwd]           *)
  Accounts,   (* the accounts before the first request                     *)
  None        (* a request that has not been made                          *)

VARIABLES
  book,       (* the accounts: [uid, name, email, pwd]                     *)
  req,        (* what a request is                                         *)
  number,     (* the uid a registration was given, 0 if none               *)
  answer      (* what its client is told, "none" before, "lost" if nothing *)

vars == <<book, req, number, answer>>

Init ==
  /\ book = Accounts
  /\ req = [q \in Reqs |-> None]
  /\ number = [q \in Reqs |-> 0]
  /\ answer = [q \in Reqs |-> "none"]

SameAccount(r, s) == r.uid = s.uid /\ r.name = s.name /\ r.email = s.email

Pending(q, kind) == req[q] # None /\ req[q].kind = kind /\ answer[q] = "none"
Done == {q \in Reqs : answer[q] = "ok"}

\* The account of a registration, and whether its uid is a new one.
Entry(q) == [uid |-> number[q], name |-> req[q].name, email |-> req[q].email,
             pwd |-> req[q].pwd]
Fresh(n) == \A r \in book : r.uid < n

\* The reset q names an account and knows the e-mail of one with that name ...
Proven(q) == \E r \in book : r.name = req[q].name /\ r.email = req[q].email

\* ... and r has its password.
SetBy(q, r) == req[q].kind = "reset" /\ req[q].name = r.name /\ req[q].pwd = r.pwd /\ Proven(q)

\* B has the accounts of the book and no other, each with the password it had or with
\* one that a request of P has set.
Repassworded(B, P) ==
  /\ \A r \in book : \E s \in B : SameAccount(r, s)
  /\ \A s \in B : s \in book \/ \E r \in book, q \in P : SameAccount(r, s) /\ SetBy(q, s)
  /\ \A r, s \in B : r.uid = s.uid => r = s

Ask(q) ==
  /\ req[q] = None
  /\ \E r \in Requests : req' = [req EXCEPT ![q] = r]
  /\ UNCHANGED <<book, number, answer>>

\* A registration is given its uid, once.
Give(q) ==
  /\ Pending(q, "register") /\ number[q] = 0
  /\ number'[q] \in Nat \ {0} /\ Fresh(number'[q])
  /\ number' = [number EXCEPT ![q] = number'[q]]
  /\ UNCHANGED <<book, req, answer>>

\* It is entered, by one whose uid is still new, and its client may not be told.
\* Passwords that were set earlier may become visible only now.
Register(q) ==
  /\ Pending(q, "register") /\ Fresh(number[q])
  /\ Entry(q) \in book' /\ Repassworded(book' \ {Entry(q)}, Done)
  /\ answer' = answer \/ answer' = [answer EXCEPT ![q] = "ok"]
  /\ UNCHANGED <<req, number>>

\* A password is set, for those who know the e-mail.
Reset(q) ==
  /\ Pending(q, "reset") /\ Proven(q)
  /\ Repassworded(book', Done \cup {q})
  /\ answer' = [answer EXCEPT ![q] = "ok"]
  /\ UNCHANGED <<req, number>>

\* Nothing is entered or set: a registration is refused only if it was not entered.
Answer(q) ==
  /\ \E a \in {"ok", "refused", "lost"} :
       /\ \/ Pending(q, "register") /\ a = "lost"
          \/ /\ Pending(q, "register") /\ a = "refused"
             /\ number[q] = 0 \/ Fresh(number[q])
          \/ Pending(q, "reset") /\ a = "refused"
          \/ (\E k \in {"login", "chat", "friend"} : Pending(q, k)) /\ a # "lost"
       /\ answer' = [answer EXCEPT ![q] = a]
  /\ UNCHANGED <<book, req, number>>

Next == \E q \in Reqs : Ask(q) \/ Give(q) \/ Register(q) \/ Reset(q) \/ Answer(q)

Spec == Init /\ [][Next]_vars
=============================================================================
