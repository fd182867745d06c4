------------------------------ MODULE VerifyCode ------------------------------
(***************************************************************************)
(* Verification codes for one mail address (the Redis keys of different    *)
(* addresses never meet): GateServer's HTTP thread, which asks for a code  *)
(* and compares the one a user enters; VarifyServer, a node process that   *)
(* runs a handler per RPC, in steps between its awaits; Redis; the mail.   *)
(*                                                                         *)
(* The HTTP thread waits for each RPC, so two handlers overlap only after  *)
(* an RPC broke: GateServer gives the call up, the handler runs on.        *)
(***************************************************************************)
EXTENDS Naturals

CONSTANTS
  MaxCalls,   (* bound: the requests for a code                             *)
  Codes,      (* the codes that can be drawn                                *)
  Life,       (* 600 seconds, in ticks                                      *)
  MaxFaults,  (* bound: broken calls and Redis connections, crashes of      *)
              (* VarifyServer and mails refused, together                   *)
  None

ASSUME VerifyAssumption ==
  /\ MaxCalls \in Nat /\ MaxFaults \in Nat /\ Life \in Nat \ {0} /\ Codes # {}
  /\ None \notin Codes /\ None \notin Nat /\ None # "RPCFailed"

Calls == 1 .. MaxCalls   (* in the order they are made                      *)

VARIABLES
  code,     (* the value of code_<email> in Redis                           *)
  ttl,      (* its time to live; None: it has none                          *)
  up,       (* VarifyServer runs                                            *)
  client,   (* its RedisCli has not been told to quit                       *)
  pc,       (* what the handler of a call awaits, or the error with which   *)
            (* it goes on to call callback                                  *)
  uid,      (* its uniqueId                                                 *)
  waits,    (* the call the HTTP thread waits for                           *)
  result,   (* the error of its HTTP response                               *)
  rest,     (* the time the code had left when the mail of a call was sent  *)
  age,      (* how long ago that was, Life at most                          *)
  faults    (* faults so far                                                *)

redis == <<code, ttl>>
handlers == <<up, client, pc, uid>>
gate == <<waits, result>>
mails == <<rest, age>>
vars == <<redis, handlers, gate, mails, faults>>

Errors == {"Success", "RedisErr", "Exception"}

TypeOK ==
  /\ code \in Codes \cup {None} /\ ttl \in 1 .. Life \cup {None}
  /\ code = None => ttl = None
  /\ up \in BOOLEAN /\ client \in BOOLEAN
  /\ pc \in [Calls -> {"idle", "get", "set", "expire", "mail", "ended"} \cup Errors]
  /\ uid \in [Calls -> Codes \cup {None}]
  /\ waits \in Calls \cup {None}
  /\ result \in [Calls -> Errors \cup {"RPCFailed", None}]
  /\ rest \in [Calls -> 0 .. Life \cup {None}] /\ age \in [Calls -> 0 .. Life]
  /\ \A c \in Calls : pc[c] \in {"set", "expire", "mail"} => uid[c] \in Codes
  /\ faults \in 0 .. MaxFaults

Init ==
  /\ code = None /\ ttl = None
  /\ up = TRUE /\ client = TRUE
  /\ pc = [c \in Calls |-> "idle"]
  /\ uid = [c \in Calls |-> None]
  /\ waits = None /\ result = [c \in Calls |-> None]
  /\ rest = [c \in Calls |-> None] /\ age = [c \in Calls |-> 0]
  /\ faults = 0

\* A thing that goes wrong.
Fault == faults < MaxFaults /\ faults' = faults + 1

-----------------------------------------------------------------------------
(* GateServer                                                              *)

\* /get_varifycode: the RPC reaches a handler, or nobody.
Request(c) ==
  /\ waits = None /\ pc[c] = "idle" /\ result[c] = None
  /\ \A d \in 1 .. c - 1 : result[d] # None
  /\ \/ up /\ waits' = c /\ pc' = [pc EXCEPT ![c] = "get"] /\ UNCHANGED result
     \/ ~up /\ result' = [result EXCEPT ![c] = "RPCFailed"] /\ UNCHANGED <<waits, pc>>
  /\ UNCHANGED <<redis, up, client, uid, mails, faults>>

\* The call breaks, or GateServer restarts: the handler is not told.
CallBreaks(c) ==
  /\ waits = c /\ Fault
  /\ waits' = None /\ result' = [result EXCEPT ![c] = "RPCFailed"]
  /\ UNCHANGED <<redis, handlers, mails>>

\* /user_register and /reset_pwd: what a user is told who enters the code of a mail,
\* if GateServer's GET is answered.  The key is read, and is left as it is.
Check(c) ==
  IF code = None THEN "VarifyExpired"
  ELSE IF code # uid[c] THEN "VarifyCodeErr"
  ELSE "accepted"

-----------------------------------------------------------------------------
(* VarifyServer: GetVarifyCode                                             *)

Stores(u) == code' = u /\ ttl' = None
Expires == ttl' = (IF code = None THEN None ELSE Life) /\ UNCHANGED code

Goes(c, p) == pc' = [pc EXCEPT ![c] = p]

\* MUTANT of Get: a new code is drawn for every request.
GetDraws(c) ==
  /\ pc[c] = "get"
  /\ \E u \in Codes : uid' = [uid EXCEPT ![c] = u]
  /\ Goes(c, IF client THEN "set" ELSE "RedisErr")
  /\ UNCHANGED <<redis, up, client, gate, mails, faults>>

\* MUTANT of Get: what GetRedis returns is not compared with null.
GetTrusts(c) ==
  /\ pc[c] = "get"
  /\ uid' = [uid EXCEPT ![c] = IF client THEN code ELSE None] /\ Goes(c, "mail")
  /\ UNCHANGED <<redis, up, client, gate, mails, faults>>

\* GetRedis.  A client that was told to quit rejects every command: no code is found,
\* and the one drawn cannot be stored.
Get(c) ==
  /\ pc[c] = "get"
  /\ \/ /\ client /\ code # None
        /\ uid' = [uid EXCEPT ![c] = code] /\ Goes(c, "mail")
     \/ /\ client /\ code = None
        /\ \E u \in Codes : uid' = [uid EXCEPT ![c] = u]
        /\ Goes(c, "set")
     \/ /\ ~client
        /\ \E u \in Codes : uid' = [uid EXCEPT ![c] = u]
        /\ Goes(c, "RedisErr")
  /\ UNCHANGED <<redis, up, client, gate, mails, faults>>

\* SetRedisExpire: its SET.  A command that was under way when the client was told to
\* quit may have reached Redis.
Set(c) ==
  /\ pc[c] = "set"
  /\ \/ client /\ Stores(uid[c]) /\ Goes(c, "expire")
     \/ ~client /\ (Stores(uid[c]) \/ UNCHANGED redis) /\ Goes(c, "RedisErr")
  /\ UNCHANGED <<up, client, uid, gate, mails, faults>>

\* MUTANT of Expire: EXPIRE is sent, and not awaited, before SET has been answered.
ExpireIsLost(c) ==
  /\ pc[c] = "expire"
  /\ Goes(c, "mail")
  /\ UNCHANGED <<redis, up, client, uid, gate, mails, faults>>

\* MUTANT of Expire: a rejected EXPIRE throws past the handler, which never calls callback.
ExpireThrows(c) ==
  /\ pc[c] = "expire" /\ client
  /\ Expires /\ Goes(c, "mail")
  /\ UNCHANGED <<up, client, uid, gate, mails, faults>>

\* Its EXPIRE.
Expire(c) ==
  /\ pc[c] = "expire"
  /\ \/ client /\ Expires /\ Goes(c, "mail")
     \/ ~client /\ (Expires \/ UNCHANGED redis) /\ Goes(c, "RedisErr")
  /\ UNCHANGED <<up, client, uid, gate, mails, faults>>

\* A mail goes out; a code without a time to live has all of it left.
Sends(c) ==
  /\ rest' = [rest EXCEPT ![c] =
       IF code = None THEN 0 ELSE IF ttl = None THEN Life ELSE ttl]
  /\ age' = [age EXCEPT ![c] = 0]

\* SendMail: the mail is accepted, or the connection fails before or after that.
Mail(c) ==
  /\ pc[c] = "mail"
  /\ \/ Sends(c) /\ Goes(c, "Success") /\ UNCHANGED faults
     \/ Fault /\ (Sends(c) \/ UNCHANGED mails) /\ Goes(c, "Exception")
  /\ UNCHANGED <<redis, up, client, uid, gate>>

\* callback: the answer is dropped if GateServer does not wait for it any more.
Callback(c) ==
  /\ pc[c] \in Errors /\ Goes(c, "ended")
  /\ \/ /\ waits = c
        /\ waits' = None /\ result' = [result EXCEPT ![c] = pc[c]]
     \/ waits # c /\ UNCHANGED <<waits, result>>
  /\ UNCHANGED <<redis, up, client, uid, mails, faults>>

-----------------------------------------------------------------------------
(* The world                                                               *)

\* RedisCli reports an error and its handler calls quit, for good.
ClientQuits ==
  /\ up /\ client /\ Fault
  /\ client' = FALSE
  /\ UNCHANGED <<redis, up, pc, uid, gate, mails>>

\* VarifyServer crashes, and with it the RPC GateServer waits for.
Crash ==
  /\ up /\ Fault
  /\ up' = FALSE
  /\ pc' = [c \in Calls |-> IF pc[c] = "idle" THEN "idle" ELSE "ended"]
  /\ waits' = None
  /\ result' = [c \in Calls |-> IF waits = c THEN "RPCFailed" ELSE result[c]]
  /\ UNCHANGED <<redis, client, uid, mails>>

Start ==
  /\ ~up
  /\ up' = TRUE /\ client' = TRUE
  /\ UNCHANGED <<redis, pc, uid, gate, mails, faults>>

\* Time passes: a code runs out, a mail gets older.
Tick ==
  /\ ttl' = (IF ttl \in 2 .. Life THEN ttl - 1 ELSE None)
  /\ code' = (IF ttl = 1 THEN None ELSE code)
  /\ age' = [c \in Calls |-> IF rest[c] = None \/ age[c] = Life THEN age[c] ELSE age[c] + 1]
  /\ UNCHANGED <<handlers, gate, rest, faults>>

Next ==
  \/ \E c \in Calls :
       \/ Request(c) \/ CallBreaks(c) \/ Get(c) \/ Set(c) \/ Expire(c) \/ Mail(c) \/ Callback(c)
  \/ ClientQuits \/ Crash \/ Start \/ Tick

Spec == Init /\ [][Next]_vars

\* An await ends, and node runs what follows it: the Redis client, which resends or
\* rejects what it has not had an answer for, and the mail transport, which has
\* timeouts, settle every promise.
FairSpec ==
  /\ Spec
  /\ \A c \in Calls : /\ WF_vars(Get(c)) /\ WF_vars(Set(c)) /\ WF_vars(Expire(c))
                      /\ WF_vars(Mail(c)) /\ WF_vars(Callback(c))

-----------------------------------------------------------------------------
(* Properties                                                              *)

\* GateServer gave the call up, and its handler may have run on.
Orphaned(c) == result[c] = "RPCFailed"

\* A mailed code is accepted for as long as the code in Redis had left when the mail
\* went out, if GateServer can read it: a second request mails the same code, and a
\* VarifyServer handler that fails leaves it.  It is refused only if the handler of a
\* call that broke has stored a code of its own beside this one.
MailedCodeWorks ==
  \A c \in Calls :
    (rest[c] # None /\ age[c] < rest[c] /\ Check(c) # "accepted")
      => \E d \in Calls : Orphaned(d) /\ (d = c \/ uid[d] = code)

\* A code that no EXPIRE will follow.
Endless == code # None /\ ttl = None /\ \A c \in Calls : pc[c] # "expire"

\* README: a code lives for ten minutes.  SET and EXPIRE are two commands: a code is left
\* without a time to live only by a crash, or by a Redis connection given up, between them.
EndlessIfCutOff == [][Endless' => Endless \/ ~up' \/ ~client]_vars

\* GateServer's one HTTP thread is never held up for good by a request for a code.
RequestAnswered == \A c \in Calls : waits = c ~> waits # c
=============================================================================
