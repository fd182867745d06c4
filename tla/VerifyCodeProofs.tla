--------------------------- MODULE VerifyCodeProofs ---------------------------
(***************************************************************************)
(* Proofs about VerifyCode: its type invariant, EndlessIfCutOff and        *)
(* MailedCodeWorks, for any number of calls, codes, faults and any Life.   *)
(***************************************************************************)
EXTENDS VerifyCode, TLAPS

\* A handler whose call nobody waits for was given up; a handler draws, and mails, once.
CallInv ==
  \A c \in Calls :
    /\ waits = c => result[c] = None
    /\ pc[c] \notin {"idle", "ended"} /\ waits # c => Orphaned(c)
    /\ pc[c] \in {"idle", "get"} => uid[c] = None
    /\ pc[c] \in {"idle", "get", "set", "expire", "mail"} => rest[c] = None

\* What is stored is the code of call c, or that of a call given up.
Stored(c) == code = uid[c] \/ \E d \in Calls : Orphaned(d) /\ uid[d] = code

\* The mail of call c was promised some time that is not over.
Lasting(c) == rest[c] # None /\ age[c] < rest[c] /\ ~Orphaned(c)

\* A lasting code has the time it was promised; one that will be mailed is stored; and a
\* handler GateServer waits for stores a new one only when no mailed code lasts.
CodeInv ==
  \A c \in Calls :
    /\ pc[c] \in {"expire", "mail"} /\ ~Orphaned(c) /\ code # None => Stored(c)
    /\ Lasting(c) => code # None /\ Stored(c) /\ (ttl = None \/ rest[c] - age[c] <= ttl)
    /\ pc[c] = "set" /\ waits = c => \A d \in Calls : ~Lasting(d)

VerifyInv == TypeOK /\ CallInv /\ CodeInv

-----------------------------------------------------------------------------
(* The types                                                               *)

\* Initially every variable has its type.
LEMMA TypeInit == Init => TypeOK
BY VerifyAssumption DEF Init, TypeOK

\* Every step keeps the types.
LEMMA TypeStep == ASSUME TypeOK, [Next]_vars PROVE TypeOK'
<1>1. ASSUME NEW c \in Calls, Request(c) PROVE TypeOK'
  BY VerifyAssumption, <1>1 DEF TypeOK, Errors, Request, redis, mails
<1>2. ASSUME NEW c \in Calls, CallBreaks(c) PROVE TypeOK'
  BY VerifyAssumption, <1>2
  DEF TypeOK, Errors, CallBreaks, Fault, redis, handlers, mails
<1>3. ASSUME NEW c \in Calls, Get(c) PROVE TypeOK'
  BY VerifyAssumption, <1>3 DEF TypeOK, Errors, Get, Goes, redis, gate, mails
<1>4. ASSUME NEW c \in Calls, Set(c) PROVE TypeOK'
  BY VerifyAssumption, <1>4 DEF TypeOK, Errors, Set, Goes, Stores, redis, gate, mails
<1>5. ASSUME NEW c \in Calls, Expire(c) PROVE TypeOK'
  BY VerifyAssumption, <1>5
  DEF TypeOK, Errors, Expire, Goes, Expires, redis, gate, mails
<1>6. ASSUME NEW c \in Calls, Mail(c) PROVE TypeOK'
  BY VerifyAssumption, <1>6
  DEF TypeOK, Errors, Mail, Goes, Sends, Fault, redis, gate, mails
<1>7. ASSUME NEW c \in Calls, Callback(c) PROVE TypeOK'
  BY VerifyAssumption, <1>7 DEF TypeOK, Errors, Callback, Goes, Errors, redis, mails
<1>8. CASE ClientQuits
  <2>1. /\ up' = up /\ client' = FALSE
        /\ UNCHANGED <<code, ttl, pc, uid, waits, result, rest, age>>
    BY <1>8 DEF ClientQuits, redis, gate, mails
  <2>2. faults < MaxFaults /\ faults' = faults + 1
    BY <1>8 DEF ClientQuits, Fault
  <2>3. faults' \in 0 .. MaxFaults
    BY <2>2, VerifyAssumption DEF TypeOK
  <2> QED
    BY <2>1, <2>3 DEF TypeOK
<1>9. CASE Crash
  <2>1. /\ up' = FALSE /\ client' = client /\ waits' = None
        /\ UNCHANGED <<code, ttl, uid, rest, age>>
    BY <1>9 DEF Crash, redis, mails
  <2>2. /\ pc' = [c \in Calls |-> IF pc[c] = "idle" THEN "idle" ELSE "ended"]
        /\ result' = [c \in Calls |-> IF waits = c THEN "RPCFailed" ELSE result[c]]
    BY <1>9 DEF Crash
  <2>3. faults < MaxFaults /\ faults' = faults + 1
    BY <1>9 DEF Crash, Fault
  <2>4. faults' \in 0 .. MaxFaults
    BY <2>3, VerifyAssumption DEF TypeOK
  <2> QED
    BY <2>1, <2>2, <2>4 DEF TypeOK
<1>10. CASE Start
  BY VerifyAssumption, <1>10 DEF TypeOK, Errors, Start, redis, gate, mails
<1>11. CASE Tick
  BY VerifyAssumption, <1>11 DEF TypeOK, Errors, Tick, handlers, gate
<1>12. CASE UNCHANGED vars
  BY <1>12 DEF TypeOK, Errors, vars, redis, handlers, gate, mails
<1> QED
  BY <1>1, <1>2, <1>3, <1>4, <1>5, <1>6, <1>7, <1>8, <1>9, <1>10, <1>11, <1>12 DEF Next


-----------------------------------------------------------------------------
(* CallInv                                                                 *)

\* Initially no call has begun.
LEMMA CallInit == Init => CallInv
BY DEF Init, CallInv

\* Every step keeps who waits for which handler.
LEMMA CallStep == ASSUME TypeOK, CallInv, [Next]_vars PROVE CallInv'
<1>1. ASSUME NEW c \in Calls, Request(c) PROVE CallInv'
  <2>0. result[c] = None /\ pc[c] = "idle" /\ waits = None
    BY <1>1 DEF Request
  <2>1. \/ waits' = c /\ pc' = [pc EXCEPT ![c] = "get"] /\ result' = result
        \/ result' = [result EXCEPT ![c] = "RPCFailed"] /\ waits' = waits /\ pc' = pc
    BY <1>1 DEF Request
  <2>2. uid' = uid /\ rest' = rest
    BY <1>1 DEF Request, mails
  <2> QED
    BY <2>0, <2>1, <2>2, VerifyAssumption DEF TypeOK, CallInv, Orphaned, Calls
<1>2. ASSUME NEW c \in Calls, CallBreaks(c) PROVE CallInv'
  <2>1. /\ waits = c /\ waits' = None /\ result' = [result EXCEPT ![c] = "RPCFailed"]
        /\ pc' = pc /\ uid' = uid /\ rest' = rest
    BY <1>2 DEF CallBreaks, handlers, mails
  <2> QED
    BY <2>1, VerifyAssumption DEF TypeOK, CallInv, Orphaned, Calls
<1>3. ASSUME NEW c \in Calls, Get(c) PROVE CallInv'
  BY VerifyAssumption, <1>3 DEF TypeOK, CallInv, Orphaned, Get, Goes, redis, gate, mails
<1>4. ASSUME NEW c \in Calls, Set(c) PROVE CallInv'
  BY VerifyAssumption, <1>4
  DEF TypeOK, CallInv, Orphaned, Set, Goes, Stores, redis, gate, mails
<1>5. ASSUME NEW c \in Calls, Expire(c) PROVE CallInv'
  BY VerifyAssumption, <1>5
  DEF TypeOK, CallInv, Orphaned, Expire, Goes, Expires, redis, gate, mails
<1>6. ASSUME NEW c \in Calls, Mail(c) PROVE CallInv'
  BY VerifyAssumption, <1>6
  DEF TypeOK, CallInv, Orphaned, Mail, Goes, Sends, Fault, redis, gate, mails
<1>7. ASSUME NEW c \in Calls, Callback(c) PROVE CallInv'
  <2>1. /\ pc[c] \in Errors /\ pc' = [pc EXCEPT ![c] = "ended"]
        /\ uid' = uid /\ rest' = rest
    BY <1>7 DEF Callback, Goes, mails
  <2>2. CASE waits # c /\ waits' = waits /\ result' = result
    BY <2>1, <2>2 DEF TypeOK, CallInv, Orphaned
  <2>3. CASE waits = c /\ waits' = None /\ result' = [result EXCEPT ![c] = pc[c]]
    BY <2>1, <2>3, VerifyAssumption DEF TypeOK, CallInv, Orphaned, Calls
  <2> QED
    BY <1>7, <2>2, <2>3 DEF Callback
<1>8. CASE ClientQuits
  BY VerifyAssumption, <1>8
  DEF TypeOK, CallInv, Orphaned, ClientQuits, Fault, redis, gate, mails
<1>9. CASE Crash
  <2>1. /\ waits' = None /\ uid' = uid /\ rest' = rest
        /\ pc' = [d \in Calls |-> IF pc[d] = "idle" THEN "idle" ELSE "ended"]
        /\ result' = [d \in Calls |-> IF waits = d THEN "RPCFailed" ELSE result[d]]
    BY <1>9 DEF Crash, mails
  <2> QED
    BY <2>1, VerifyAssumption DEF TypeOK, CallInv, Orphaned, Calls
<1>10. CASE Start
  BY VerifyAssumption, <1>10 DEF TypeOK, CallInv, Orphaned, Start, redis, gate, mails
<1>11. CASE Tick
  BY VerifyAssumption, <1>11 DEF TypeOK, CallInv, Orphaned, Tick, handlers, gate
<1>12. CASE UNCHANGED vars
  BY <1>12 DEF TypeOK, CallInv, Orphaned, vars, redis, handlers, gate, mails
<1> QED
  BY <1>1, <1>2, <1>3, <1>4, <1>5, <1>6, <1>7, <1>8, <1>9, <1>10, <1>11, <1>12 DEF Next

-----------------------------------------------------------------------------
(* CodeInv                                                                 *)

\* A call that was given up stays so, and a code that was drawn is not drawn again.
Keeps ==
  \A d \in Calls : /\ Orphaned(d) => Orphaned(d)'
                   /\ uid[d] # None => uid'[d] = uid[d]

\* Every step keeps what Keeps says.
LEMMA StepKeeps == ASSUME TypeOK, CallInv, [Next]_vars PROVE Keeps
<1>1. ASSUME NEW c \in Calls, Request(c) PROVE Keeps
  BY VerifyAssumption, <1>1 DEF Keeps, TypeOK, CallInv, Orphaned, Request, redis, mails
<1>2. ASSUME NEW c \in Calls, CallBreaks(c) PROVE Keeps
  BY VerifyAssumption, <1>2
  DEF Keeps, TypeOK, CallInv, Orphaned, CallBreaks, Fault, redis, handlers, mails
<1>3. ASSUME NEW c \in Calls, Get(c) PROVE Keeps
  BY VerifyAssumption, <1>3
  DEF Keeps, TypeOK, CallInv, Orphaned, Get, Goes, redis, gate, mails
<1>4. ASSUME NEW c \in Calls, Set(c) PROVE Keeps
  BY VerifyAssumption, <1>4
  DEF Keeps, TypeOK, CallInv, Orphaned, Set, Goes, Stores, redis, gate, mails
<1>5. ASSUME NEW c \in Calls, Expire(c) PROVE Keeps
  BY VerifyAssumption, <1>5
  DEF Keeps, TypeOK, CallInv, Orphaned, Expire, Goes, Expires, redis, gate, mails
<1>6. ASSUME NEW c \in Calls, Mail(c) PROVE Keeps
  BY VerifyAssumption, <1>6
  DEF Keeps, TypeOK, CallInv, Orphaned, Mail, Goes, Sends, Fault, redis, gate, mails
<1>7. ASSUME NEW c \in Calls, Callback(c) PROVE Keeps
  <2>1. uid' = uid /\ \A d \in Calls \ {c} : result'[d] = result[d]
    BY <1>7 DEF Callback, TypeOK
  <2>2. waits = c => result[c] # "RPCFailed"
    BY VerifyAssumption DEF CallInv
  <2>3. waits # c => result' = result
    BY <1>7 DEF Callback
  <2> QED
    BY <2>1, <2>2, <2>3 DEF Keeps, Orphaned
<1>8. CASE ClientQuits
  BY VerifyAssumption, <1>8
  DEF Keeps, TypeOK, CallInv, Orphaned, ClientQuits, Fault, redis, gate, mails
<1>9. CASE Crash
  BY VerifyAssumption, <1>9
  DEF Keeps, TypeOK, CallInv, Orphaned, Crash, Fault, redis, mails
<1>10. CASE Start
  BY VerifyAssumption, <1>10
  DEF Keeps, TypeOK, CallInv, Orphaned, Start, redis, gate, mails
<1>11. CASE Tick
  BY VerifyAssumption, <1>11 DEF Keeps, TypeOK, CallInv, Orphaned, Tick, handlers, gate
<1>12. CASE UNCHANGED vars
  BY <1>12 DEF Keeps, TypeOK, CallInv, Orphaned, vars, redis, handlers, gate, mails
<1> QED
  BY <1>1, <1>2, <1>3, <1>4, <1>5, <1>6, <1>7, <1>8, <1>9, <1>10, <1>11, <1>12 DEF Next

\* What is stored stays accounted for as long as it is the same code.
LEMMA StoredKept ==
  ASSUME TypeOK, Keeps, NEW c \in Calls, Stored(c), code # None, code' = code
  PROVE  Stored(c)'
BY DEF Stored, Keeps, TypeOK

\* A step that leaves Redis and the mails alone.
LEMMA QuietCode ==
  ASSUME TypeOK, CodeInv, Keeps, UNCHANGED <<code, ttl, rest, age>>,
         \A d \in Calls : pc'[d] \in {"expire", "mail"} =>
           pc[d] \in {"expire", "mail"} \/ uid'[d] = code,
         \A d \in Calls : pc'[d] = "set" /\ waits' = d =>
           (pc[d] = "set" /\ waits = d) \/ code = None
  PROVE  CodeInv'
<1>1. \A d \in Calls : Lasting(d)' => Lasting(d)
  BY DEF Lasting, Keeps
<1>2. ASSUME NEW c \in Calls, pc'[c] \in {"expire", "mail"}, ~Orphaned(c)', code' # None
      PROVE  Stored(c)'
  <2>1. CASE uid'[c] = code
    BY <2>1 DEF Stored
  <2>2. CASE pc[c] \in {"expire", "mail"}
    <3>1. ~Orphaned(c)
      BY <1>2 DEF Keeps
    <3>2. Stored(c)
      BY <1>2, <2>2, <3>1 DEF CodeInv
    <3> QED
      BY <1>2, <3>2, StoredKept
  <2> QED
    BY <1>2, <2>1, <2>2
<1>3. ASSUME NEW c \in Calls, Lasting(c)'
      PROVE  code' # None /\ Stored(c)' /\ (ttl' = None \/ rest'[c] - age'[c] <= ttl')
  <2>1. code # None /\ Stored(c) /\ (ttl = None \/ rest[c] - age[c] <= ttl)
    BY <1>1, <1>3 DEF CodeInv
  <2> QED
    BY <2>1, StoredKept
<1>4. ASSUME NEW c \in Calls, pc'[c] = "set", waits' = c, NEW d \in Calls, Lasting(d)'
      PROVE  FALSE
  BY <1>1, <1>4 DEF CodeInv
<1> QED
  BY <1>2, <1>3, <1>4 DEF CodeInv

\* A handler stores its code: it was given up, or no mailed code lasts.
LEMMA StoreStep ==
  ASSUME TypeOK, CallInv, CodeInv, NEW c \in Calls, Set(c) PROVE CodeInv'
<1>1. /\ pc[c] = "set" /\ uid[c] \in Codes
      /\ UNCHANGED <<uid, waits, result, rest, age>>
      /\ pc' \in {[pc EXCEPT ![c] = "expire"], [pc EXCEPT ![c] = "RedisErr"]}
      /\ (code' = uid[c] /\ ttl' = None) \/ UNCHANGED <<code, ttl>>
  BY DEF Set, Goes, Stores, redis, gate, mails, TypeOK
<1>2. /\ \A d \in Calls : Orphaned(d)' <=> Orphaned(d)
      /\ \A d \in Calls : Lasting(d)' <=> Lasting(d)
  BY <1>1 DEF Orphaned, Lasting
<1>3. \A d \in Calls \ {c} : pc'[d] = pc[d]
  BY <1>1 DEF TypeOK
<1>4. CASE UNCHANGED <<code, ttl>> /\ pc' = [pc EXCEPT ![c] = "RedisErr"]
  <2>1. Keeps
    BY <1>1, <1>2 DEF Keeps
  <2>2. /\ \A d \in Calls : pc'[d] \in {"expire", "mail"} => pc[d] \in {"expire", "mail"}
        /\ \A d \in Calls : pc'[d] = "set" => pc[d] = "set"
    BY <1>4 DEF TypeOK
  <2> QED
    BY <1>1, <1>4, <2>1, <2>2, QuietCode
<1>5. CASE code' = uid[c] /\ ttl' = None
  <2>1. waits # c => Orphaned(c)
    BY <1>1 DEF CallInv
  <2>2. ASSUME NEW d \in Calls, pc'[d] \in {"expire", "mail"}, ~Orphaned(d)'
        PROVE  Stored(d)'
    <3>1. CASE d = c
      BY <1>1, <1>5, <3>1 DEF Stored
    <3>2. CASE d # c
      <4>1. waits = d
        BY <1>2, <1>3, <2>2, <3>2 DEF CallInv
      <4>2. Orphaned(c)'
        BY <1>2, <2>1, <3>2, <4>1
      <4> QED
        BY <1>1, <1>5, <4>2 DEF Stored
    <3> QED
      BY <3>1, <3>2
  <2>3. ASSUME NEW d \in Calls, Lasting(d)' PROVE Stored(d)'
    <3>1. waits # c
      BY <1>1, <1>2, <2>3 DEF CodeInv
    <3>2. Orphaned(c)'
      BY <1>2, <2>1, <3>1
    <3> QED
      BY <1>1, <1>5, <3>2 DEF Stored
  <2>4. ASSUME NEW d \in Calls, pc'[d] = "set", waits' = d, NEW e \in Calls, Lasting(e)'
        PROVE  FALSE
    <3>1. d # c
      BY <1>1, <2>4 DEF TypeOK
    <3> QED
      BY <1>1, <1>2, <1>3, <2>4, <3>1 DEF CodeInv
  <2>5. code' # None
    BY <1>1, <1>5, VerifyAssumption
  <2> QED
    BY <1>5, <2>2, <2>3, <2>4, <2>5 DEF CodeInv
<1> QED
  BY <1>1, <1>4, <1>5 DEF Set, Goes, Stores

\* EXPIRE gives the code the longest time there is.
LEMMA ExpireStep ==
  ASSUME TypeOK, CallInv, CodeInv, NEW c \in Calls, Expire(c) PROVE CodeInv'
<1>1. /\ pc[c] = "expire" /\ UNCHANGED <<code, uid, waits, result, rest, age>>
      /\ pc' \in {[pc EXCEPT ![c] = "mail"], [pc EXCEPT ![c] = "RedisErr"]}
      /\ (code # None => ttl' \in {Life, ttl})
  BY DEF Expire, Goes, Expires, redis, gate, mails
<1>2. \A d \in Calls : /\ Lasting(d)' <=> Lasting(d)
                       /\ Stored(d)' <=> Stored(d)
                       /\ Orphaned(d)' <=> Orphaned(d)
  BY <1>1 DEF Orphaned, Lasting, Stored
<1>3. \A d \in Calls : /\ pc'[d] \in {"expire", "mail"} => pc[d] \in {"expire", "mail"}
                       /\ pc'[d] = "set" => pc[d] = "set"
  BY <1>1 DEF TypeOK
<1>4. ASSUME NEW d \in Calls, Lasting(d) PROVE rest[d] - age[d] <= Life
  BY <1>4, VerifyAssumption DEF Lasting, TypeOK
<1> QED
  BY <1>1, <1>2, <1>3, <1>4 DEF CodeInv

\* A mail goes out, with a code that is stored.
LEMMA MailStep ==
  ASSUME TypeOK, CallInv, CodeInv, NEW c \in Calls, Mail(c) PROVE CodeInv'
<1>1. /\ pc[c] = "mail" /\ UNCHANGED <<code, ttl, uid, waits, result>>
      /\ pc' \in {[pc EXCEPT ![c] = "Success"], [pc EXCEPT ![c] = "Exception"]}
  BY DEF Mail, Goes, redis, gate
<1>2. \/ UNCHANGED <<rest, age>>
      \/ /\ age' = [age EXCEPT ![c] = 0]
         /\ rest' = [rest EXCEPT ![c] =
              IF code = None THEN 0 ELSE IF ttl = None THEN Life ELSE ttl]
  BY DEF Mail, Sends, mails
<1>3. \A d \in Calls : /\ pc'[d] \in {"expire", "mail"} => pc[d] \in {"expire", "mail"}
                       /\ pc'[d] = "set" => pc[d] = "set" /\ d # c
  BY <1>1 DEF TypeOK
<1>4. \A d \in Calls : (Orphaned(d)' <=> Orphaned(d)) /\ (Stored(d)' <=> Stored(d))
  BY <1>1 DEF Orphaned, Stored
<1>5. \A d \in Calls \ {c} : Lasting(d)' <=> Lasting(d)
  BY <1>2, <1>4 DEF Lasting, TypeOK
<1>6. ASSUME NEW d \in Calls, Lasting(d)'
      PROVE  code' # None /\ Stored(d)' /\ (ttl' = None \/ rest'[d] - age'[d] <= ttl')
  <2>1. CASE UNCHANGED <<rest, age>>
    BY <1>1, <1>4, <1>6, <2>1 DEF Lasting, CodeInv
  <2>2. CASE d # c
    <3>1. rest'[d] = rest[d] /\ age'[d] = age[d]
      BY <1>2, <2>2 DEF TypeOK
    <3> QED
      BY <1>1, <1>4, <1>5, <1>6, <2>2, <3>1 DEF CodeInv
  <2>3. CASE /\ d = c /\ age' = [age EXCEPT ![c] = 0]
             /\ rest' = [rest EXCEPT ![c] =
                  IF code = None THEN 0 ELSE IF ttl = None THEN Life ELSE ttl]
    <3>1. age'[c] = 0 /\ rest'[c] = IF code = None THEN 0 ELSE IF ttl = None THEN Life ELSE ttl
      BY <2>3 DEF TypeOK
    <3>2. code # None
      BY <1>6, <2>3, <3>1 DEF Lasting
    <3>3. Stored(c)
      BY <1>1, <1>4, <1>6, <2>3, <3>2 DEF CodeInv, Lasting
    <3>4. ttl = None \/ rest'[c] - age'[c] <= ttl
      BY <3>1, <3>2, VerifyAssumption DEF TypeOK
    <3> QED
      BY <1>1, <1>4, <2>3, <3>2, <3>3, <3>4
  <2> QED
    BY <1>2, <2>1, <2>2, <2>3
<1>7. ASSUME NEW d \in Calls, pc'[d] = "set", waits' = d, NEW e \in Calls, Lasting(e)'
      PROVE  FALSE
  <2>1. CASE e # c
    BY <1>1, <1>3, <1>5, <1>7, <2>1 DEF CodeInv
  <2>2. CASE e = c
    <3>1. waits # c
      BY <1>1, <1>3, <1>7
    <3>2. Orphaned(c)
      BY <1>1, <3>1 DEF CallInv
    <3> QED
      BY <1>4, <1>7, <2>2, <3>2 DEF Lasting
  <2> QED
    BY <2>1, <2>2
<1> QED
  BY <1>1, <1>3, <1>4, <1>6, <1>7 DEF CodeInv

\* Time passes for the code and for the mails alike.
LEMMA TickStep ==
  ASSUME TypeOK, CodeInv, Tick PROVE CodeInv'
<1>1. /\ UNCHANGED <<pc, uid, waits, result, rest>>
      /\ ttl' = (IF ttl \in 2 .. Life THEN ttl - 1 ELSE None)
      /\ code' = (IF ttl = 1 THEN None ELSE code)
      /\ age' = [c \in Calls |-> IF rest[c] = None \/ age[c] = Life THEN age[c] ELSE age[c] + 1]
  BY DEF Tick, handlers, gate
<1>2. \A c \in Calls : Orphaned(c)' <=> Orphaned(c)
  BY <1>1 DEF Orphaned
<1>3. ASSUME NEW c \in Calls, Lasting(c)'
      PROVE  Lasting(c) /\ age'[c] = age[c] + 1 /\ rest[c] \in Nat /\ age[c] \in Nat
  <2>1. rest[c] \in 0 .. Life /\ age[c] \in 0 .. Life /\ Life \in Nat
    BY <1>1, <1>3, VerifyAssumption DEF Lasting, TypeOK
  <2>2. age'[c] = IF age[c] = Life THEN age[c] ELSE age[c] + 1
    BY <1>1, <1>3 DEF Lasting
  <2>3. age'[c] < rest[c]
    BY <1>1, <1>3 DEF Lasting
  <2> QED
    BY <1>1, <1>2, <1>3, <2>1, <2>2, <2>3 DEF Lasting
<1>4. ASSUME code' # None PROVE code' = code /\ code # None
  BY <1>1, <1>4
<1>5. \A c \in Calls : code' # None /\ Stored(c) => Stored(c)'
  BY <1>1, <1>2, <1>4 DEF Stored
<1>6. ASSUME NEW c \in Calls, Lasting(c)'
      PROVE  code' # None /\ Stored(c)' /\ (ttl' = None \/ rest'[c] - age'[c] <= ttl')
  <2>1. code # None /\ Stored(c) /\ (ttl = None \/ rest[c] - age[c] <= ttl)
    BY <1>3, <1>6 DEF CodeInv
  <2>2. ttl # 1
    <3>1. age[c] + 1 < rest[c]
      BY <1>1, <1>3, <1>6 DEF Lasting
    <3> QED
      BY <1>3, <1>6, <2>1, <3>1, VerifyAssumption
  <2>3. ttl' = None \/ rest'[c] - age'[c] <= ttl'
    <3>1. CASE ttl \in 2 .. Life
      BY <1>1, <1>3, <1>6, <2>1, <3>1, VerifyAssumption
    <3>2. CASE ttl \notin 2 .. Life
      BY <1>1, <3>2
    <3> QED
      BY <3>1, <3>2
  <2> QED
    BY <1>1, <1>5, <2>1, <2>2, <2>3
<1>7. \A c \in Calls :
        pc[c] \in {"expire", "mail"} /\ ~Orphaned(c) /\ code' # None => Stored(c)'
  BY <1>4, <1>5 DEF CodeInv
<1>8. \A c \in Calls : pc[c] = "set" /\ waits = c => \A d \in Calls : ~Lasting(d)'
  BY <1>3 DEF CodeInv
<1> QED
  BY <1>1, <1>2, <1>6, <1>7, <1>8 DEF CodeInv

-----------------------------------------------------------------------------
(* The theorems                                                            *)

\* Initially there is no code.
LEMMA CodeInit == Init => CodeInv
BY DEF Init, CodeInv, Lasting

\* Every step keeps the invariant.
LEMMA VerifyStep == ASSUME VerifyInv, [Next]_vars PROVE VerifyInv'
<1> USE DEF VerifyInv
<1>1. TypeOK' /\ CallInv' /\ Keeps
  BY TypeStep, CallStep, StepKeeps
<1>2. CASE \E c \in Calls : Set(c)
  BY <1>1, <1>2, StoreStep
<1>3. CASE \E c \in Calls : Expire(c)
  BY <1>1, <1>3, ExpireStep
<1>4. CASE \E c \in Calls : Mail(c)
  BY <1>1, <1>4, MailStep
<1>5. CASE Tick
  BY <1>1, <1>5, TickStep
<1>6. ASSUME NEW c \in Calls, Request(c) \/ Callback(c) PROVE CodeInv'
  <2>1. UNCHANGED <<code, ttl, rest, age>>
    BY <1>6 DEF Request, Callback, redis, mails
  <2>2. pc' \in {pc, [pc EXCEPT ![c] = "get"], [pc EXCEPT ![c] = "ended"]}
    BY <1>6 DEF Request, Callback, Goes
  <2>3. /\ \A d \in Calls : pc'[d] \in {"expire", "mail"} => pc[d] \in {"expire", "mail"}
        /\ \A d \in Calls : pc'[d] = "set" => pc[d] = "set" /\ d # c
    BY <1>6, <2>2 DEF TypeOK, Request, Callback, Errors
  <2>4. waits' \in {waits, c, None}
    BY <1>6 DEF Request, Callback
  <2>5. \A d \in Calls : pc'[d] = "set" /\ waits' = d => waits = d
    BY <2>3, <2>4, VerifyAssumption DEF Calls
  <2> QED
    BY <1>1, <2>1, <2>3, <2>5, QuietCode
<1>7. ASSUME NEW c \in Calls, Get(c) PROVE CodeInv'
  <2>1. /\ UNCHANGED <<code, ttl, rest, age, waits>>
        /\ \/ pc' = [pc EXCEPT ![c] = "mail"] /\ uid' = [uid EXCEPT ![c] = code]
           \/ pc' = [pc EXCEPT ![c] = "set"] /\ code = None
           \/ pc' = [pc EXCEPT ![c] = "RedisErr"]
    BY <1>7 DEF Get, Goes, redis, gate, mails
  <2>2. \A d \in Calls : pc'[d] \in {"expire", "mail"} =>
          pc[d] \in {"expire", "mail"} \/ uid'[d] = code
    BY <2>1 DEF TypeOK
  <2>3. \A d \in Calls : pc'[d] = "set" /\ waits' = d =>
          (pc[d] = "set" /\ waits = d) \/ code = None
    BY <2>1 DEF TypeOK
  <2> QED
    BY <1>1, <2>1, <2>2, <2>3, QuietCode
<1>8. CASE (\E c \in Calls : CallBreaks(c)) \/ ClientQuits \/ Crash \/ Start \/ UNCHANGED vars
  <2>1. UNCHANGED <<code, ttl, rest, age>> /\ waits' \in {waits, None}
    BY <1>8
    DEF CallBreaks, ClientQuits, Crash, Start, vars, redis, gate, mails, handlers
  <2>2. pc' \in {pc, [c \in Calls |-> IF pc[c] = "idle" THEN "idle" ELSE "ended"]}
    BY <1>8 DEF CallBreaks, ClientQuits, Crash, Start, vars, handlers
  <2>3. /\ \A d \in Calls : pc'[d] \in {"expire", "mail"} => pc[d] \in {"expire", "mail"}
        /\ \A d \in Calls : pc'[d] = "set" /\ waits' = d => pc[d] = "set" /\ waits = d
    BY <2>1, <2>2, VerifyAssumption DEF Calls
  <2> QED
    BY <1>1, <2>1, <2>3, QuietCode
<1> QED
  BY <1>1, <1>2, <1>3, <1>4, <1>5, <1>6, <1>7, <1>8 DEF Next

\* The invariant of VerifyCode.
THEOREM VerifyInvariant == Spec => []VerifyInv
<1>1. Init => VerifyInv
  BY TypeInit, CallInit, CodeInit DEF VerifyInv
<1>2. VerifyInv /\ [Next]_vars => VerifyInv'
  BY VerifyStep
<1> QED
  BY <1>1, <1>2, PTL DEF Spec

\* Every variable keeps its type, and no handler stores or mails a code it has not got.
THEOREM VerifyTypes == Spec => []TypeOK
<1>1. VerifyInv => TypeOK
  BY DEF VerifyInv
<1> QED
  BY <1>1, VerifyInvariant, PTL

\* A mailed code works for as long as it had left, unless the call, or one beside it, broke.
THEOREM MailedWorks == Spec => []MailedCodeWorks
<1>1. ASSUME VerifyInv PROVE MailedCodeWorks
  <2> SUFFICES ASSUME NEW c \in Calls, rest[c] # None, age[c] < rest[c], Check(c) # "accepted",
                      ~Orphaned(c)
               PROVE  \E d \in Calls : Orphaned(d) /\ uid[d] = code
    BY DEF MailedCodeWorks
  <2>1. code # None /\ Stored(c)
    BY <1>1 DEF VerifyInv, CodeInv, Lasting
  <2>2. code # uid[c]
    BY <2>1 DEF Check
  <2> QED
    BY <2>1, <2>2 DEF Stored
<1> QED
  BY <1>1, VerifyInvariant, PTL

\* A code is left without a time to live only by a crash or a connection given up between
\* SET and EXPIRE.
THEOREM EndlessOnlyIfCutOff == Spec => EndlessIfCutOff
<1>1. ASSUME VerifyInv, [Next]_vars, Endless' PROVE Endless \/ ~up' \/ ~client
  <2>1. CASE \E c \in Calls : Set(c)
    BY <1>1, <2>1 DEF VerifyInv, TypeOK, Endless, Set, Goes, redis
  <2>2. CASE \E c \in Calls : Expire(c)
    BY <1>1, <2>2, VerifyAssumption DEF Endless, Expire, Expires
  <2>3. CASE Tick
    <3>1. pc' = pc /\ code' # None /\ ttl' = None
      BY <1>1, <2>3 DEF Endless, Tick, handlers
    <3>2. code # None /\ ttl # 1
      BY <2>3, <3>1 DEF Tick
    <3>3. ttl \notin 2 .. Life
      <4>1. ASSUME ttl \in 2 .. Life PROVE FALSE
        <5>1. ttl' = ttl - 1 /\ ttl - 1 \in Nat
          BY <2>3, <4>1, VerifyAssumption DEF Tick
        <5> QED
          BY <3>1, <5>1, VerifyAssumption
      <4> QED
        BY <4>1
    <3>4. ttl = None
      BY <1>1, <3>2, <3>3, VerifyAssumption DEF VerifyInv, TypeOK
    <3> QED
      BY <1>1, <3>1, <3>2, <3>4 DEF Endless
  <2>4. CASE \E c \in Calls : Request(c) \/ Get(c) \/ Mail(c) \/ Callback(c)
    <3>1. PICK c \in Calls : Request(c) \/ Get(c) \/ Mail(c) \/ Callback(c)
      BY <2>4
    <3>2. pc[c] # "expire" /\ UNCHANGED <<code, ttl>>
      BY <3>1 DEF Request, Get, Mail, Callback, Errors, redis
    <3>3. \A d \in Calls \ {c} : pc'[d] = pc[d]
      BY <1>1, <3>1 DEF VerifyInv, TypeOK, Request, Get, Mail, Callback, Goes
    <3> QED
      BY <1>1, <3>2, <3>3 DEF Endless
  <2>5. CASE Crash
    BY <2>5 DEF Crash
  <2>6. CASE (\E c \in Calls : CallBreaks(c)) \/ ClientQuits \/ Start \/ UNCHANGED vars
    BY <1>1, <2>6 DEF Endless, CallBreaks, ClientQuits, Start, vars, handlers, redis
  <2> QED
    BY <1>1, <2>1, <2>2, <2>3, <2>4, <2>5, <2>6 DEF Next
<1>2. ASSUME VerifyInv, [Next]_vars PROVE [Endless' => Endless \/ ~up' \/ ~client]_vars
  BY <1>1, <1>2
<1> QED
  BY <1>2, VerifyInvariant, PTL DEF Spec, EndlessIfCutOff
=============================================================================
