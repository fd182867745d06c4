-------------------------- MODULE ClientStreamProofs --------------------------
(***************************************************************************)
(* Proofs about ClientStream: its type invariant, OneWrite and the         *)
(* refinement of FifoChannel, for all contents, sizes and bounds.          *)
(***************************************************************************)
EXTENDS ClientStream, TLAPS

\* The length of wire when all of frame k is on it.
EndOf(k) == IF k = 0 THEN 0 ELSE begin[k] + FrameLen(k)

\* The frames in write_bufs_ are the last of those posted; all before them, and the
\* first of them, have begun to be written, and what is written ends with the latest.
WriteInv ==
  /\ OneWrite
  /\ Len(queue) <= ran
  /\ \A i \in 1 .. Len(queue) : queue[i] = (ran - Len(queue)) + i
  /\ Len(begin) = IF queue = <<>> THEN ran ELSE (ran - Len(queue)) + 1
  /\ writes # <<>> =>
       /\ Len(wire) = begin[Len(begin)] + writes[1].done
       /\ writes[1].done <= FrameLen(Len(begin))
  /\ queue = <<>> => Len(wire) = EndOf(Len(begin))
  /\ Len(wire) <= EndOf(Len(begin))

\* Frame follows frame on the wire, and every byte is where its frame and its number in
\* the frame say.
WireInv ==
  /\ \A k \in 1 .. Len(begin) : begin[k] = EndOf(k - 1)
  /\ \A j, k \in 1 .. Len(begin) : j < k => EndOf(j) <= begin[k]
  /\ \A p \in 1 .. Len(wire) :
       /\ wire[p][1] \in 1 .. Len(begin)
       /\ wire[p][2] \in 1 .. FrameLen(wire[p][1])
       /\ p = begin[wire[p][1]] + wire[p][2]

\* The client has handled the first messages and stands after the last of them, or after
\* the header of the next.
ReadInv ==
  /\ Len(shown) <= Len(begin)
  /\ \A i \in 1 .. Len(shown) : shown[i] = mail[i]
  /\ IF exp_len = 0
     THEN parsed = EndOf(Len(shown))
     ELSE /\ Len(shown) < Len(begin)
          /\ exp_len = Size[mail[Len(shown) + 1]]
          /\ parsed = begin[Len(shown) + 1] + Header

StreamInv == TypeOK /\ WriteInv /\ WireInv /\ ReadInv

-----------------------------------------------------------------------------
(* What the invariant says of the bytes the client looks at                *)

\* The types the proofs below use, and the lengths of the frames begun.
LEMMA Types ==
  ASSUME StreamInv
  PROVE  /\ mail \in Seq(Msgs) /\ ran \in 0 .. Len(mail) /\ queue \in Seq(1 .. Len(mail))
         /\ wire \in Seq((1 .. Len(mail)) \X (Nat \ {0})) /\ begin \in Seq(Nat)
         /\ arrived \in 0 .. Len(wire) /\ parsed \in 0 .. arrived /\ exp_len \in Nat
         /\ shown \in Seq(Msgs \cup {None})
         /\ Len(begin) <= Len(mail)
         /\ \A k \in 1 .. Len(mail) :
              /\ Size[mail[k]] \in Nat \ {0} /\ FrameLen(k) = 4 + Size[mail[k]]
              /\ FrameLen(k) \in Nat
<1>1. WriterType /\ ReaderType
  BY DEF StreamInv, TypeOK
<1>2. \A k \in 1 .. Len(mail) :
        Size[mail[k]] \in Nat \ {0} /\ FrameLen(k) = 4 + Size[mail[k]] /\ FrameLen(k) \in Nat
  <2> TAKE k \in 1 .. Len(mail)
  <2>1. mail[k] \in Msgs
    BY <1>1 DEF WriterType, ReaderType
  <2>2. Size[mail[k]] \in Nat \ {0}
    BY <2>1, StreamAssumption
  <2> QED
    BY <2>2 DEF FrameLen, Header
<1>3. Len(begin) <= Len(mail)
  <2>1. ran \in Nat /\ Len(mail) \in Nat /\ ran <= Len(mail) /\ Len(queue) \in Nat
    BY <1>1 DEF WriterType, ReaderType
  <2>2. queue # <<>> => Len(queue) # 0
    BY <1>1 DEF WriterType, ReaderType
  <2>3. Len(begin) = IF queue = <<>> THEN ran ELSE (ran - Len(queue)) + 1
    BY DEF StreamInv, WriteInv
  <2> QED
    BY <2>1, <2>2, <2>3
<1> QED
  BY <1>1, <1>2, <1>3 DEF WriterType, ReaderType

\* A frame that has begun has a message, and its lengths are numbers.
LEMMA Sizes ==
  ASSUME StreamInv, NEW k \in 1 .. Len(begin)
  PROVE  /\ k \in 1 .. Len(mail) /\ Size[mail[k]] \in Nat /\ Size[mail[k]] > 0
         /\ FrameLen(k) = 4 + Size[mail[k]] /\ begin[k] \in Nat
         /\ EndOf(k) = (begin[k] + 4) + Size[mail[k]]
         /\ FrameLen(k) \in Nat /\ EndOf(k) = begin[k] + FrameLen(k)
<1>1. begin \in Seq(Nat) /\ mail \in Seq(Msgs) /\ Len(begin) <= Len(mail)
  BY Types
<1>2. k \in 1 .. Len(mail) /\ begin[k] \in Nat /\ k # 0
  BY <1>1
<1>3. Size[mail[k]] \in Nat \ {0} /\ FrameLen(k) = 4 + Size[mail[k]]
  BY <1>2, Types
<1>4. EndOf(k) = begin[k] + FrameLen(k)
  BY <1>2 DEF EndOf
<1> QED
  BY <1>2, <1>3, <1>4

\* A byte between the ends of two frames belongs to the later one.
LEMMA ByteAt ==
  ASSUME StreamInv, NEW k \in 1 .. Len(begin), NEW p \in 1 .. Len(wire),
         begin[k] < p, p <= EndOf(k)
  PROVE  wire[p] = <<k, p - begin[k]>>
<1> DEFINE f == wire[p][1]
<1>1. /\ f \in 1 .. Len(begin) /\ wire[p][2] \in 1 .. FrameLen(f)
      /\ p = begin[f] + wire[p][2]
  BY DEF StreamInv, WireInv
<1>2. begin \in Seq(Nat)
  BY Types
<1>3. wire[p] = <<wire[p][1], wire[p][2]>>
  <2>1. wire[p] \in (1 .. Len(mail)) \X (Nat \ {0})
    BY Types
  <2> QED
    BY <2>1
<1>4. /\ FrameLen(f) \in Nat /\ begin[f] \in Nat /\ EndOf(f) = begin[f] + FrameLen(f)
      /\ FrameLen(k) \in Nat /\ begin[k] \in Nat /\ EndOf(k) = begin[k] + FrameLen(k)
  BY <1>1, Sizes
<1> HIDE DEF f
<1>n. p \in Int /\ k \in Int /\ f \in Int /\ wire[p][2] \in Int /\ wire[p][2] > 0
      /\ wire[p][2] <= FrameLen(f)
  BY <1>1, <1>2, <1>4
<1>5. ~(f < k)
  <2> SUFFICES ASSUME f < k PROVE FALSE
    OBVIOUS
  <2>1. EndOf(f) <= begin[k]
    BY <1>1 DEF StreamInv, WireInv
  <2> QED
    BY <1>1, <1>4, <1>n, <2>1
<1>6. ~(k < f)
  <2> SUFFICES ASSUME k < f PROVE FALSE
    OBVIOUS
  <2>1. EndOf(k) <= begin[f]
    BY <1>1 DEF StreamInv, WireInv
  <2> QED
    BY <1>1, <1>4, <1>n, <2>1
<1> QED
  <2>1. f = k
    BY <1>n, <1>5, <1>6
  <2> QED
    BY <1>1, <1>3, <1>4, <1>n, <2>1 DEF f

\* With exp_len = 0 the next four bytes are the header of the next message.
LEMMA HeaderIsNext ==
  ASSUME StreamInv, exp_len = 0, parsed + Header <= arrived
  PROVE  /\ Len(shown) < Len(begin)
         /\ parsed = begin[Len(shown) + 1]
         /\ LengthsAt(parsed) = {Size[mail[Len(shown) + 1]]}
<1> DEFINE n == Len(shown)
<1>1. /\ begin \in Seq(Nat) /\ shown \in Seq(Msgs \cup {None}) /\ exp_len \in Nat
      /\ parsed \in Nat /\ arrived \in Nat /\ arrived <= Len(wire) /\ Len(wire) \in Nat
  BY Types
<1>2. n <= Len(begin) /\ parsed = EndOf(n)
  BY DEF StreamInv, ReadInv
<1>3. Len(begin) <= Len(mail) /\ Len(mail) \in Nat
  BY Types
<1>4. Len(wire) <= EndOf(Len(begin))
  BY DEF StreamInv, WriteInv
<1>5. n < Len(begin)
  BY <1>1, <1>2, <1>4 DEF Header
<1>6. n + 1 \in 1 .. Len(begin)
  BY <1>1, <1>5
<1>7. begin[n + 1] = EndOf((n + 1) - 1)
  BY <1>6 DEF StreamInv, WireInv
<1>8. parsed = begin[n + 1]
  BY <1>1, <1>2, <1>7
<1>9. Size[mail[n + 1]] \in Nat /\ EndOf(n + 1) = (parsed + 4) + Size[mail[n + 1]]
  BY <1>6, <1>8, Sizes
<1>11. \A j \in 1 .. Header : wire[parsed + j] = <<n + 1, j>>
  <2> TAKE j \in 1 .. Header
  <2>n. /\ j \in Nat /\ 1 <= j /\ j <= 4
        /\ parsed + 4 <= arrived
    BY DEF Header
  <2>a. parsed + j \in Nat /\ 1 <= parsed + j /\ parsed + j <= Len(wire)
    BY <1>1, <2>n
  <2>b. begin[n + 1] < parsed + j
    BY <1>1, <1>8, <2>n
  <2>c. parsed + j <= EndOf(n + 1)
    BY <1>1, <1>9, <2>n
  <2>1. parsed + j \in 1 .. Len(wire) /\ begin[n + 1] < parsed + j /\ parsed + j <= EndOf(n + 1)
    BY <1>1, <2>a, <2>b, <2>c
  <2>2. wire[parsed + j] = <<n + 1, (parsed + j) - begin[n + 1]>>
    BY <1>6, <2>1, ByteAt
  <2> QED
    BY <1>1, <1>8, <2>2
<1>12. FrameAt(parsed) = n + 1
  BY <1>11 DEF FrameAt, Header
<1>13. Holds(parsed, 0, Header)
  BY <1>11, <1>12 DEF Holds, Header
<1> QED
  BY <1>5, <1>8, <1>12, <1>13 DEF LengthsAt

\* After a header the next exp_len bytes are the content of the next message.
LEMMA ContentIsNext ==
  ASSUME StreamInv, exp_len # 0, parsed + exp_len <= arrived
  PROVE  /\ Len(shown) < Len(begin)
         /\ parsed + exp_len = EndOf(Len(shown) + 1)
         /\ ContentAt(parsed, exp_len) = mail[Len(shown) + 1]
<1> DEFINE n == Len(shown)
<1>1. /\ begin \in Seq(Nat) /\ shown \in Seq(Msgs \cup {None}) /\ exp_len \in Nat
      /\ parsed \in Nat /\ arrived \in Nat /\ arrived <= Len(wire) /\ Len(wire) \in Nat
  BY Types
<1>2. n < Len(begin) /\ exp_len = Size[mail[n + 1]] /\ parsed = begin[n + 1] + Header
  BY DEF StreamInv, ReadInv
<1>3. Len(begin) <= Len(mail) /\ Len(mail) \in Nat
  BY Types
<1>4. n + 1 \in 1 .. Len(begin)
  BY <1>1, <1>2
<1>5. begin[n + 1] \in Nat /\ EndOf(n + 1) = (begin[n + 1] + 4) + exp_len
  BY <1>2, <1>4, Sizes
<1>6. EndOf(n + 1) = parsed + exp_len
  BY <1>1, <1>2, <1>5 DEF Header
<1>7. \A j \in 1 .. exp_len : wire[parsed + j] = <<n + 1, Header + j>>
  <2> TAKE j \in 1 .. exp_len
  <2>n. /\ parsed \in Int /\ exp_len \in Int /\ arrived \in Int /\ Len(wire) \in Int
        /\ j \in Int
        /\ 0 <= parsed /\ 1 <= j /\ j <= exp_len /\ arrived <= Len(wire)
        /\ begin[n + 1] \in Int /\ parsed = begin[n + 1] + 4 /\ parsed + exp_len <= arrived
    BY <1>1, <1>2, <1>5 DEF Header
  <2>1. /\ parsed + j \in 1 .. Len(wire) /\ begin[n + 1] < parsed + j
        /\ parsed + j <= EndOf(n + 1)
    BY <1>6, <2>n
  <2>2. wire[parsed + j] = <<n + 1, (parsed + j) - begin[n + 1]>>
    BY <1>4, <2>1, ByteAt
  <2>3. (parsed + j) - begin[n + 1] = Header + j
    BY <2>n DEF Header
  <2> QED
    BY <2>2, <2>3
<1>8. FrameAt(parsed) = n + 1
  BY <1>1, <1>7 DEF FrameAt
<1>9. Holds(parsed, Header, exp_len)
  BY <1>7, <1>8 DEF Holds
<1> QED
  BY <1>2, <1>6, <1>8, <1>9 DEF ContentAt

-----------------------------------------------------------------------------
(* Steps                                                                   *)

streamVars == <<mail, ran, queue, writes, wire, begin, arrived, parsed, exp_len, shown>>

\* The parts of the invariant are about streamVars only.
LEMMA QuietStep ==
  ASSUME StreamInv, UNCHANGED streamVars
  PROVE  WriterType' /\ ReaderType' /\ WriteInv' /\ WireInv' /\ ReadInv'
<1>1. WriterType' /\ ReaderType'
  BY DEF StreamInv, TypeOK, WriterType, ReaderType, streamVars
<1>2. \A k : FrameLen(k)' = FrameLen(k) /\ EndOf(k)' = EndOf(k)
  BY DEF FrameLen, EndOf, streamVars
<1>3. WriteInv'
  BY <1>2 DEF StreamInv, WriteInv, OneWrite, streamVars, FrameLen, EndOf
<1>4. WireInv'
  BY <1>2 DEF StreamInv, WireInv, streamVars, FrameLen, EndOf
<1>5. ReadInv'
  BY <1>2 DEF StreamInv, ReadInv, streamVars, FrameLen, EndOf
<1> QED
  BY <1>1, <1>3, <1>4, <1>5

\* A sequence over a set is one over any larger set.
LEMMA SeqOfLarger ==
  ASSUME NEW A, NEW B, A \subseteq B, NEW s \in Seq(A)
  PROVE  s \in Seq(B)
OBVIOUS

\* Texts keep their types, for one more of them and for what a read takes.
LEMMA WriteTextType ==
  ASSUME TextType, WriteText
  PROVE  TextType'
<1> DEFINE B(n) == (1 .. n) \X (1 .. TextLen)
<1>1. texts \in Nat /\ texts' = texts + 1 /\ texts' \in 0 .. MaxTexts /\ TextLen \in Nat
  BY StreamAssumption DEF TextType, WriteText
<1>2. B(texts) \subseteq B(texts')
  BY <1>1
<1>3. [i \in 1 .. TextLen |-> <<texts + 1, i>>] \in Seq(B(texts'))
  BY <1>1
<1>4. upstream \in Seq(B(texts')) /\ Len(upstream) \in Nat
  BY <1>2 DEF TextType
<1>5. /\ upstream' \in Seq(B(texts'))
      /\ Len(upstream') \in Nat /\ Len(upstream) <= Len(upstream')
  <2> DEFINE S == B(texts')
             t == [i \in 1 .. TextLen |-> <<texts + 1, i>>]
  <2>1. upstream' = upstream \o t /\ t \in Seq(S) /\ upstream \in Seq(S)
    BY <1>3, <1>4 DEF WriteText
  <2> HIDE DEF S, t
  <2>2. /\ upstream' \in Seq(S) /\ Len(upstream') = Len(upstream) + Len(t)
        /\ Len(t) \in Nat /\ Len(upstream) \in Nat
    BY <2>1
  <2> QED
    BY <2>2 DEF S
<1>6. taken' \in 0 .. Len(upstream')
  <2>1. taken \in 0 .. Len(upstream)
    BY DEF TextType
  <2>2. taken' = taken
    BY DEF WriteText
  <2> QED
    BY <1>4, <1>5, <2>1, <2>2
<1>7. heard' \in Seq(Seq(B(texts')))
  <2>1. \A s \in Seq(B(texts)) : s \in Seq(B(texts'))
    BY <1>2
  <2>2. heard \in Seq(Seq(B(texts)))
    BY DEF TextType
  <2>3. heard \in Seq(Seq(B(texts')))
    BY <2>1, <2>2
  <2> QED
    BY <2>3 DEF WriteText
<1> QED
  BY <1>1, <1>5, <1>6, <1>7 DEF TextType

\* What one read takes is a piece of the bytes the client has written.
LEMMA ReadType ==
  ASSUME TextType, Read
  PROVE  TextType'
<1> DEFINE B == (1 .. texts) \X (1 .. TextLen)
<1>1. PICK n \in 1 .. MaxRead :
        /\ taken + n <= Len(upstream)
        /\ taken' = taken + n
        /\ heard' = Append(heard, SubSeq(upstream, taken + 1, taken + n))
  BY DEF Read
<1>2. texts' = texts /\ upstream' = upstream
  BY DEF Read
<1>3. upstream \in Seq(B) /\ taken \in Nat /\ MaxRead \in Nat /\ Len(upstream) \in Nat
  BY StreamAssumption DEF TextType
<1>4. taken' \in 0 .. Len(upstream)
  BY <1>1, <1>3
<1>5. SubSeq(upstream, taken + 1, taken + n) \in Seq(B)
  BY <1>1, <1>3
<1>6. heard' \in Seq(Seq(B))
  BY <1>1, <1>5 DEF TextType
<1> QED
  BY <1>2, <1>4, <1>6 DEF TextType

\* One more message leaves the frames begun, their ends and the bytes as they were.
LEMMA AsyncSendStep ==
  ASSUME StreamInv, NEW m \in Msgs, AsyncSend(m)
  PROVE  WriterType' /\ ReaderType' /\ WriteInv' /\ WireInv' /\ ReadInv'
<1>1. /\ mail' = Append(mail, m) /\ Len(mail) < MaxMail
      /\ UNCHANGED <<ran, queue, writes, wire, begin, arrived, parsed, exp_len, shown>>
  BY DEF AsyncSend, reader
<1>2. /\ mail \in Seq(Msgs) /\ mail' \in Seq(Msgs) /\ Len(mail') = Len(mail) + 1
      /\ Len(mail) \in Nat /\ \A k \in 1 .. Len(mail) : mail'[k] = mail[k]
  BY <1>1, Types
<1>3. WriterType'
  <2>1. Len(mail') <= MaxMail
    BY <1>1, <1>2, StreamAssumption
  <2>2. ran' \in 0 .. Len(mail')
    BY <1>1, <1>2, Types
  <2>3. \A x : x \in 1 .. Len(mail) => x \in 1 .. Len(mail')
    BY <1>2
  <2>4. queue' \in Seq(1 .. Len(mail'))
    BY <1>1, <2>3, Types
  <2>5. writes' \in Seq([frame : 1 .. Len(mail'), done : Nat])
    <3>1. writes \in Seq([frame : 1 .. Len(mail), done : Nat])
      BY DEF StreamInv, TypeOK, WriterType
    <3>2. [frame : 1 .. Len(mail), done : Nat] \subseteq [frame : 1 .. Len(mail'), done : Nat]
      BY <2>3
    <3>3. writes \in Seq([frame : 1 .. Len(mail'), done : Nat])
      BY <3>1, <3>2, SeqOfLarger
    <3> QED
      BY <1>1, <3>3
  <2>6. wire' \in Seq((1 .. Len(mail')) \X (Nat \ {0})) /\ begin' \in Seq(Nat)
    <3>1. (1 .. Len(mail)) \X (Nat \ {0}) \subseteq (1 .. Len(mail')) \X (Nat \ {0})
      BY <2>3
    <3> QED
      BY <1>1, <3>1, Types
  <2> QED
    BY <1>2, <2>1, <2>2, <2>4, <2>5, <2>6 DEF WriterType
<1>4. ReaderType'
  BY <1>1 DEF StreamInv, TypeOK, ReaderType
<1>5. \A k \in 1 .. Len(mail) : FrameLen(k)' = FrameLen(k)
  BY <1>2 DEF FrameLen
<1>6. \A k \in 0 .. Len(begin) : EndOf(k)' = EndOf(k)
  <2> TAKE k \in 0 .. Len(begin)
  <2>1. CASE k = 0
    BY <2>1 DEF EndOf
  <2>2. CASE k # 0
    <3>1. k \in 1 .. Len(mail)
      BY <2>2, Types
    <3> QED
      BY <1>1, <1>5, <2>2, <3>1 DEF EndOf
  <2> QED
    BY <2>1, <2>2
<1>7. Len(begin) \in Nat /\ Len(begin) <= Len(mail)
  BY Types
<1>8. WriteInv'
  <2>1. OneWrite'
    BY <1>1 DEF OneWrite, StreamInv, WriteInv
  <2>2. writes # <<>> => Len(begin) \in 1 .. Len(mail)
    <3>1. writes # <<>> => Len(writes) > 0
      BY DEF StreamInv, TypeOK, WriterType
    <3>2. writes # <<>> => queue # <<>>
      BY <3>1 DEF StreamInv, WriteInv, OneWrite
    <3>3. queue # <<>> => Len(begin) = (ran - Len(queue)) + 1 /\ Len(queue) <= ran
      BY DEF StreamInv, WriteInv
    <3> QED
      BY <1>7, <3>2, <3>3, Types
  <2>3. EndOf(Len(begin))' = EndOf(Len(begin))
    BY <1>1, <1>6, <1>7
  <2>4. writes # <<>> => FrameLen(Len(begin))' = FrameLen(Len(begin))
    BY <1>1, <1>5, <2>2
  <2> QED
    BY <1>1, <2>1, <2>3, <2>4 DEF StreamInv, WriteInv
<1>9. WireInv'
  <2>1. \A k \in 1 .. Len(begin) : begin'[k] = EndOf(k - 1)'
    <3> TAKE k \in 1 .. Len(begin)
    <3>1. k - 1 \in 0 .. Len(begin)
      BY <1>7
    <3> QED
      BY <1>1, <1>6, <3>1 DEF StreamInv, WireInv
  <2>2. \A j, k \in 1 .. Len(begin) : j < k => EndOf(j)' <= begin'[k]
    BY <1>1, <1>6, <1>7 DEF StreamInv, WireInv
  <2>3. ASSUME NEW p \in 1 .. Len(wire)
        PROVE  /\ wire'[p][1] \in 1 .. Len(begin')
               /\ wire'[p][2] \in 1 .. FrameLen(wire[p][1])'
               /\ p = begin'[wire'[p][1]] + wire'[p][2]
    <3>1. /\ wire[p][1] \in 1 .. Len(begin) /\ wire[p][2] \in 1 .. FrameLen(wire[p][1])
          /\ p = begin[wire[p][1]] + wire[p][2]
      BY DEF StreamInv, WireInv
    <3>2. wire[p][1] \in 1 .. Len(mail)
      BY <1>2, <1>7, <3>1
    <3>3. FrameLen(wire[p][1])' = FrameLen(wire[p][1])
      BY <1>1, <1>2, <3>2 DEF FrameLen
    <3> QED
      BY <1>1, <3>1, <3>3
  <2> QED
    BY <1>1, <2>1, <2>2, <2>3 DEF WireInv
<1>10. ReadInv'
  <2>1. Len(shown) \in Nat /\ Len(shown) <= Len(begin)
    BY Types DEF StreamInv, ReadInv
  <2>2. \A i \in 1 .. Len(shown) : shown'[i] = mail'[i]
    BY <1>1, <1>2, <1>7, <2>1 DEF StreamInv, ReadInv
  <2>3. EndOf(Len(shown))' = EndOf(Len(shown))
    BY <1>1, <1>6, <1>7, <2>1
  <2>4. Len(shown) < Len(begin) => mail'[Len(shown) + 1] = mail[Len(shown) + 1]
    BY <1>2, <1>7, <2>1
  <2> QED
    BY <1>1, <2>1, <2>2, <2>3, <2>4 DEF StreamInv, ReadInv
<1> QED
  BY <1>3, <1>4, <1>8, <1>9, <1>10

\* Steps that leave the wire and the frames begun alone.
LEMMA WireKept ==
  ASSUME StreamInv, UNCHANGED <<mail, wire, begin>>
  PROVE  /\ WireInv'
         /\ \A k : FrameLen(k)' = FrameLen(k) /\ EndOf(k)' = EndOf(k)
BY DEF StreamInv, WireInv, FrameLen, EndOf

\* Steps that leave the wire and the client's reading alone.
LEMMA ReadKept ==
  ASSUME StreamInv, UNCHANGED <<mail, wire, begin, arrived, parsed, exp_len, shown>>
  PROVE  ReaderType' /\ ReadInv'
<1>1. ReaderType'
  BY DEF StreamInv, TypeOK, ReaderType
<1>2. EndOf(Len(shown))' = EndOf(Len(shown))
  BY WireKept
<1> QED
  BY <1>1, <1>2 DEF StreamInv, ReadInv

\* A sequence with an index and at most one element.
LEMMA Single ==
  ASSUME NEW S, NEW s \in Seq(S), Len(s) <= 1, NEW i \in 1 .. Len(s)
  PROVE  /\ i = 1 /\ Len(s) = 1 /\ s = <<s[1]>> /\ s[1] \in S /\ s # <<>>
         /\ RemoveAt(s, i) = <<>>
<1>0. Len(s) \in Nat /\ i \in Nat /\ 1 <= i /\ i <= Len(s)
  OBVIOUS
<1>1. i = 1 /\ Len(s) = 1
  <2>1. ASSUME NEW a \in Nat, NEW b \in Nat, 1 <= a, a <= b, b <= 1
        PROVE  a = 1 /\ b = 1
    BY <2>1
  <2> QED
    BY <1>0, <2>1
<1>2. s = <<s[1]>> /\ s[1] \in S /\ s # <<>>
  BY <1>1
<1>3. SubSeq(s, 1, i - 1) = <<>>
  BY <1>1
<1>4. SubSeq(s, i + 1, Len(s)) = <<>>
  BY <1>1
<1>5. <<>> \o <<>> = <<>>
  OBVIOUS
<1> QED
  BY <1>1, <1>2, <1>3, <1>4, <1>5 DEF RemoveAt

\* An async_write that is under way is the only one and writes the frame begun last.
LEMMA OnlyWrite ==
  ASSUME StreamInv, NEW i \in 1 .. Len(writes)
  PROVE  /\ i = 1 /\ Len(writes) = 1 /\ writes = <<writes[1]>> /\ RemoveAt(writes, i) = <<>>
         /\ writes[1].done \in Nat /\ writes[1].frame = Len(begin)
         /\ Len(begin) \in 1 .. Len(mail)
         /\ queue # <<>> /\ Len(begin) = (ran - Len(queue)) + 1
         /\ Len(wire) = begin[Len(begin)] + writes[1].done
         /\ writes[1].done <= FrameLen(Len(begin))
<1>1. writes \in Seq([frame : 1 .. Len(mail), done : Nat])
  BY DEF StreamInv, TypeOK, WriterType
<1>2. Len(writes) <= 1
  BY DEF StreamInv, WriteInv, OneWrite
<1> DEFINE S == [frame : 1 .. Len(mail), done : Nat]
<1> HIDE DEF S
<1>3. /\ i = 1 /\ Len(writes) = 1 /\ writes = <<writes[1]>> /\ writes[1] \in S
      /\ writes # <<>> /\ RemoveAt(writes, i) = <<>>
  <2>1. writes \in Seq(S)
    BY <1>1 DEF S
  <2> QED
    BY <1>2, <2>1, Single
<1>6. writes[1].done \in Nat
  BY <1>3 DEF S
<1>7. queue # <<>> /\ writes[1].frame = Head(queue)
  BY <1>3 DEF StreamInv, WriteInv, OneWrite
<1>8. Len(begin) = (ran - Len(queue)) + 1 /\ Len(queue) <= ran
  BY <1>7 DEF StreamInv, WriteInv
<1>9. Len(queue) > 0 /\ Head(queue) = queue[1] /\ Len(queue) \in Nat /\ ran \in Nat
  BY <1>7, Types
<1>10. queue[1] = (ran - Len(queue)) + 1
  BY <1>9 DEF StreamInv, WriteInv
<1>11. Len(begin) \in 1 .. Len(mail)
  BY <1>8, <1>9, Types
<1>12. Len(wire) = begin[Len(begin)] + writes[1].done /\ writes[1].done <= FrameLen(Len(begin))
  BY <1>3 DEF StreamInv, WriteInv
<1> QED
  BY <1>3, <1>6, <1>7, <1>8, <1>9, <1>10, <1>11, <1>12

\* A frame is begun when all before it are on the wire.
LEMMA BeginGrows ==
  ASSUME StreamInv, begin' = Append(begin, Len(wire)), UNCHANGED <<mail, wire>>,
         Len(wire) = EndOf(Len(begin)), Len(begin) < Len(mail)
  PROVE  /\ Len(begin') = Len(begin) + 1 /\ begin' \in Seq(Nat)
         /\ \A k \in 0 .. Len(begin) : EndOf(k)' = EndOf(k)
         /\ \A n : n = Len(begin) + 1 => begin'[n] = Len(wire) /\ Len(wire) <= EndOf(n)'
         /\ WireInv'
<1>1. /\ begin \in Seq(Nat) /\ Len(begin) \in Nat /\ Len(wire) \in Nat /\ Len(mail) \in Nat
      /\ Len(begin') = Len(begin) + 1 /\ begin' \in Seq(Nat)
      /\ \A k \in 1 .. Len(begin) : begin'[k] = begin[k]
      /\ begin'[Len(begin) + 1] = Len(wire)
  BY Types
<1>2. \A k : FrameLen(k)' = FrameLen(k)
  BY DEF FrameLen
<1>3. \A k \in 0 .. Len(begin) : EndOf(k)' = EndOf(k)
  BY <1>1, <1>2 DEF EndOf
<1>4. \A k \in 0 .. Len(begin) : EndOf(k) \in Nat /\ EndOf(k) <= Len(wire)
  <2> TAKE k \in 0 .. Len(begin)
  <2>1. CASE k = 0
    BY <1>1, <2>1 DEF EndOf
  <2>2. CASE k \in 1 .. Len(begin)
    <3>1. EndOf(k) = begin[k] + FrameLen(k) /\ EndOf(k) \in Nat
      BY <2>2, Sizes
    <3>2. CASE k = Len(begin)
      BY <3>1, <3>2
    <3>3. CASE k < Len(begin)
      <4>1. Len(begin) \in 1 .. Len(begin) /\ EndOf(k) <= begin[Len(begin)]
        BY <1>1, <2>2, <3>3 DEF StreamInv, WireInv
      <4>2. /\ EndOf(Len(begin)) = begin[Len(begin)] + FrameLen(Len(begin))
            /\ FrameLen(Len(begin)) \in Nat /\ begin[Len(begin)] \in Nat
        BY <4>1, Sizes
      <4> QED
        BY <1>1, <3>1, <4>1, <4>2
    <3> QED
      BY <1>1, <2>2, <3>2, <3>3
  <2> QED
    BY <1>1, <2>1, <2>2
<1>5. ASSUME NEW n, n = Len(begin) + 1
      PROVE  begin'[n] = Len(wire) /\ Len(wire) <= EndOf(n)'
  <2>1. FrameLen(n) \in Nat /\ n # 0
    BY <1>1, <1>5, Types
  <2>2. EndOf(n)' = Len(wire) + FrameLen(n)
    BY <1>1, <1>2, <1>5, <2>1 DEF EndOf
  <2> QED
    BY <1>1, <1>5, <2>1, <2>2
<1>6. \A k \in 1 .. Len(begin') : begin'[k] = EndOf(k - 1)'
  <2> TAKE k \in 1 .. Len(begin')
  <2>1. k - 1 \in 0 .. Len(begin) /\ EndOf(k - 1)' = EndOf(k - 1)
    BY <1>1, <1>3
  <2>2. CASE k \in 1 .. Len(begin)
    BY <1>1, <2>1, <2>2 DEF StreamInv, WireInv
  <2>3. CASE k = Len(begin) + 1
    <3>1. k - 1 = Len(begin)
      BY <1>1, <2>3
    <3> QED
      BY <1>1, <2>1, <2>3, <3>1
  <2> QED
    BY <1>1, <2>2, <2>3
<1>7. \A j, k \in 1 .. Len(begin') : j < k => EndOf(j)' <= begin'[k]
  <2> SUFFICES ASSUME NEW j \in 1 .. Len(begin'), NEW k \in 1 .. Len(begin'), j < k
               PROVE  EndOf(j)' <= begin'[k]
    OBVIOUS
  <2>1. j \in 1 .. Len(begin) /\ j \in 0 .. Len(begin)
    BY <1>1
  <2>2. CASE k \in 1 .. Len(begin)
    <3>1. EndOf(j) <= begin[k]
      BY <2>1, <2>2 DEF StreamInv, WireInv
    <3> QED
      BY <1>1, <1>3, <2>1, <2>2, <3>1
  <2>3. CASE k = Len(begin) + 1
    BY <1>1, <1>3, <1>4, <2>1, <2>3
  <2> QED
    BY <1>1, <2>2, <2>3
<1>8. ASSUME NEW p \in 1 .. Len(wire)
      PROVE  /\ wire[p][1] \in 1 .. Len(begin') /\ wire[p][2] \in 1 .. FrameLen(wire[p][1])
             /\ p = begin'[wire[p][1]] + wire[p][2]
  <2>1. /\ wire[p][1] \in 1 .. Len(begin) /\ wire[p][2] \in 1 .. FrameLen(wire[p][1])
        /\ p = begin[wire[p][1]] + wire[p][2]
    BY DEF StreamInv, WireInv
  <2> QED
    BY <1>1, <2>1
<1>9. WireInv'
  BY <1>2, <1>6, <1>7, <1>8 DEF WireInv
<1> QED
  BY <1>1, <1>3, <1>5, <1>9

\* A frame that begins leaves the ends of the earlier ones, which is where the client is.
LEMMA ReadGrows ==
  ASSUME StreamInv, UNCHANGED <<mail, wire, arrived, parsed, exp_len, shown>>,
         begin' = Append(begin, Len(wire)), \A k \in 0 .. Len(begin) : EndOf(k)' = EndOf(k)
  PROVE  ReaderType' /\ ReadInv'
<1>1. ReaderType'
  BY DEF StreamInv, TypeOK, ReaderType
<1>2. /\ Len(begin) \in Nat /\ Len(begin') = Len(begin) + 1 /\ Len(shown) \in Nat
      /\ \A k \in 1 .. Len(begin) : begin'[k] = begin[k]
  BY Types
<1>3. Len(shown) <= Len(begin)
  BY DEF StreamInv, ReadInv
<1>4. EndOf(Len(shown))' = EndOf(Len(shown))
  BY <1>2, <1>3
<1>5. Len(shown) < Len(begin) => begin'[Len(shown) + 1] = begin[Len(shown) + 1]
  BY <1>2, <1>3
<1> QED
  BY <1>1, <1>2, <1>3, <1>4, <1>5 DEF StreamInv, ReadInv

\* A posted function begins a frame when write_bufs_ was empty, and else only queues it.
LEMMA PostedStep ==
  ASSUME StreamInv, Posted
  PROVE  WriterType' /\ ReaderType' /\ WriteInv' /\ WireInv' /\ ReadInv'
<1>1. /\ ran < Len(mail) /\ ran' = ran + 1 /\ queue' = Append(queue, ran + 1)
      /\ UNCHANGED <<mail, wire, arrived, parsed, exp_len, shown>>
  BY DEF Posted, reader
<1>2. /\ ran \in Nat /\ Len(mail) \in Nat /\ queue \in Seq(1 .. Len(mail)) /\ begin \in Seq(Nat)
      /\ wire \in Seq((1 .. Len(mail)) \X (Nat \ {0})) /\ mail \in Seq(Msgs)
      /\ Len(wire) \in Nat /\ Len(begin) \in Nat
  BY Types
<1>3. /\ queue' \in Seq(1 .. Len(mail)) /\ Len(queue') = Len(queue) + 1 /\ queue' # <<>>
      /\ \A i \in 1 .. Len(queue) : queue'[i] = queue[i]
      /\ queue'[Len(queue) + 1] = ran + 1 /\ Len(queue) \in Nat
      /\ Head(queue') = queue'[1]
  <2> DEFINE S == 1 .. Len(mail)
  <2>1. ran + 1 \in S /\ queue \in Seq(S)
    BY <1>1, <1>2
  <2> HIDE DEF S
  <2>2. /\ Append(queue, ran + 1) \in Seq(S) /\ Len(queue) \in Nat
        /\ Len(Append(queue, ran + 1)) = Len(queue) + 1
        /\ \A i \in 1 .. Len(queue) : Append(queue, ran + 1)[i] = queue[i]
        /\ Append(queue, ran + 1)[Len(queue) + 1] = ran + 1
        /\ Append(queue, ran + 1) # <<>>
    BY <2>1
  <2>3. Head(queue') = queue'[1]
    BY <1>1, <2>2
  <2> QED
    BY <1>1, <2>2, <2>3 DEF S
<1>4. /\ Len(queue') <= ran'
      /\ \A i \in 1 .. Len(queue') : queue'[i] = (ran' - Len(queue')) + i
  <2>1. Len(queue) <= ran /\ \A i \in 1 .. Len(queue) : queue[i] = (ran - Len(queue)) + i
    BY DEF StreamInv, WriteInv
  <2>2. ran' - Len(queue') = ran - Len(queue) /\ Len(queue') <= ran'
    BY <1>1, <1>2, <1>3, <2>1
  <2>3. ASSUME NEW i \in 1 .. Len(queue')
        PROVE  queue'[i] = (ran - Len(queue)) + i
    <3>1. CASE i \in 1 .. Len(queue)
      BY <1>3, <2>1, <3>1
    <3>2. CASE i = Len(queue) + 1
      BY <1>2, <1>3, <3>2
    <3> QED
      BY <1>3, <3>1, <3>2
  <2> QED
    BY <2>2, <2>3
<1>5. CASE queue = <<>>
  <2>1. writes = <<>>
    <3>1. writes \in Seq([frame : 1 .. Len(mail), done : Nat])
      BY DEF StreamInv, TypeOK, WriterType
    <3>2. ~(1 \in 1 .. Len(writes))
      BY <1>5, OnlyWrite
    <3> QED
      BY <3>1, <3>2
  <2>2. Len(begin) = ran /\ Len(wire) = EndOf(Len(begin)) /\ Len(queue) = 0
    BY <1>5 DEF StreamInv, WriteInv
  <2>3. /\ begin' = Append(begin, Len(wire))
        /\ writes' = <<[frame |-> ran + 1, done |-> 0]>>
    BY <1>1, <1>3, <1>5, <2>1, <2>2 DEF Posted, DoWrite
  <2>4. /\ Len(begin') = ran + 1 /\ begin' \in Seq(Nat) /\ begin'[ran + 1] = Len(wire)
        /\ \A k \in 0 .. Len(begin) : EndOf(k)' = EndOf(k)
        /\ \A n : n = ran + 1 => Len(wire) <= EndOf(n)'
        /\ WireInv'
    BY <1>1, <1>2, <2>2, <2>3, BeginGrows
  <2>5. ReaderType' /\ ReadInv'
    BY <1>1, <2>3, <2>4, ReadGrows
  <2>6. WriterType'
    <3>1. writes' \in Seq([frame : 1 .. Len(mail), done : Nat])
      BY <1>1, <1>2, <2>3
    <3> QED
      BY <1>1, <1>2, <1>3, <2>4, <3>1 DEF WriterType, StreamInv, TypeOK
  <2>7. ASSUME NEW n, n = ran + 1
        PROVE  FrameLen(n)' >= 0
    <3>1. n \in 1 .. Len(mail)
      BY <1>1, <1>2, <2>7
    <3>2. FrameLen(n) \in Nat
      BY <3>1, Types
    <3>3. FrameLen(n)' = FrameLen(n)
      BY <1>1 DEF FrameLen
    <3> QED
      BY <3>2, <3>3
  <2>8. OneWrite'
    BY <1>3, <2>2, <2>3 DEF OneWrite
  <2>9. WriteInv'
    <3>1. writes'[1].done = 0 /\ Len(begin') = ran'
      BY <1>1, <2>3, <2>4
    <3>2. Len(begin') = (ran' - Len(queue')) + 1
      BY <1>1, <1>2, <1>3, <2>2, <2>4
    <3>3. Len(wire') = begin'[Len(begin')] + writes'[1].done
      BY <1>1, <1>2, <2>4, <3>1
    <3>4. PICK n : n = Len(begin')
      OBVIOUS
    <3>5. n = ran + 1 /\ FrameLen(n)' >= 0 /\ Len(wire) <= EndOf(n)'
      BY <2>4, <2>7, <3>4
    <3> QED
      BY <1>1, <1>3, <1>4, <2>8, <3>1, <3>2, <3>3, <3>4, <3>5 DEF WriteInv
  <2> QED
    BY <2>4, <2>5, <2>6, <2>9
<1>6. CASE queue # <<>>
  <2>1. UNCHANGED <<mail, wire, begin, writes>>
    BY <1>1, <1>6 DEF Posted, NoWrite
  <2>2. ReaderType' /\ ReadInv' /\ WireInv'
    BY <1>1, <2>1, ReadKept, WireKept
  <2>3. WriterType'
    BY <1>1, <1>2, <1>3, <2>1 DEF WriterType, StreamInv, TypeOK
  <2>4. Head(queue') = Head(queue) /\ Len(queue) > 0
    BY <1>2, <1>3, <1>6
  <2>5. OneWrite'
    BY <1>3, <2>1, <2>4 DEF OneWrite, StreamInv, WriteInv
  <2>6. Len(begin) = (ran' - Len(queue')) + 1
    BY <1>1, <1>2, <1>3, <1>6 DEF StreamInv, WriteInv
  <2>7. EndOf(Len(begin))' = EndOf(Len(begin)) /\ FrameLen(Len(begin))' = FrameLen(Len(begin))
    BY <2>1, WireKept
  <2> QED
    <3>1. WriteInv'
      BY <1>3, <1>4, <2>1, <2>5, <2>6, <2>7 DEF StreamInv, WriteInv
    <3> QED
      BY <2>2, <2>3, <3>1
<1> QED
  BY <1>5, <1>6

\* The byte an async_write adds is the next of the frame begun last.
LEMMA WriteSomeStep ==
  ASSUME StreamInv, WriteSome
  PROVE  WriterType' /\ ReaderType' /\ WriteInv' /\ WireInv' /\ ReadInv'
<1>1. PICK i \in 1 .. Len(writes) :
        /\ writes[i].done < FrameLen(writes[i].frame)
        /\ wire' = Append(wire, <<writes[i].frame, writes[i].done + 1>>)
        /\ writes' = [writes EXCEPT ![i].done = @ + 1]
  BY DEF WriteSome
<1>2. UNCHANGED <<mail, ran, queue, begin, arrived, parsed, exp_len, shown>>
  BY DEF WriteSome, reader
<1> DEFINE f == Len(begin)
           d == writes[1].done
<1>3. /\ i = 1 /\ Len(writes) = 1 /\ writes = <<writes[1]>> /\ d \in Nat /\ writes[1].frame = f
      /\ f \in 1 .. Len(mail) /\ queue # <<>> /\ f = (ran - Len(queue)) + 1
      /\ Len(wire) = begin[f] + d
  BY OnlyWrite
<1>4. writes \in Seq([frame : 1 .. Len(mail), done : Nat])
  BY DEF StreamInv, TypeOK, WriterType
<1> DEFINE R == [frame : 1 .. Len(mail), done : Nat]
<1>5. writes[1] \in R /\ DOMAIN writes = {1}
  <2>1. writes \in Seq(R)
    BY <1>4
  <2> HIDE DEF R
  <2>2. \A s \in Seq(R) : DOMAIN s = 1 .. Len(s) /\ \A j \in 1 .. Len(s) : s[j] \in R
    OBVIOUS
  <2>3. Len(writes) = 1 /\ 1 \in 1 .. 1 /\ 1 .. 1 = {1}
    BY <1>3
  <2>4. DOMAIN writes = 1 .. 1 /\ \A j \in 1 .. 1 : writes[j] \in R
    BY <2>1, <2>2, <2>3
  <2> QED
    BY <2>3, <2>4
<1>6. /\ Len(writes') = 1 /\ writes'[1].done = d + 1 /\ writes'[1].frame = f
      /\ writes' \in Seq(R)
  <2>1. writes' = [writes EXCEPT ![1] = [writes[1] EXCEPT !.done = d + 1]]
    BY <1>1, <1>3
  <2>2. [writes[1] EXCEPT !.done = d + 1] \in R
    BY <1>3, <1>5
  <2>3. writes'[1] = [writes[1] EXCEPT !.done = d + 1] /\ DOMAIN writes' = {1}
    BY <1>5, <2>1
  <2>4. writes' \in Seq(R) /\ Len(writes') = 1
    BY <1>3, <1>4, <2>1, <2>2
  <2> QED
    BY <1>3, <1>5, <2>2, <2>3, <2>4
<1>7. /\ wire \in Seq((1 .. Len(mail)) \X (Nat \ {0})) /\ mail \in Seq(Msgs)
      /\ Len(wire) \in Nat /\ f \in Nat /\ f \in 1 .. Len(begin) /\ begin[f] \in Nat
      /\ FrameLen(f) \in Nat /\ EndOf(f) = begin[f] + FrameLen(f)
  BY <1>3, Types, Sizes
<1>8. /\ wire' \in Seq((1 .. Len(mail)) \X (Nat \ {0})) /\ Len(wire') = Len(wire) + 1
      /\ \A p \in 1 .. Len(wire) : wire'[p] = wire[p]
      /\ wire'[Len(wire) + 1] = <<f, d + 1>>
  BY <1>1, <1>3, <1>7
<1>9. d < FrameLen(f)
  BY <1>1, <1>3
<1>10. \A k : FrameLen(k)' = FrameLen(k) /\ EndOf(k)' = EndOf(k)
  BY <1>2 DEF FrameLen, EndOf
<1>11. WriterType'
  BY <1>2, <1>6, <1>8 DEF WriterType, StreamInv, TypeOK
<1>12. ReaderType'
  BY <1>2, <1>7, <1>8 DEF ReaderType, StreamInv, TypeOK
<1>13. WriteInv'
  <2>1. OneWrite'
    BY <1>2, <1>3, <1>6 DEF OneWrite, StreamInv, WriteInv
  <2>2. Len(wire') = begin[f] + (d + 1) /\ d + 1 <= FrameLen(f) /\ Len(wire') <= EndOf(f)
    BY <1>3, <1>7, <1>8, <1>9
  <2>3. EndOf(Len(begin))' = EndOf(f) /\ FrameLen(Len(begin))' = FrameLen(f)
    BY <1>2, <1>10
  <2> QED
    BY <1>2, <1>3, <1>6, <2>1, <2>2, <2>3 DEF StreamInv, WriteInv
<1>14. WireInv'
  <2>1. ASSUME NEW p \in 1 .. Len(wire')
        PROVE  /\ wire'[p][1] \in 1 .. Len(begin) /\ wire'[p][2] \in 1 .. FrameLen(wire'[p][1])
               /\ p = begin[wire'[p][1]] + wire'[p][2]
    <3>1. CASE p \in 1 .. Len(wire)
      BY <1>8, <3>1 DEF StreamInv, WireInv
    <3>2. CASE p = Len(wire) + 1
      <4>1. wire'[p][1] = f /\ wire'[p][2] = d + 1
        BY <1>8, <3>2
      <4>2. f \in 1 .. Len(begin) /\ d + 1 \in 1 .. FrameLen(f) /\ p = begin[f] + (d + 1)
        BY <1>3, <1>7, <1>9, <3>2
      <4> QED
        BY <4>1, <4>2
    <3> QED
      BY <1>7, <1>8, <3>1, <3>2
  <2> QED
    BY <1>2, <1>10, <2>1 DEF StreamInv, WireInv
<1>15. ReadInv'
  <2>1. EndOf(Len(shown))' = EndOf(Len(shown))
    BY <1>2, <1>10
  <2> QED
    BY <1>2, <2>1 DEF StreamInv, ReadInv
<1> QED
  BY <1>11, <1>12, <1>13, <1>14, <1>15

\* A completed frame ends where the wire ends, and the next in write_bufs_ begins there.
LEMMA WriteDoneStep ==
  ASSUME StreamInv, WriteDone
  PROVE  WriterType' /\ ReaderType' /\ WriteInv' /\ WireInv' /\ ReadInv'
<1>1. PICK i \in 1 .. Len(writes) :
        /\ writes[i].done = FrameLen(writes[i].frame)
        /\ queue # <<>> /\ queue' = Tail(queue)
        /\ IF queue' # <<>>
           THEN DoWrite(queue', RemoveAt(writes, i))
           ELSE NoWrite(RemoveAt(writes, i))
  BY DEF WriteDone
<1>2. UNCHANGED <<mail, ran, wire, arrived, parsed, exp_len, shown>>
  BY DEF WriteDone, reader
<1> DEFINE f == Len(begin)
           S == 1 .. Len(mail)
<1>3. /\ i = 1 /\ RemoveAt(writes, i) = <<>> /\ writes[1].frame = f
      /\ f \in S /\ f = (ran - Len(queue)) + 1
      /\ Len(wire) = begin[f] + writes[1].done
  BY OnlyWrite
<1>4. f \in 1 .. Len(begin) /\ f \in Nat /\ begin \in Seq(Nat) /\ queue \in Seq(S)
      /\ ran \in Nat /\ ran <= Len(mail) /\ Len(mail) \in Nat /\ Len(queue) \in Nat
  BY <1>3, Types
<1>5. Len(wire) = EndOf(f)
  BY <1>1, <1>3, <1>4, Sizes
<1>6. /\ queue' \in Seq(S) /\ Len(queue') = Len(queue) - 1 /\ Len(queue) > 0
      /\ \A k \in 1 .. Len(queue') : queue'[k] = queue[k + 1]
      /\ queue' # <<>> => Len(queue') > 0 /\ Head(queue') = queue'[1]
  <2> HIDE DEF S
  <2> QED
    BY <1>1, <1>4
<1>7. /\ Len(queue') <= ran
      /\ \A k \in 1 .. Len(queue') : queue'[k] = (ran - Len(queue')) + k
  <2>1. /\ Len(queue) <= ran
        /\ \A k \in 1 .. Len(queue) : queue[k] = (ran - Len(queue)) + k
    BY DEF StreamInv, WriteInv
  <2>2. Len(queue') <= ran
    BY <1>4, <1>6, <2>1
  <2>3. ASSUME NEW k \in 1 .. Len(queue')
        PROVE  queue'[k] = (ran - Len(queue')) + k
    <3>1. k + 1 \in 1 .. Len(queue)
      BY <1>4, <1>6
    <3> QED
      BY <1>4, <1>6, <2>1, <3>1
  <2> QED
    BY <2>2, <2>3
<1>8. CASE queue' = <<>>
  <2>1. UNCHANGED <<mail, wire, begin>> /\ writes' = <<>> /\ Len(queue) = 1
    <3>1. Len(queue') = 0
      BY <1>8
    <3>2. Len(queue) = 1
      BY <1>4, <1>6, <3>1
    <3> QED
      BY <1>1, <1>2, <1>3, <1>8, <3>2 DEF NoWrite
  <2>2. ReaderType' /\ ReadInv' /\ WireInv'
    BY <1>2, <2>1, ReadKept, WireKept
  <2>3. WriterType'
    BY <1>2, <1>6, <2>1 DEF WriterType, StreamInv, TypeOK
  <2>4. OneWrite'
    BY <2>1 DEF OneWrite
  <2>5. EndOf(Len(begin))' = EndOf(Len(begin))
    BY <2>1, WireKept
  <2>6. Len(begin) = ran
    BY <1>3, <1>4, <2>1
  <2>7. WriteInv'
    BY <1>2, <1>5, <1>7, <1>8, <2>1, <2>4, <2>5, <2>6 DEF StreamInv, WriteInv
  <2> QED
    BY <2>2, <2>3, <2>7
<1>9. CASE queue' # <<>>
  <2>1. /\ begin' = Append(begin, Len(wire))
        /\ writes' = <<[frame |-> f + 1, done |-> 0]>>
        /\ f < Len(mail)
    <3>1. queue'[1] = f + 1 /\ f < Len(mail)
      <4>1. 1 \in 1 .. Len(queue') /\ Len(queue') \in Nat
        BY <1>4, <1>6, <1>9
      <4>2. queue'[1] = (ran - Len(queue')) + 1
        BY <1>7, <4>1
      <4>3. queue'[1] = f + 1
        BY <1>3, <1>4, <1>6, <4>1, <4>2
      <4>4. Len(queue') <= ran
        BY <1>7
      <4> QED
        BY <1>3, <1>4, <1>6, <4>1, <4>2, <4>3, <4>4
    <3> QED
      BY <1>1, <1>3, <1>6, <1>9, <3>1 DEF DoWrite
  <2>2. /\ Len(begin') = f + 1 /\ begin' \in Seq(Nat)
        /\ \A k \in 0 .. Len(begin) : EndOf(k)' = EndOf(k)
        /\ \A n : n = f + 1 => begin'[n] = Len(wire) /\ Len(wire) <= EndOf(n)'
        /\ WireInv'
    BY <1>2, <1>5, <2>1, BeginGrows
  <2>3. ReaderType' /\ ReadInv'
    BY <1>2, <2>1, <2>2, ReadGrows
  <2>4. WriterType'
    <3>1. f + 1 \in S /\ 0 \in Nat
      BY <1>4, <2>1
    <3>2. writes' \in Seq([frame : 1 .. Len(mail), done : Nat])
      BY <2>1, <3>1
    <3> QED
      BY <1>2, <1>6, <2>2, <3>2 DEF WriterType, StreamInv, TypeOK
  <2>5. OneWrite'
    <3>1. Head(queue') = f + 1
      BY <1>3, <1>4, <1>6, <1>7, <1>9
    <3> QED
      BY <1>9, <2>1, <3>1 DEF OneWrite
  <2>6. PICK n : n = f + 1
    OBVIOUS
  <2>7. n = Len(begin') /\ begin'[n] = Len(wire) /\ Len(wire) <= EndOf(n)' /\ FrameLen(n)' >= 0
    <3>1. n \in 1 .. Len(mail)
      BY <1>4, <2>1, <2>6
    <3>2. FrameLen(n) \in Nat /\ FrameLen(n)' = FrameLen(n)
      BY <1>2, <3>1, Types DEF FrameLen
    <3> QED
      BY <2>2, <2>6, <3>2
  <2>8. WriteInv'
    <3>1. Len(begin') = (ran - Len(queue')) + 1
      BY <1>3, <1>4, <1>6, <2>2
    <3>2. Len(wire) = begin'[n] + writes'[1].done /\ writes'[1].done = 0
      <4>1. Len(wire) \in Nat
        BY Types
      <4> QED
        BY <2>1, <2>7, <4>1
    <3> QED
      BY <1>2, <1>7, <1>9, <2>5, <2>7, <3>1, <3>2 DEF WriteInv
  <2> QED
    BY <2>2, <2>3, <2>4, <2>8
<1> QED
  BY <1>8, <1>9

\* After a failed async_write none is under way and write_bufs_ is not empty: none follows.
LEMMA WriteFailsStep ==
  ASSUME StreamInv, WriteFails
  PROVE  WriterType' /\ ReaderType' /\ WriteInv' /\ WireInv' /\ ReadInv'
<1>1. PICK i \in 1 .. Len(writes) : writes' = RemoveAt(writes, i) /\ UNCHANGED begin
  BY DEF WriteFails, NoWrite
<1>2. UNCHANGED <<mail, ran, queue, wire, begin, arrived, parsed, exp_len, shown>>
  BY <1>1 DEF WriteFails, reader
<1>3. writes' = <<>> /\ queue # <<>>
  BY <1>1, OnlyWrite
<1>4. ReaderType' /\ ReadInv' /\ WireInv'
  BY <1>2, ReadKept, WireKept
<1>5. WriterType'
  BY <1>2, <1>3 DEF WriterType, StreamInv, TypeOK
<1>6. OneWrite'
  BY <1>3 DEF OneWrite
<1>7. EndOf(Len(begin))' = EndOf(Len(begin))
  BY <1>2, WireKept
<1>8. WriteInv'
  BY <1>2, <1>3, <1>6, <1>7 DEF StreamInv, WriteInv
<1> QED
  BY <1>4, <1>5, <1>8

\* A header read is that of the next message.
LEMMA TakeHeaderStep ==
  ASSUME StreamInv, TakeHeader
  PROVE  WriterType' /\ ReaderType' /\ WriteInv' /\ WireInv' /\ ReadInv'
<1>1. /\ exp_len = 0 /\ parsed + Header <= arrived
      /\ exp_len' \in LengthsAt(parsed) /\ parsed' = parsed + Header
      /\ UNCHANGED <<mail, ran, queue, writes, wire, begin, arrived, shown>>
  BY DEF TakeHeader, writer
<1>2. /\ Len(shown) < Len(begin) /\ parsed = begin[Len(shown) + 1]
      /\ exp_len' = Size[mail[Len(shown) + 1]]
  BY <1>1, HeaderIsNext
<1>3. Len(shown) \in Nat /\ Len(begin) \in Nat /\ Len(begin) <= Len(mail) /\ Len(mail) \in Nat
  BY Types
<1>4. Len(shown) + 1 \in 1 .. Len(mail)
  BY <1>2, <1>3
<1>5. exp_len' \in Nat /\ exp_len' # 0
  BY <1>2, <1>4, Types
<1>6. parsed \in Nat /\ arrived \in 0 .. Len(wire)
  BY Types
<1>7. WriterType' /\ WriteInv' /\ WireInv'
  <2>1. EndOf(Len(begin))' = EndOf(Len(begin)) /\ FrameLen(Len(begin))' = FrameLen(Len(begin))
    BY <1>1, WireKept
  <2>2. OneWrite'
    BY <1>1 DEF OneWrite, StreamInv, WriteInv
  <2>3. WireInv'
    BY <1>1, WireKept
  <2>4. WriteInv'
    BY <1>1, <2>1, <2>2 DEF StreamInv, WriteInv
  <2> QED
    BY <1>1, <2>3, <2>4 DEF WriterType, StreamInv, TypeOK
<1>8. ReaderType'
  <2>1. parsed' \in 0 .. arrived
    BY <1>1, <1>6 DEF Header
  <2> QED
    BY <1>1, <1>5, <2>1 DEF ReaderType, StreamInv, TypeOK
<1>9. ReadInv'
  BY <1>1, <1>2, <1>5 DEF ReadInv, StreamInv
<1> QED
  BY <1>7, <1>8, <1>9

\* What the client handles is the next message: a step of FifoChannel.
LEMMA TakeContentStep ==
  ASSUME StreamInv, TakeContent
  PROVE  /\ WriterType' /\ ReaderType' /\ WriteInv' /\ WireInv' /\ ReadInv'
         /\ Len(shown) < Len(mail) /\ shown' = Append(shown, mail[Len(shown) + 1])
<1>1. /\ exp_len # 0 /\ parsed + exp_len <= arrived
      /\ shown' = Append(shown, ContentAt(parsed, exp_len))
      /\ parsed' = parsed + exp_len /\ exp_len' = 0
      /\ UNCHANGED <<mail, ran, queue, writes, wire, begin, arrived>>
  BY DEF TakeContent, writer
<1> DEFINE n == Len(shown)
<1>2. /\ n < Len(begin) /\ parsed + exp_len = EndOf(n + 1)
      /\ ContentAt(parsed, exp_len) = mail[n + 1]
  BY <1>1, ContentIsNext
<1>3. /\ n \in Nat /\ Len(begin) \in Nat /\ Len(begin) <= Len(mail) /\ Len(mail) \in Nat
      /\ mail \in Seq(Msgs) /\ shown \in Seq(Msgs \cup {None})
      /\ parsed \in Nat /\ exp_len \in Nat /\ arrived \in Nat
  BY Types
<1>4. n + 1 \in 1 .. Len(mail) /\ mail[n + 1] \in Msgs \cup {None}
  BY <1>2, <1>3
<1>5. /\ shown' \in Seq(Msgs \cup {None}) /\ Len(shown') = n + 1
      /\ \A i \in 1 .. n : shown'[i] = shown[i]
      /\ shown'[n + 1] = mail[n + 1]
  BY <1>1, <1>2, <1>3, <1>4
<1>6. WriterType' /\ WriteInv' /\ WireInv'
  <2>1. EndOf(Len(begin))' = EndOf(Len(begin)) /\ FrameLen(Len(begin))' = FrameLen(Len(begin))
    BY <1>1, WireKept
  <2>2. OneWrite'
    BY <1>1 DEF OneWrite, StreamInv, WriteInv
  <2>3. WireInv'
    BY <1>1, WireKept
  <2>4. WriteInv'
    BY <1>1, <2>1, <2>2 DEF StreamInv, WriteInv
  <2> QED
    BY <1>1, <2>3, <2>4 DEF WriterType, StreamInv, TypeOK
<1>7. ReaderType'
  <2>1. parsed' \in 0 .. arrived
    BY <1>1, <1>3
  <2> QED
    BY <1>1, <1>5, <2>1 DEF ReaderType, StreamInv, TypeOK
<1>8. ReadInv'
  <2>1. \A i \in 1 .. n : shown[i] = mail[i]
    BY DEF StreamInv, ReadInv
  <2>2. \A i \in 1 .. Len(shown') : shown'[i] = mail'[i]
    <3> TAKE i \in 1 .. Len(shown')
    <3>1. i \in 1 .. n \/ i = n + 1
      BY <1>3, <1>5
    <3> QED
      BY <1>1, <1>5, <2>1, <3>1
  <2>3. PICK k : k = n + 1
    OBVIOUS
  <2>4. EndOf(k)' = EndOf(k)
    BY <1>1, WireKept
  <2>5. parsed' = EndOf(k)' /\ k = Len(shown')
    BY <1>1, <1>2, <1>5, <2>3, <2>4
  <2>6. parsed' = EndOf(Len(shown))'
    BY <2>5
  <2> QED
    BY <1>1, <1>2, <1>3, <1>5, <2>2, <2>6 DEF ReadInv
<1> QED
  BY <1>1, <1>2, <1>3, <1>5, <1>6, <1>7, <1>8

\* Bytes that arrive are on the wire.
LEMMA ReadyReadStep ==
  ASSUME StreamInv, ReadyRead
  PROVE  WriterType' /\ ReaderType' /\ WriteInv' /\ WireInv' /\ ReadInv'
<1>1. /\ arrived' \in (arrived + 1) .. Len(wire)
      /\ UNCHANGED <<mail, ran, queue, writes, wire, begin, parsed, exp_len, shown>>
  BY DEF ReadyRead, writer
<1>2. /\ arrived \in Nat /\ Len(wire) \in Nat /\ parsed \in 0 .. arrived
  BY Types
<1>3. arrived' \in 0 .. Len(wire) /\ parsed \in 0 .. arrived'
  BY <1>1, <1>2
<1>4. ReaderType'
  BY <1>1, <1>3 DEF ReaderType, StreamInv, TypeOK
<1>5. EndOf(Len(begin))' = EndOf(Len(begin)) /\ FrameLen(Len(begin))' = FrameLen(Len(begin))
  BY <1>1, WireKept
<1>6. OneWrite'
  BY <1>1 DEF OneWrite, StreamInv, WriteInv
<1>7. WriteInv'
  BY <1>1, <1>5, <1>6 DEF StreamInv, WriteInv
<1>8. WireInv' /\ EndOf(Len(shown))' = EndOf(Len(shown))
  BY <1>1, WireKept
<1>9. ReadInv'
  BY <1>1, <1>8 DEF StreamInv, ReadInv
<1>10. WriterType'
  BY <1>1 DEF WriterType, StreamInv, TypeOK
<1> QED
  BY <1>4, <1>7, <1>8, <1>9, <1>10

-----------------------------------------------------------------------------
(* The theorems                                                            *)

\* The connection's variables keep their types.
LEMMA ConnectionStep ==
  ASSUME ConnectionType, [Next]_vars
  PROVE  ConnectionType'
BY DEF ConnectionType, vars, session, writer, reader, toward, Next, Accept, OnConnection,
       SendMessage, Break, OnDisconnection, Read, ReadFails, AsyncSend, Posted, WriteSome,
       WriteDone, WriteFails, ReadyRead, TakeHeader, TakeContent, LeaveLoop

\* The variables of the texts keep their types.
LEMMA TextStep ==
  ASSUME TextType, [Next]_vars
  PROVE  TextType'
<1>1. CASE WriteText
  BY <1>1, WriteTextType
<1>2. CASE Read
  BY <1>2, ReadType
<1>3. CASE UNCHANGED toward
  BY <1>3 DEF TextType, toward
<1> QED
  BY <1>1, <1>2, <1>3
  DEF vars, Next, Accept, OnConnection, SendMessage, Break, OnDisconnection, ReadFails,
      AsyncSend, Posted, WriteSome, WriteDone, WriteFails, ReadyRead, TakeHeader, TakeContent,
      LeaveLoop

\* The invariant holds initially.
LEMMA InvInit == Init => StreamInv
<1> SUFFICES ASSUME Init PROVE StreamInv
  OBVIOUS
<1>1. TypeOK
  <2>0. \A S : <<>> \in Seq(S) /\ Len(<<>>) = 0
    OBVIOUS
  <2>1. ConnectionType
    BY DEF Init, ConnectionType
  <2>2. WriterType
    BY <2>0, StreamAssumption DEF Init, WriterType
  <2>3. ReaderType
    BY <2>0 DEF Init, ReaderType
  <2>4. TextType
    BY <2>0, StreamAssumption DEF Init, TextType
  <2> QED
    BY <2>1, <2>2, <2>3, <2>4 DEF TypeOK
<1>2. WriteInv /\ WireInv /\ ReadInv
  BY DEF Init, WriteInv, OneWrite, WireInv, ReadInv, EndOf
<1> QED
  BY <1>1, <1>2 DEF StreamInv

\* Every step preserves the invariant.
LEMMA InvNext == StreamInv /\ [Next]_vars => StreamInv'
<1> SUFFICES ASSUME StreamInv, [Next]_vars PROVE StreamInv'
  OBVIOUS
<1>1. ConnectionType' /\ TextType'
  BY ConnectionStep, TextStep DEF StreamInv, TypeOK
<1>2. WriterType' /\ ReaderType' /\ WriteInv' /\ WireInv' /\ ReadInv'
  <2>1. CASE UNCHANGED streamVars
    BY <2>1, QuietStep
  <2>2. CASE \E m \in Msgs : AsyncSend(m)
    BY <2>2, AsyncSendStep
  <2>3. CASE Posted
    BY <2>3, PostedStep
  <2>4. CASE WriteSome
    BY <2>4, WriteSomeStep
  <2>5. CASE WriteDone
    BY <2>5, WriteDoneStep
  <2>6. CASE WriteFails
    BY <2>6, WriteFailsStep
  <2>7. CASE ReadyRead
    BY <2>7, ReadyReadStep
  <2>8. CASE TakeHeader
    BY <2>8, TakeHeaderStep
  <2>9. CASE TakeContent
    BY <2>9, TakeContentStep
  <2>10. CASE Accept \/ OnConnection \/ SendMessage \/ Break \/ OnDisconnection \/ Read
              \/ ReadFails \/ LeaveLoop \/ UNCHANGED vars
    <3>1. UNCHANGED streamVars
      BY <2>10 DEF streamVars, vars, writer, reader, Accept, OnConnection, SendMessage, Break,
                   OnDisconnection, Read, ReadFails, LeaveLoop
    <3> QED
      BY <2>1, <3>1
  <2> QED
    BY <2>2, <2>3, <2>4, <2>5, <2>6, <2>7, <2>8, <2>9, <2>10 DEF Next
<1> QED
  BY <1>1, <1>2 DEF StreamInv, TypeOK

\* The invariant: frames stand on the wire one after the other, in the order of the posts,
\* and the client stands at the end of one of them or after a header.
THEOREM StreamInvariant == Spec => []StreamInv
BY InvInit, InvNext, PTL DEF Spec

\* ClientStream is type correct.
THEOREM StreamTypes == Spec => []TypeOK
<1>1. StreamInv => TypeOK
  BY DEF StreamInv
<1> QED
  BY <1>1, StreamInvariant, PTL

\* At most one async_write is under way, and it writes the frame at the front of write_bufs_.
THEOREM OneWriteAtATime == Spec => []OneWrite
<1>1. StreamInv => OneWrite
  BY DEF StreamInv, WriteInv
<1> QED
  BY <1>1, StreamInvariant, PTL

\* ClientStream implements FifoChannel: the client handles the messages given to async_send
\* in their order, each once and whole, for any contents and any cuts of the stream.
THEOREM HandledInOrder == Spec => InOrderAndWhole
<1>1. Init => Channel!Init
  BY DEF Init, Channel!Init
<1>2. StreamInv /\ [Next]_vars => [Channel!Send \/ Channel!Deliver]_<<mail, shown>>
  <2> SUFFICES ASSUME StreamInv, [Next]_vars
               PROVE  [Channel!Send \/ Channel!Deliver]_<<mail, shown>>
    OBVIOUS
  <2>1. CASE \E m \in Msgs : AsyncSend(m)
    BY <2>1 DEF AsyncSend, reader, Channel!Send
  <2>2. CASE TakeContent
    <3>1. UNCHANGED mail
      BY <2>2 DEF TakeContent, writer
    <3> QED
      BY <2>2, <3>1, TakeContentStep DEF Channel!Deliver
  <2>3. CASE UNCHANGED <<mail, shown>>
    BY <2>3
  <2> QED
    BY <2>1, <2>2, <2>3
    DEF vars, writer, reader, Next, Accept, OnConnection, SendMessage, Break, OnDisconnection,
        Read, ReadFails, Posted, WriteSome, WriteDone, WriteFails, ReadyRead, TakeHeader,
        LeaveLoop
<1> QED
  BY <1>1, <1>2, StreamInvariant, PTL DEF Spec, InOrderAndWhole, Channel!Spec
=============================================================================
