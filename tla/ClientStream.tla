----------------------------- MODULE ClientStream -----------------------------
(***************************************************************************)
(* One TCP connection between a client and its ChatServer.                 *)
(*                                                                         *)
(* Towards the client, ClientSession puts four bytes of length in front of *)
(* every message, keeps the messages that wait in write_bufs_ and writes   *)
(* one at a time; TcpClient and ChatDialog::onRecvMessage find the         *)
(* messages again in whatever pieces the bytes arrive.  Towards the server *)
(* there are no frames: what one read returns is one message.              *)
(*                                                                         *)
(* Here bytes are the unit.  A byte is <<k, i>>: the i-th of the k-th      *)
(* frame, or of the k-th text.                                             *)
(***************************************************************************)
EXTENDS Naturals, Sequences, SequencesExt

CONSTANTS
  Msgs,      (* contents of messages to the client                          *)
  Size,      (* the bytes of a content                                      *)
  Garbage,   (* the lengths that four bytes which are no header can read as *)
  TextLen,   (* the bytes of a text from the client                         *)
  MaxRead,   (* the most one read returns, sizeof(read_buf_) - 1            *)
  MaxMail,   (* bound: messages to the client                               *)
  MaxTexts,  (* bound: texts from the client, its name included             *)
  None       (* a content that is no message                                *)

ASSUME StreamAssumption ==
  /\ Size \in [Msgs -> Nat \ {0}] /\ None \notin Msgs
  /\ Garbage \subseteq Nat \ {0}
  /\ TextLen \in Nat \ {0} /\ MaxRead \in Nat \ {0}
  /\ MaxMail \in Nat /\ MaxTexts \in Nat

VARIABLES
  phase,     (* the client's socket                                         *)
  link,      (* the network carries bytes and both ends are there           *)
  listed,    (* the session is in TcpChatServer::sessions                   *)
  reading,   (* do_read has a read under way                                *)
  closed,    (* the server has closed the socket                            *)
  mail,      (* the messages given to async_send, in the order of its posts *)
  ran,       (* how many of the posted functions have run                   *)
  queue,     (* write_bufs_: the numbers of the frames in it                *)
  writes,    (* the async_writes under way: the frame, the bytes written    *)
  wire,      (* bytes written towards the client so far                     *)
  begin,     (* the length of wire when the writing of a frame began        *)
  arrived,   (* how many of them readAll has returned                       *)
  parsed,    (* how many have been removed from buffer_                     *)
  exp_len,   (* the length expected, 0 when a header is next                *)
  parsing,   (* onRecvMessage is running                                    *)
  shown,     (* the messages it has handled                                 *)
  texts,     (* texts the client has written                                *)
  upstream,  (* their bytes                                                 *)
  taken,     (* how many of the bytes the server has read                   *)
  heard      (* what handle_read_msg was called with                        *)

session == <<listed, reading, closed>>
writer  == <<mail, ran, queue, writes, wire, begin>>
reader  == <<arrived, parsed, exp_len, parsing, shown>>
toward  == <<texts, upstream, taken, heard>>
vars == <<phase, link, session, writer, reader, toward>>

Header == 4
FrameLen(k) == Header + Size[mail[k]]

ConnectionType ==
  /\ phase \in {"connecting", "connected", "disconnected"} /\ parsing \in BOOLEAN
  /\ link \in BOOLEAN /\ listed \in BOOLEAN /\ reading \in BOOLEAN /\ closed \in BOOLEAN

WriterType ==
  /\ mail \in Seq(Msgs) /\ Len(mail) <= MaxMail /\ ran \in 0 .. Len(mail)
  /\ queue \in Seq(1 .. Len(mail))
  /\ writes \in Seq([frame : 1 .. Len(mail), done : Nat])
  /\ wire \in Seq((1 .. Len(mail)) \X (Nat \ {0})) /\ begin \in Seq(Nat)

ReaderType ==
  /\ arrived \in 0 .. Len(wire) /\ parsed \in 0 .. arrived /\ exp_len \in Nat
  /\ shown \in Seq(Msgs \cup {None})

TextType ==
  /\ texts \in 0 .. MaxTexts
  /\ upstream \in Seq((1 .. texts) \X (1 .. TextLen))
  /\ taken \in 0 .. Len(upstream)
  /\ heard \in Seq(Seq((1 .. texts) \X (1 .. TextLen)))

TypeOK == ConnectionType /\ WriterType /\ ReaderType /\ TextType

Init ==
  /\ phase = "connecting" /\ link = TRUE
  /\ listed = FALSE /\ reading = FALSE /\ closed = FALSE
  /\ mail = <<>> /\ ran = 0 /\ queue = <<>> /\ writes = <<>> /\ wire = <<>> /\ begin = <<>>
  /\ arrived = 0 /\ parsed = 0 /\ exp_len = 0 /\ parsing = FALSE /\ shown = <<>>
  /\ texts = 0 /\ upstream = <<>> /\ taken = 0 /\ heard = <<>>

-----------------------------------------------------------------------------
(* The connection                                                          *)

\* async_accept, add_session and start.
Accept ==
  /\ ~reading /\ ~closed
  /\ listed' = TRUE /\ reading' = TRUE
  /\ UNCHANGED <<phase, link, closed, writer, reader, toward>>

\* A text goes to the socket without a length or a separator.
WriteText ==
  /\ texts < MaxTexts
  /\ texts' = texts + 1
  /\ upstream' = upstream \o [i \in 1 .. TextLen |-> <<texts + 1, i>>]
  /\ UNCHANGED <<taken, heard>>

\* onConnection: the first text is the user's name.
OnConnection ==
  /\ phase = "connecting" /\ link
  /\ phase' = "connected"
  /\ WriteText
  /\ UNCHANGED <<link, session, writer, reader>>

\* sendMessage; it writes nothing when the socket is not connected.
SendMessage ==
  /\ phase = "connected" /\ WriteText
  /\ UNCHANGED <<phase, link, session, writer, reader>>

\* The network fails, or the client ends.
Break ==
  /\ link /\ link' = FALSE
  /\ UNCHANGED <<phase, session, writer, reader, toward>>

OnDisconnection ==
  /\ ~link /\ phase = "connected" /\ ~parsing
  /\ phase' = "disconnected"
  /\ UNCHANGED <<link, session, writer, reader, toward>>

-----------------------------------------------------------------------------
(* The session reads                                                       *)

\* MUTANT of Read: sizeof(read_buf_) - 1 where bytes_read is meant.
ReadWholeBuffer ==
  /\ reading
  /\ \E n \in 1 .. MaxRead :
       /\ taken + n <= Len(upstream)
       /\ taken' = taken + MaxRead
       /\ heard' = Append(heard, SubSeq(upstream, taken + 1, taken + n))
  /\ UNCHANGED <<phase, link, session, writer, reader, texts, upstream>>

\* do_read: some of the bytes that are there, at most MaxRead, are one message.
Read ==
  /\ reading
  /\ \E n \in 1 .. MaxRead :
       /\ taken + n <= Len(upstream)
       /\ taken' = taken + n
       /\ heard' = Append(heard, SubSeq(upstream, taken + 1, taken + n))
  /\ UNCHANGED <<phase, link, session, writer, reader, texts, upstream>>

\* do_read with an error: close and remove_client, and no further read.
ReadFails ==
  /\ reading /\ ~link
  /\ reading' = FALSE /\ closed' = TRUE /\ listed' = FALSE
  /\ UNCHANGED <<phase, link, writer, reader, toward>>

-----------------------------------------------------------------------------
(* The session writes                                                      *)

\* async_send, by the io thread or by a gRPC thread: the session is reached through
\* sessions, or answers its own client.
AsyncSend(m) ==
  /\ listed \/ reading
  /\ Len(mail) < MaxMail
  /\ mail' = Append(mail, m)
  /\ UNCHANGED <<phase, link, session, ran, queue, writes, wire, begin, reader, toward>>

\* do_write: an async_write of the frame at the front of q.
DoWrite(q, w) ==
  /\ writes' = Append(w, [frame |-> Head(q), done |-> 0])
  /\ begin' = Append(begin, Len(wire))

NoWrite(w) == writes' = w /\ UNCHANGED begin

\* MUTANT of Posted: do_write whether or not a write is in progress.
PostedWrites ==
  /\ ran < Len(mail)
  /\ ran' = ran + 1
  /\ queue' = Append(queue, ran + 1)
  /\ DoWrite(queue', writes)
  /\ UNCHANGED <<phase, link, session, mail, wire, reader, toward>>

\* The function async_send has posted runs on the io thread.
Posted ==
  /\ ran < Len(mail)
  /\ ran' = ran + 1
  /\ queue' = Append(queue, ran + 1)
  /\ IF queue = <<>> THEN DoWrite(queue', writes) ELSE NoWrite(writes)
  /\ UNCHANGED <<phase, link, session, mail, wire, reader, toward>>

\* async_write hands the socket the next byte.
WriteSome ==
  /\ ~closed
  /\ \E i \in 1 .. Len(writes) :
       /\ writes[i].done < FrameLen(writes[i].frame)
       /\ wire' = Append(wire, <<writes[i].frame, writes[i].done + 1>>)
       /\ writes' = [writes EXCEPT ![i].done = @ + 1]
  /\ UNCHANGED <<phase, link, session, mail, ran, queue, begin, reader, toward>>

\* async_write has written everything.
WriteDone ==
  /\ \E i \in 1 .. Len(writes) :
       /\ writes[i].done = FrameLen(writes[i].frame)
       /\ queue # <<>>
       /\ queue' = Tail(queue)
       /\ IF queue' # <<>>
          THEN DoWrite(queue', RemoveAt(writes, i))
          ELSE NoWrite(RemoveAt(writes, i))
  /\ UNCHANGED <<phase, link, session, mail, ran, wire, reader, toward>>

\* async_write fails: remove_client, and the frame stays in write_bufs_.
WriteFails ==
  /\ ~link \/ closed
  /\ \E i \in 1 .. Len(writes) : NoWrite(RemoveAt(writes, i))
  /\ listed' = FALSE
  /\ UNCHANGED <<phase, link, reading, closed, mail, ran, queue, wire, reader, toward>>

-----------------------------------------------------------------------------
(* The client reads                                                        *)

\* readyRead: readAll returns the bytes that have come, and onRecvMessage appends them
\* to buffer_, which then is wire[parsed + 1 .. arrived].
ReadyRead ==
  /\ phase = "connected" /\ ~parsing
  /\ arrived' \in (arrived + 1) .. Len(wire)
  /\ parsing' = TRUE
  /\ UNCHANGED <<phase, link, session, writer, parsed, exp_len, shown, toward>>

\* The frame whose byte number p + 1 is.
FrameAt(p) == wire[p + 1][1]

\* The bytes after the first p are those of its frame from number i + 1 on, n of them.
Holds(p, i, n) == \A j \in 1 .. n : wire[p + j] = <<FrameAt(p), i + j>>

LengthsAt(p) == IF Holds(p, 0, Header) THEN {Size[mail[FrameAt(p)]]} ELSE Garbage

ContentAt(p, n) ==
  IF Holds(p, Header, n) /\ Size[mail[FrameAt(p)]] = n THEN mail[FrameAt(p)] ELSE None

\* MUTANT of TakeHeader: the four bytes stay in buffer_.
HeaderStays ==
  /\ parsing /\ exp_len = 0 /\ parsed + Header <= arrived
  /\ exp_len' \in LengthsAt(parsed)
  /\ UNCHANGED <<phase, link, session, writer, arrived, parsed, parsing, shown, toward>>

\* onRecvMessage, in its loop: a header.
TakeHeader ==
  /\ parsing /\ exp_len = 0 /\ parsed + Header <= arrived
  /\ exp_len' \in LengthsAt(parsed)
  /\ parsed' = parsed + Header
  /\ UNCHANGED <<phase, link, session, writer, arrived, parsing, shown, toward>>

\* In its loop: a content, handled as what its first characters say.
TakeContent ==
  /\ parsing /\ exp_len # 0 /\ parsed + exp_len <= arrived
  /\ shown' = Append(shown, ContentAt(parsed, exp_len))
  /\ parsed' = parsed + exp_len
  /\ exp_len' = 0
  /\ UNCHANGED <<phase, link, session, writer, arrived, parsing, toward>>

Wanted == IF exp_len = 0 THEN Header ELSE exp_len

\* MUTANT of LeaveLoop: break in place of continue after a message.
LeaveEarly ==
  /\ parsing
  /\ \/ parsed + Wanted > arrived
     \/ exp_len = 0 /\ shown # <<>> /\ parsed < arrived
  /\ parsing' = FALSE
  /\ UNCHANGED <<phase, link, session, writer, arrived, parsed, exp_len, shown, toward>>

\* The rest of buffer_ is too short: it is kept, with exp_len, for the next readyRead.
LeaveLoop ==
  /\ parsing /\ parsed + Wanted > arrived
  /\ parsing' = FALSE
  /\ UNCHANGED <<phase, link, session, writer, arrived, parsed, exp_len, shown, toward>>

-----------------------------------------------------------------------------
Next ==
  \/ Accept \/ OnConnection \/ SendMessage \/ Break \/ OnDisconnection
  \/ Read \/ ReadFails
  \/ \E m \in Msgs : AsyncSend(m)
  \/ Posted \/ WriteSome \/ WriteDone \/ WriteFails
  \/ ReadyRead \/ TakeHeader \/ TakeContent \/ LeaveLoop

Spec == Init /\ [][Next]_vars

\* The io thread runs what is posted and what completes, TCP moves bytes while the
\* connection lasts, and the client's event loop runs.
Fairness ==
  /\ WF_vars(OnConnection)
  /\ WF_vars(Posted) /\ WF_vars(WriteSome) /\ WF_vars(WriteDone)
  /\ WF_vars(link /\ ReadyRead)
  /\ WF_vars(TakeHeader) /\ WF_vars(TakeContent) /\ WF_vars(LeaveLoop)

FairSpec == Spec /\ Fairness

-----------------------------------------------------------------------------
(* Properties                                                              *)

\* Whatever the threads that send and however the bytes are cut up, the client handles
\* a prefix of the messages, in the order they were sent, each of them whole.
Channel == INSTANCE FifoChannel WITH sent <- mail, got <- shown
InOrderAndWhole == Channel!Spec

\* Asio forbids a second async_write on a stream before the first has ended, and do_write
\* passes the front of write_bufs_ without copying it: it is there until then.
OneWrite ==
  /\ Len(writes) <= 1
  /\ \A i \in 1 .. Len(writes) : queue # <<>> /\ writes[i].frame = Head(queue)

\* A message given to async_send is handled, unless the connection breaks: none is stuck
\* in write_bufs_ or in the client's buffer_ until another one comes.
Delivered ==
  \A k \in 1 .. MaxMail : (Len(mail) >= k) ~> (Len(shown) >= k \/ ~link)

\* The protocol's frames, both ways: what handle_read_msg is given is one text.
TextsFramed ==
  \A i \in 1 .. Len(heard) :
    \E k \in 1 .. texts : heard[i] = [j \in 1 .. TextLen |-> <<k, j>>]
=============================================================================
