----------------------------- MODULE TcpSession -----------------------------
(***************************************************************************)
(* One direction of the record stream of internal/transport/tcp.go: the    *)
(* goroutines that call Send, serialised by writeMu; the byte stream of    *)
(* the connection; the readLoop of the peer with its sequence check and    *)
(* recvCh.                                                                 *)
(*                                                                         *)
(* A record is written in two calls, so the stream is a queue of parts: a  *)
(* header, a body, or what a failed write left behind (torn).  A payload   *)
(* is abstracted to the goroutine that sent it.                            *)
(***************************************************************************)
EXTENDS Integers, Sequences, FiniteSets

CONSTANTS Senders,     \* goroutines calling Send
          NoSender,    \* the value of writeMu when it is free
          MaxSeq,      \* bound of the model: records sent in a behaviour
          StreamCap,   \* parts the socket buffers hold
          RecvCap      \* capacity of recvCh

ASSUME TcpAssumption ==
  /\ NoSender \notin Senders
  /\ MaxSeq \in Nat /\ StreamCap \in Nat \ {0} /\ RecvCap \in Nat \ {0}

VARIABLES
  pc,         \* where each sender is in Send
  writeMu,    \* the holder of writeMu, or NoSender
  sendSeq,
  stream,     \* parts written and not yet read
  reader,     \* where readLoop is
  recvSeq,    \* the sequence number readLoop wants next
  hand,       \* payload readLoop is about to put into recvCh
  queued,     \* number of payloads in recvCh
  closed,     \* the endpoints whose session is closed
  sent,       \* history: payload of record i at position i
  published   \* history: payloads put into recvCh, in order

vars == <<pc, writeMu, sendSeq, stream, reader, recvSeq, hand, queued, closed,
          sent, published>>
readerVars == <<reader, recvSeq, hand, published>>

Endpoints == {"snd", "rcv"}
Header(s) == [part |-> "header", seq |-> s, payload |-> NoSender]
Body(s, w) == [part |-> "body", seq |-> s, payload |-> w]
Torn == [part |-> "torn", seq |-> 0, payload |-> NoSender]

Init ==
  /\ pc = [w \in Senders |-> "idle"]
  /\ writeMu = NoSender
  /\ sendSeq = 0
  /\ stream = <<>>
  /\ reader = "header"
  /\ recvSeq = 1
  /\ hand = NoSender
  /\ queued = 0
  /\ closed = {}
  /\ sent = <<>>
  /\ published = <<>>

\* finish closes the connection, once.
Finish(e) == closed' = closed \cup {e}

Close(e) ==
  /\ e \notin closed
  /\ Finish(e)
  /\ UNCHANGED <<pc, writeMu, sendSeq, stream, readerVars, queued, sent>>

-----------------------------------------------------------------------------
(* Send.  The size check returns before any state changes.                 *)

\* (The bound MaxSeq counts the callers that have no number yet.)
SendBegin(w) ==
  /\ pc[w] = "idle"
  /\ sendSeq + Cardinality({v \in Senders : pc[v] \in {"lock", "seq"}}) < MaxSeq
  /\ pc' = [pc EXCEPT ![w] = "lock"]
  /\ UNCHANGED <<writeMu, sendSeq, stream, readerVars, queued, closed, sent>>

\* Mutant: Send does not take the mutex.
LockNothing(w) ==
  /\ pc[w] = "lock"
  /\ pc' = [pc EXCEPT ![w] = "seq"]
  /\ UNCHANGED <<writeMu, sendSeq, stream, readerVars, queued, closed, sent>>

Lock(w) ==
  /\ pc[w] = "lock" /\ writeMu = NoSender
  /\ writeMu' = w
  /\ pc' = [pc EXCEPT ![w] = "seq"]
  /\ UNCHANGED <<sendSeq, stream, readerVars, queued, closed, sent>>

\* SetWriteDeadline fails exactly when the connection was closed here.
DeadlineFails(w) ==
  /\ pc[w] = "seq" /\ "snd" \in closed
  /\ writeMu' = NoSender
  /\ pc' = [pc EXCEPT ![w] = "idle"]
  /\ UNCHANGED <<sendSeq, stream, readerVars, queued, closed, sent>>

\* sendSeq++ and Seal.
AllocateSeq(w) ==
  /\ pc[w] = "seq" /\ "snd" \notin closed /\ sendSeq < MaxSeq
  /\ sendSeq' = sendSeq + 1
  /\ sent' = Append(sent, w)
  /\ pc' = [pc EXCEPT ![w] = "header"]
  /\ UNCHANGED <<writeMu, stream, readerVars, queued, closed>>

\* A write succeeds while the connection is open here and the socket buffer
\* has room.
Write(part) ==
  /\ "snd" \notin closed /\ Len(stream) < StreamCap
  /\ stream' = Append(stream, part)

WriteHeader(w) ==
  /\ pc[w] = "header"
  /\ Write(Header(sendSeq))
  /\ pc' = [pc EXCEPT ![w] = "body"]
  /\ UNCHANGED <<writeMu, sendSeq, readerVars, queued, closed, sent>>

\* Mutant: the mutex is not released on the way out.
WriteBodyKeepsLock(w) ==
  /\ pc[w] = "body"
  /\ Write(Body(sendSeq, w))
  /\ pc' = [pc EXCEPT ![w] = "idle"]
  /\ UNCHANGED <<writeMu, sendSeq, readerVars, queued, closed, sent>>

WriteBody(w) ==
  /\ pc[w] = "body"
  /\ Write(Body(sendSeq, w))
  /\ writeMu' = NoSender
  /\ pc' = [pc EXCEPT ![w] = "idle"]
  /\ UNCHANGED <<sendSeq, readerVars, queued, closed, sent>>

\* A write fails (reset, 15 second deadline, closed meanwhile), possibly
\* after some of its bytes went out; the session is finished.
WriteFails(w) ==
  /\ pc[w] \in {"header", "body"}
  /\ \/ UNCHANGED stream
     \/ "snd" \notin closed /\ Len(stream) < StreamCap /\ stream' = Append(stream, Torn)
  /\ Finish("snd")
  /\ writeMu' = NoSender
  /\ pc' = [pc EXCEPT ![w] = "idle"]
  /\ UNCHANGED <<sendSeq, readerVars, queued, sent>>

\* The steps of a Send that holds the mutex.
SendStep(w) ==
  DeadlineFails(w) \/ AllocateSeq(w) \/ WriteHeader(w) \/ WriteBody(w) \/ WriteFails(w)

-----------------------------------------------------------------------------
(* readLoop.                                                               *)

\* Bytes that complete a read: a torn part completes one only together with
\* bytes written after it.
Readable == stream # <<>> /\ (Head(stream) = Torn => Len(stream) > 1)

ReadHeader ==
  /\ reader = "header" /\ "rcv" \notin closed
  /\ stream # <<>> /\ Head(stream) = Header(recvSeq)
  /\ stream' = Tail(stream)
  /\ reader' = "body"
  /\ UNCHANGED <<pc, writeMu, sendSeq, recvSeq, hand, queued, closed, sent, published>>

ReadBody ==
  /\ reader = "body" /\ "rcv" \notin closed
  /\ stream # <<>> /\ Head(stream).part = "body" /\ Head(stream).seq = recvSeq
  /\ stream' = Tail(stream)
  /\ hand' = Head(stream).payload
  /\ recvSeq' = recvSeq + 1
  /\ reader' = "publish"
  /\ UNCHANGED <<pc, writeMu, sendSeq, queued, closed, sent, published>>

\* What readLoop would reject: a header of another sequence number, a frame
\* that does not authenticate, bytes that are not at a record boundary.
Unacceptable ==
  /\ Readable
  /\ IF reader = "header"
       THEN Head(stream) # Header(recvSeq)
       ELSE Head(stream).part # "body" \/ Head(stream).seq # recvSeq

\* Reading fails: closed here or by the peer, reset, the 45 second idle
\* deadline, or one of the checks.  readLoop finishes and returns.
ReadFails ==
  /\ reader \in {"header", "body"}
  /\ Finish("rcv")
  /\ reader' = "exit"
  /\ UNCHANGED <<pc, writeMu, sendSeq, stream, recvSeq, hand, queued, sent, published>>

\* Mutant: a published payload is published again.
PublishRepeats ==
  /\ reader = "publish" /\ queued < RecvCap
  /\ queued' = queued + 1
  /\ published' = Append(published, hand)
  /\ UNCHANGED <<pc, writeMu, sendSeq, stream, reader, recvSeq, hand, closed, sent>>

Publish ==
  /\ reader = "publish" /\ queued < RecvCap
  /\ queued' = queued + 1
  /\ published' = Append(published, hand)
  /\ hand' = NoSender
  /\ reader' = "header"
  /\ UNCHANGED <<pc, writeMu, sendSeq, stream, recvSeq, closed, sent>>

PublishAborts ==
  /\ reader = "publish" /\ "rcv" \in closed
  /\ hand' = NoSender
  /\ reader' = "exit"
  /\ UNCHANGED <<pc, writeMu, sendSeq, stream, recvSeq, queued, closed, sent, published>>

Receive ==
  /\ queued > 0
  /\ queued' = queued - 1
  /\ UNCHANGED <<pc, writeMu, sendSeq, stream, readerVars, closed, sent>>

ReadLoop == ReadHeader \/ ReadBody \/ ReadFails \/ Publish \/ PublishAborts

-----------------------------------------------------------------------------
Next ==
  \/ \E e \in Endpoints : Close(e)
  \/ \E w \in Senders : SendBegin(w) \/ Lock(w) \/ SendStep(w)
  \/ ReadLoop
  \/ Receive

Spec == Init /\ [][Next]_vars

\* A Send that holds writeMu runs (its writes end by the deadline), and
\* sync.Mutex does not starve a waiter.
Fairness == \A w \in Senders : WF_vars(SendStep(w)) /\ SF_vars(Lock(w))

FairSpec == Spec /\ Fairness

-----------------------------------------------------------------------------
(* Properties.                                                             *)

\* "Records must arrive in exact sequence order.  Concurrent application
\* writers are serialized": whatever fails and whoever writes, readLoop never
\* has bytes to read that it would reject, so the sequence and framing checks
\* only ever catch a broken peer.
NeverMisframed == reader \in {"header", "body"} => ~Unacceptable

\* The record stream is an ordered channel: what reaches recvCh is, without
\* gap or duplicate, what was sealed.
Channel == INSTANCE OrderedChannel WITH Message <- Senders, rcvd <- published
ImplementsChannel == Channel!Spec

\* Send returns: the write deadline and the mutex keep no caller for ever,
\* even when the peer stops reading.
SendReturns == \A w \in Senders : pc[w] # "idle" ~> pc[w] = "idle"
=============================================================================
