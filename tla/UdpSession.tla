----------------------------- MODULE UdpSession -----------------------------
(***************************************************************************)
(* One direction of the reliable, ordered datagram session of              *)
(* internal/transport/udp.go: the goroutines that call Send, the pending   *)
(* table, the slot semaphore and the retransmitLoop of the sending         *)
(* endpoint; the packetCh, the packetLoop with its ACK, reorder map and    *)
(* recvCh of the receiving endpoint; and a network that loses, duplicates  *)
(* and reorders.  The other direction is the same code with the roles      *)
(* exchanged; the two share only `closed`, which Close(e) may set at any   *)
(* moment here.                                                            *)
(*                                                                         *)
(* A payload is abstracted to the goroutine that sent it.  A packet that   *)
(* fails its AEAD or MAC check is ignored by handlePacket, so the network  *)
(* only ever yields packets that were written to it.                       *)
(***************************************************************************)
EXTENDS Integers, Sequences, FiniteSets

CONSTANTS Senders,      \* goroutines calling Send on the session
          MaxSeq,       \* bound of the model: messages sent in a behaviour
          MaxPending,   \* maxUDPPending, the capacity of slots
          MaxReorder,   \* maxUDPReorder
          MaxRetries,   \* udpMaxRetries
          PacketCap,    \* capacity of packetCh
          RecvCap       \* capacity of recvCh

ASSUME BoundsAssumption ==
  /\ MaxSeq \in Nat /\ MaxPending \in Nat \ {0} /\ MaxReorder \in Nat
  /\ MaxRetries \in Nat /\ PacketCap \in Nat \ {0} /\ RecvCap \in Nat \ {0}

VARIABLES
  \* sending endpoint
  sendSeq,    \* the atomic counter sendSeq
  pc,         \* where each sender is in Send
  seq,        \* the sequence number each sender holds (0: none)
  slots,      \* tokens in the slots channel
  pending,    \* packets awaiting an ACK
  retries,    \* pendingDatagram.retries, by sequence number
  ackLoop,    \* where the packetLoop that handles the ACKs is
  \* receiving endpoint
  packetCh,   \* packets queued for packetLoop
  loop,       \* where packetLoop is
  hand,       \* the packet packetLoop works on
  expected,   \* next sequence number to publish
  reorder,    \* the reorder map, as the set of packets it holds
  queued,     \* number of published payloads still in recvCh
  \* both endpoints and the network
  closed,     \* the endpoints whose session is closed
  data,       \* every DATA packet ever written to the network
  acks,       \* every ACK ever written to the network
  \* history
  sent,       \* payload of sequence number i at position i
  published   \* payloads put into recvCh, in order

senderVars   == <<sendSeq, pc, seq, slots, pending, retries, ackLoop, sent>>
receiverVars == <<loop, hand, expected, reorder, published>>
vars == <<senderVars, receiverVars, packetCh, queued, closed, data, acks>>

Endpoints == {"snd", "rcv"}
Seqs == 1 .. MaxSeq
Packets == [seq : Seqs, payload : Senders]
NoPacket == [seq |-> 0, payload |-> "none"]

Packet(w) == [seq |-> seq[w], payload |-> w]
PendingSeqs == {p.seq : p \in pending}
ReorderSeqs == {p.seq : p \in reorder}

Init ==
  /\ sendSeq = 0
  /\ pc = [w \in Senders |-> "idle"]
  /\ seq = [w \in Senders |-> 0]
  /\ slots = 0
  /\ pending = {}
  /\ retries = [s \in Seqs |-> 0]
  /\ ackLoop = "select"
  /\ packetCh = <<>>
  /\ loop = "select"
  /\ hand = NoPacket
  /\ expected = 1
  /\ reorder = {}
  /\ queued = 0
  /\ closed = {}
  /\ data = {}
  /\ acks = {}
  /\ sent = <<>>
  /\ published = <<>>

\* finish: closeOnce makes every call after the first a no-op.
Finish(e) == closed' = closed \cup {e}

\* Close, called by the manager (or by the other direction's failures).
Close(e) ==
  /\ e \notin closed
  /\ Finish(e)
  /\ UNCHANGED <<senderVars, receiverVars, packetCh, queued, data, acks>>

-----------------------------------------------------------------------------
(* Send, one goroutine.  The size check returns before any state changes.  *)

\* The closed check, then the wait in the select.
SendBegin(w) ==
  /\ pc[w] = "idle" /\ "snd" \notin closed
  /\ pc' = [pc EXCEPT ![w] = "slot"]
  /\ UNCHANGED <<sendSeq, seq, slots, pending, retries, ackLoop, sent>>
  /\ UNCHANGED <<receiverVars, packetCh, queued, closed, data, acks>>

\* doneCh or the five second timer wins the select.  The timer only fires
\* while slots has stayed full.
SendGivesUp(w) ==
  /\ pc[w] = "slot"
  /\ "snd" \in closed \/ slots = MaxPending
  /\ pc' = [pc EXCEPT ![w] = "idle"]
  /\ UNCHANGED <<sendSeq, seq, slots, pending, retries, ackLoop, sent>>
  /\ UNCHANGED <<receiverVars, packetCh, queued, closed, data, acks>>

\* Mutant: a Load and a Store in place of Add.
AllocateSeqRacy(w) ==
  /\ pc[w] = "slot" /\ slots < MaxPending /\ sendSeq < MaxSeq
  /\ slots' = slots + 1
  /\ sendSeq' \in {sendSeq, sendSeq + 1} \cap Seqs
  /\ seq' = [seq EXCEPT ![w] = sendSeq']
  /\ sent' = Append(sent, w)
  /\ pc' = [pc EXCEPT ![w] = "insert"]
  /\ UNCHANGED <<pending, retries, ackLoop>>
  /\ UNCHANGED <<receiverVars, packetCh, queued, closed, data, acks>>

\* A slot is taken and sendSeq.Add(1) returns the sequence number.
AllocateSeq(w) ==
  /\ pc[w] = "slot" /\ slots < MaxPending /\ sendSeq < MaxSeq
  /\ slots' = slots + 1
  /\ sendSeq' = sendSeq + 1
  /\ seq' = [seq EXCEPT ![w] = sendSeq']
  /\ sent' = Append(sent, w)
  /\ pc' = [pc EXCEPT ![w] = "insert"]
  /\ UNCHANGED <<pending, retries, ackLoop>>
  /\ UNCHANGED <<receiverVars, packetCh, queued, closed, data, acks>>

\* The sealed packet enters the pending table, before it is written.
InsertPending(w) ==
  /\ pc[w] = "insert"
  /\ pending' = pending \cup {Packet(w)}
  /\ pc' = [pc EXCEPT ![w] = "write"]
  /\ UNCHANGED <<sendSeq, seq, slots, retries, ackLoop, sent>>
  /\ UNCHANGED <<receiverVars, packetCh, queued, closed, data, acks>>

\* writeFn returns nil: the packet is on the network and Send returns.
WriteOK(w) ==
  /\ pc[w] = "write"
  /\ data' = data \cup {Packet(w)}
  /\ pc' = [pc EXCEPT ![w] = "idle"]
  /\ seq' = [seq EXCEPT ![w] = 0]
  /\ UNCHANGED <<sendSeq, slots, pending, retries, ackLoop, sent>>
  /\ UNCHANGED <<receiverVars, packetCh, queued, closed, acks>>

\* writeFn fails: the entry is deleted, whether or not it is still there.
WriteFails(w) ==
  /\ pc[w] = "write"
  /\ pending' = pending \ {Packet(w)}
  /\ retries' = [retries EXCEPT ![seq[w]] = 0]
  /\ pc' = [pc EXCEPT ![w] = "release"]
  /\ UNCHANGED <<sendSeq, seq, slots, ackLoop, sent>>
  /\ UNCHANGED <<receiverVars, packetCh, queued, closed, data, acks>>

\* <-s.slots on the error path blocks while slots is empty.
ReleaseAfterError(w) ==
  /\ pc[w] = "release" /\ slots > 0
  /\ slots' = slots - 1
  /\ pc' = [pc EXCEPT ![w] = "finish"]
  /\ UNCHANGED <<sendSeq, seq, pending, retries, ackLoop, sent>>
  /\ UNCHANGED <<receiverVars, packetCh, queued, closed, data, acks>>

FinishAfterError(w) ==
  /\ pc[w] = "finish"
  /\ Finish("snd")
  /\ pc' = [pc EXCEPT ![w] = "idle"]
  /\ seq' = [seq EXCEPT ![w] = 0]
  /\ UNCHANGED <<sendSeq, slots, pending, retries, ackLoop, sent>>
  /\ UNCHANGED <<receiverVars, packetCh, queued, data, acks>>

\* The steps a sender takes without waiting for anyone.
SendStep(w) ==
  InsertPending(w) \/ WriteOK(w) \/ WriteFails(w) \/ ReleaseAfterError(w)
    \/ FinishAfterError(w)

-----------------------------------------------------------------------------
(* ACK handling at the sending endpoint, and the retransmission loop.      *)

\* handlePacket, kind ACK: a known sequence number leaves the table, and its
\* slot is released after the unlock.
HandleAck(s) ==
  /\ s \in acks /\ s \in PendingSeqs /\ ackLoop = "select"
  /\ pending' = {p \in pending : p.seq # s}
  /\ retries' = [retries EXCEPT ![s] = 0]
  /\ ackLoop' = "release"
  /\ UNCHANGED <<sendSeq, pc, seq, slots, sent>>
  /\ UNCHANGED <<receiverVars, packetCh, queued, closed, data, acks>>

ReleaseAfterAck ==
  /\ ackLoop = "release" /\ slots > 0
  /\ slots' = slots - 1
  /\ ackLoop' = "select"
  /\ UNCHANGED <<sendSeq, pc, seq, pending, retries, sent>>
  /\ UNCHANGED <<receiverVars, packetCh, queued, closed, data, acks>>

\* One stale entry of a tick of retransmitLoop: it is resent until its
\* retries are used up.  Only this loop reads retries, so the bookkeeping
\* under pendingMu and the write after the unlock are one step.
Resend(p) ==
  /\ "snd" \notin closed /\ p \in pending
  /\ retries[p.seq] < MaxRetries
  /\ retries' = [retries EXCEPT ![p.seq] = @ + 1]
  /\ \/ data' = data \cup {p} /\ UNCHANGED closed
     \/ Finish("snd") /\ UNCHANGED data
  /\ UNCHANGED <<sendSeq, pc, seq, slots, pending, ackLoop, sent>>
  /\ UNCHANGED <<receiverVars, packetCh, queued, acks>>

\* Mutant: the comparison is off by one and never true.
PeerNeverGivesUp(p) ==
  /\ "snd" \notin closed /\ p \in pending
  /\ retries[p.seq] > MaxRetries
  /\ Finish("snd")
  /\ UNCHANGED <<senderVars, receiverVars, packetCh, queued, data, acks>>

\* Mutant: the entry is given up and the session stays open.
PeerForgotten(p) ==
  /\ "snd" \notin closed /\ p \in pending
  /\ retries[p.seq] >= MaxRetries
  /\ pending' = pending \ {p}
  /\ UNCHANGED <<sendSeq, pc, seq, slots, retries, ackLoop, sent>>
  /\ UNCHANGED <<receiverVars, packetCh, queued, closed, data, acks>>

\* Retries used up: the session ends.
PeerStopsAcking(p) ==
  /\ "snd" \notin closed /\ p \in pending
  /\ retries[p.seq] >= MaxRetries
  /\ Finish("snd")
  /\ UNCHANGED <<senderVars, receiverVars, packetCh, queued, data, acks>>

-----------------------------------------------------------------------------
(* The receiving endpoint.                                                 *)

\* deliverPacket: a datagram that arrives when packetCh is full ends the
\* session.
DeliverPacket(p) ==
  /\ p \in data /\ "rcv" \notin closed
  /\ \/ /\ Len(packetCh) < PacketCap
        /\ packetCh' = Append(packetCh, p)
        /\ UNCHANGED closed
     \/ /\ Len(packetCh) = PacketCap
        /\ Finish("rcv")
        /\ UNCHANGED packetCh
  /\ UNCHANGED <<senderVars, receiverVars, queued, data, acks>>

\* handlePacket, kind DATA: the ACK is written first.  If that fails the
\* session ends and packetLoop returns.
HandleData ==
  /\ loop = "select" /\ packetCh # <<>>
  /\ packetCh' = Tail(packetCh)
  /\ \/ /\ acks' = acks \cup {Head(packetCh).seq}
        /\ hand' = Head(packetCh)
        /\ loop' = "accept"
        /\ UNCHANGED closed
     \/ /\ Finish("rcv")
        /\ loop' = "exit"
        /\ UNCHANGED <<acks, hand>>
  /\ UNCHANGED <<senderVars, expected, reorder, published, queued, data>>

\* acceptOrdered, up to its first publish.
AlreadyPublished(s) == s < expected
BeyondWindow(s) == s - expected > MaxReorder

\* Duplicates, and packets too far ahead, are dropped.
AcceptDrops ==
  /\ loop = "accept"
  /\ AlreadyPublished(hand.seq) \/ BeyondWindow(hand.seq)
  /\ loop' = "select"
  /\ hand' = NoPacket
  /\ UNCHANGED <<senderVars, expected, reorder, published>>
  /\ UNCHANGED <<packetCh, queued, closed, data, acks>>

\* Mutant: a packet that is ahead is acknowledged and dropped.
AcceptForgets ==
  /\ loop = "accept"
  /\ hand.seq > expected /\ ~BeyondWindow(hand.seq)
  /\ loop' = "select"
  /\ hand' = NoPacket
  /\ UNCHANGED <<senderVars, expected, reorder, published>>
  /\ UNCHANGED <<packetCh, queued, closed, data, acks>>

AcceptBuffers ==
  /\ loop = "accept"
  /\ hand.seq > expected /\ ~BeyondWindow(hand.seq)
  /\ reorder' = IF hand.seq \in ReorderSeqs THEN reorder ELSE reorder \cup {hand}
  /\ loop' = "select"
  /\ hand' = NoPacket
  /\ UNCHANGED <<senderVars, expected, published>>
  /\ UNCHANGED <<packetCh, queued, closed, data, acks>>

\* Mutant: no duplicate check before publishing.
AcceptNextOrOld ==
  /\ loop = "accept" /\ hand.seq =< expected
  /\ loop' = "publish"
  /\ UNCHANGED <<senderVars, hand, expected, reorder, published>>
  /\ UNCHANGED <<packetCh, queued, closed, data, acks>>

AcceptNext ==
  /\ loop = "accept" /\ hand.seq = expected
  /\ loop' = "publish"
  /\ UNCHANGED <<senderVars, hand, expected, reorder, published>>
  /\ UNCHANGED <<packetCh, queued, closed, data, acks>>

\* publish puts the payload into recvCh; expected advances; the next packet
\* of the run, if the reorder map holds it, is taken out to be published.
Publish ==
  /\ loop = "publish" /\ queued < RecvCap
  /\ queued' = queued + 1
  /\ published' = Append(published, hand.payload)
  /\ expected' = expected + 1
  /\ \/ \E p \in reorder :
          /\ p.seq = expected'
          /\ hand' = p
          /\ reorder' = reorder \ {p}
          /\ UNCHANGED loop
     \/ /\ expected' \notin ReorderSeqs
        /\ hand' = NoPacket
        /\ loop' = "select"
        /\ UNCHANGED reorder
  /\ UNCHANGED <<senderVars, packetCh, closed, data, acks>>

\* publish loses its select to doneCh, or to the ten second timer while
\* recvCh stays full: packetLoop finishes the session and returns.
PublishFails ==
  /\ loop = "publish"
  /\ "rcv" \in closed \/ queued = RecvCap
  /\ Finish("rcv")
  /\ loop' = "exit"
  /\ UNCHANGED <<senderVars, hand, expected, reorder, published>>
  /\ UNCHANGED <<packetCh, queued, data, acks>>

LoopExits ==
  /\ loop = "select" /\ "rcv" \in closed
  /\ loop' = "exit"
  /\ UNCHANGED <<senderVars, hand, expected, reorder, published>>
  /\ UNCHANGED <<packetCh, queued, closed, data, acks>>

PacketLoop ==
  HandleData \/ AcceptDrops \/ AcceptBuffers \/ AcceptNext \/ Publish
    \/ PublishFails \/ LoopExits

\* The consumer of Receive() takes a message.
Receive ==
  /\ queued > 0
  /\ queued' = queued - 1
  /\ UNCHANGED <<senderVars, receiverVars, packetCh, closed, data, acks>>

-----------------------------------------------------------------------------
Next ==
  \/ \E e \in Endpoints : Close(e)
  \/ \E w \in Senders : SendBegin(w) \/ SendGivesUp(w) \/ AllocateSeq(w) \/ SendStep(w)
  \/ \E s \in acks : HandleAck(s)
  \/ ReleaseAfterAck
  \/ \E p \in pending : Resend(p) \/ PeerStopsAcking(p)
  \/ \E p \in data : DeliverPacket(p)
  \/ PacketLoop
  \/ Receive

Spec == Init /\ [][Next]_vars

\* Goroutines that can run do run, and a pending entry that stays in the
\* table is found stale by some later tick.  Nothing is assumed of the
\* network, of the manager that calls Close, or of the consumer of recvCh.
Fairness ==
  /\ \A w \in Senders : WF_vars(SendStep(w))
  /\ \A p \in Packets : WF_vars(Resend(p) \/ PeerStopsAcking(p))
  /\ WF_vars(PacketLoop)

FairSpec == Spec /\ Fairness

-----------------------------------------------------------------------------
(* Properties.                                                             *)

TypeOK ==
  /\ sendSeq \in 0 .. MaxSeq
  /\ pc \in [Senders -> {"idle", "slot", "insert", "write", "release", "finish"}]
  /\ seq \in [Senders -> 0 .. MaxSeq]
  /\ slots \in 0 .. MaxPending
  /\ pending \in SUBSET Packets
  /\ retries \in [Seqs -> 0 .. MaxRetries]
  /\ ackLoop \in {"select", "release"}
  /\ packetCh \in Seq(Packets)
  /\ loop \in {"select", "accept", "publish", "exit"}
  /\ hand \in Packets \cup {NoPacket}
  /\ expected \in 1 .. MaxSeq + 1
  /\ reorder \in SUBSET Packets
  /\ queued \in 0 .. RecvCap
  /\ closed \in SUBSET Endpoints
  /\ data \in SUBSET Packets
  /\ acks \in SUBSET Seqs
  /\ sent \in Seq(Senders)
  /\ published \in Seq(Senders)

\* A sequence number is the AEAD nonce of its packet: the concurrent callers
\* of Send never seal two different payloads under one number, and a resend
\* repeats the packet it repeats.
NonceUnique ==
  \A p, q \in data \cup pending : p.seq = q.seq => p = q

\* The reorder map holds only packets that acceptOrdered can still publish:
\* ahead of expected, inside the window, one for each sequence number.
ReorderWithinWindow ==
  /\ \A p \in reorder : expected < p.seq /\ p.seq =< expected + MaxReorder
  /\ \A p, q \in reorder : p.seq = q.seq => p = q

\* "The UDP carrier implements an encrypted reliable ordered datagram
\* channel": what is published is, in order and without gap or duplicate,
\* what the callers of Send were given sequence numbers for.
Channel == INSTANCE OrderedChannel WITH Message <- Senders, rcvd <- published
ImplementsChannel == Channel!Spec

\* An ACK lets the sender forget the packet, so while the receiving session
\* is open an acknowledged packet is published, in packetLoop's hand or in
\* the reorder map.
AckedIsHeld ==
  \A s \in acks :
    s < expected \/ s = hand.seq \/ s \in ReorderSeqs \/ "rcv" \in closed

\* "Sustained missing acknowledgements close the session": no packet stays
\* in the pending table of an open session for ever.
PendingSettles ==
  \A p \in Packets : p \in pending ~> (p \notin pending \/ "snd" \in closed)

\* "Reliable": a message that got a sequence number is published, unless an
\* endpoint closes (and the manager reconnects); it is never just lost.
SentIsPublished ==
  \A s \in Seqs :
    Len(sent) >= s ~> (Len(published) >= s \/ "snd" \in closed \/ "rcv" \in closed)
=============================================================================
