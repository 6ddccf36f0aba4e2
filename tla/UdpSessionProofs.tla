-------------------------- MODULE UdpSessionProofs --------------------------
(***************************************************************************)
(* Proofs about UdpSession, for any set of senders and any bounds.         *)
(*                                                                         *)
(* The inductive invariant says that every packet, wherever it is (pending *)
(* table, network, packetCh, packetLoop's hand, reorder map), carries the  *)
(* payload that was given its sequence number, and that expected counts    *)
(* what was published.                                                     *)
(***************************************************************************)
EXTENDS UdpSession, TLAPS

Holding == {"insert", "write", "release", "finish"}

\* p is a packet that some Send sealed.
Genuine(p) == p.seq =< Len(sent) /\ p.payload = sent[p.seq]

SenderInv ==
  /\ sendSeq = Len(sent)
  /\ \A w \in Senders :
       pc[w] \in Holding => /\ seq[w] \in 1 .. Len(sent)
                            /\ sent[seq[w]] = w

PacketInv ==
  /\ \A p \in pending \cup data \cup reorder : Genuine(p)
  /\ \A i \in 1 .. Len(packetCh) : Genuine(packetCh[i])
  /\ loop \in {"accept", "publish"} => hand \in Packets /\ Genuine(hand)

PublishInv ==
  /\ expected = Len(published) + 1
  /\ Len(published) =< Len(sent)
  /\ \A i \in 1 .. Len(published) : published[i] = sent[i]
  /\ loop = "publish" => hand.seq = expected

IInv == TypeOK /\ SenderInv /\ PacketInv /\ PublishInv /\ ReorderWithinWindow

-----------------------------------------------------------------------------
\* Appending to sent leaves every genuine packet genuine.
LEMMA GenuineAppend ==
  ASSUME NEW w \in Senders, TypeOK, NEW p \in Packets, Genuine(p),
         sent' = Append(sent, w)
  PROVE  Genuine(p)'
BY DEF TypeOK, Genuine, Packets, Seqs

\* The new state of Init satisfies the invariant.
LEMMA InitIInv == Init => IInv
<1> SUFFICES ASSUME Init PROVE IInv
  OBVIOUS
<1>1. TypeOK
  <2>1. /\ sendSeq \in 0 .. MaxSeq
        /\ pc \in [Senders -> {"idle", "slot", "insert", "write", "release", "finish"}]
        /\ seq \in [Senders -> 0 .. MaxSeq]
        /\ slots \in 0 .. MaxPending
        /\ retries \in [Seqs -> 0 .. MaxRetries]
    BY BoundsAssumption DEF Init
  <2>2. /\ ackLoop \in {"select", "release"}
        /\ closed \in SUBSET Endpoints
    BY DEF Init
  <2>3. /\ packetCh \in Seq(Packets)
        /\ loop \in {"select", "accept", "publish", "exit"}
        /\ hand \in Packets \cup {NoPacket}
        /\ expected \in 1 .. MaxSeq + 1
        /\ queued \in 0 .. RecvCap
    BY BoundsAssumption DEF Init
  <2>4. /\ pending \in SUBSET Packets
        /\ reorder \in SUBSET Packets
        /\ data \in SUBSET Packets
        /\ acks \in SUBSET Seqs
        /\ sent \in Seq(Senders)
        /\ published \in Seq(Senders)
    BY DEF Init
  <2>5. QED
    BY <2>1, <2>2, <2>3, <2>4 DEF TypeOK
<1>2. SenderInv
  BY DEF Init, SenderInv, Holding
<1>3. PacketInv
  BY DEF Init, PacketInv
<1>4. PublishInv
  BY DEF Init, PublishInv
<1>5. ReorderWithinWindow
  BY DEF Init, ReorderWithinWindow
<1>6. QED
  BY <1>1, <1>2, <1>3, <1>4, <1>5 DEF IInv

\* Every step keeps the types.
LEMMA TypeStep == IInv /\ [Next]_vars => TypeOK'
<1> SUFFICES ASSUME IInv, [Next]_vars PROVE TypeOK'
  OBVIOUS
<1> USE DEF IInv
<1>1. ASSUME NEW e \in Endpoints, Close(e) PROVE TypeOK'
  BY <1>1 DEF TypeOK, Close, Finish, senderVars, receiverVars
<1>2. ASSUME NEW w \in Senders, SendBegin(w) PROVE TypeOK'
  BY <1>2 DEF TypeOK, SendBegin, receiverVars
<1>3. ASSUME NEW w \in Senders, SendGivesUp(w) PROVE TypeOK'
  BY <1>3 DEF TypeOK, SendGivesUp, receiverVars
<1>4. ASSUME NEW w \in Senders, AllocateSeq(w) PROVE TypeOK'
  BY <1>4, BoundsAssumption DEF TypeOK, AllocateSeq, receiverVars
<1>5. ASSUME NEW w \in Senders, InsertPending(w) PROVE TypeOK'
  <2>1. Packet(w) \in Packets
    BY <1>5 DEF TypeOK, InsertPending, SenderInv, Holding, Packet, Packets, Seqs
  <2>2. QED
    BY <1>5, <2>1 DEF TypeOK, InsertPending, receiverVars
<1>6. ASSUME NEW w \in Senders, WriteOK(w) PROVE TypeOK'
  <2>1. Packet(w) \in Packets
    BY <1>6 DEF TypeOK, WriteOK, SenderInv, Holding, Packet, Packets, Seqs
  <2>2. QED
    BY <1>6, <2>1, BoundsAssumption DEF TypeOK, WriteOK, receiverVars
<1>7. ASSUME NEW w \in Senders, WriteFails(w) PROVE TypeOK'
  <2>1. retries' \in [Seqs -> 0 .. MaxRetries]
    <3>1. 0 \in 0 .. MaxRetries
      BY BoundsAssumption
    <3>2. QED
      BY <1>7, <3>1 DEF TypeOK, WriteFails
  <2>2. QED
    BY <1>7, <2>1 DEF TypeOK, WriteFails, receiverVars
<1>8. ASSUME NEW w \in Senders, ReleaseAfterError(w) PROVE TypeOK'
  BY <1>8, BoundsAssumption DEF TypeOK, ReleaseAfterError, receiverVars
<1>9. ASSUME NEW w \in Senders, FinishAfterError(w) PROVE TypeOK'
  BY <1>9, BoundsAssumption DEF TypeOK, FinishAfterError, Finish, Endpoints, receiverVars
<1>10. ASSUME NEW s \in acks, HandleAck(s) PROVE TypeOK'
  BY <1>10, BoundsAssumption DEF TypeOK, HandleAck, receiverVars
<1>11. CASE ReleaseAfterAck
  BY <1>11, BoundsAssumption DEF TypeOK, ReleaseAfterAck, receiverVars
<1>12. ASSUME NEW p \in pending, Resend(p) PROVE TypeOK'
  <2>1. p.seq \in Seqs /\ p \in Packets
    BY DEF TypeOK, Packets
  <2>2. retries' \in [Seqs -> 0 .. MaxRetries]
    BY <1>12, <2>1, BoundsAssumption DEF TypeOK, Resend
  <2>3. data' \in SUBSET Packets /\ closed' \in SUBSET Endpoints
    BY <1>12, <2>1 DEF TypeOK, Resend, Finish, Endpoints
  <2>4. QED
    BY <1>12, <2>2, <2>3 DEF TypeOK, Resend, receiverVars
<1>13. ASSUME NEW p \in pending, PeerStopsAcking(p) PROVE TypeOK'
  BY <1>13 DEF TypeOK, PeerStopsAcking, Finish, Endpoints, senderVars, receiverVars
<1>14. ASSUME NEW p \in data, DeliverPacket(p) PROVE TypeOK'
  <2>1. packetCh' \in Seq(Packets)
    <3>1. p \in Packets /\ packetCh \in Seq(Packets)
      BY DEF TypeOK
    <3>2. packetCh' \in {packetCh, Append(packetCh, p)}
      BY <1>14 DEF DeliverPacket
    <3>3. QED
      BY <3>1, <3>2
  <2>2. closed' \in SUBSET Endpoints
    BY <1>14 DEF TypeOK, DeliverPacket, Finish, Endpoints
  <2>3. QED
    BY <1>14, <2>1, <2>2 DEF TypeOK, DeliverPacket, senderVars, receiverVars
<1>15. CASE HandleData
  <2>1. packetCh' \in Seq(Packets) /\ Head(packetCh) \in Packets
    BY <1>15 DEF TypeOK, HandleData
  <2>2. Head(packetCh).seq \in Seqs
    BY <2>1 DEF Packets
  <2>3. /\ acks' \in SUBSET Seqs /\ closed' \in SUBSET Endpoints
        /\ hand' \in Packets \cup {NoPacket}
        /\ loop' \in {"select", "accept", "publish", "exit"}
    BY <1>15, <2>1, <2>2 DEF TypeOK, HandleData, Finish, Endpoints
  <2>4. QED
    BY <1>15, <2>1, <2>3 DEF TypeOK, HandleData, senderVars
<1>16. CASE AcceptDrops \/ AcceptBuffers \/ AcceptNext
  BY <1>16 DEF TypeOK, PacketInv, AcceptDrops, AcceptBuffers, AcceptNext, senderVars
<1>17. CASE Publish
  <2>1. hand.seq \in Seqs /\ hand.payload \in Senders /\ hand.seq = expected
    BY <1>17 DEF PacketInv, PublishInv, Publish, Packets
  <2>2. expected' \in 1 .. MaxSeq + 1 /\ published' \in Seq(Senders)
    BY <1>17, <2>1, BoundsAssumption DEF TypeOK, Publish, Seqs
  <2>3. /\ hand' \in Packets \cup {NoPacket} /\ reorder' \in SUBSET Packets
        /\ loop' \in {"select", "accept", "publish", "exit"}
    BY <1>17 DEF TypeOK, Publish
  <2>4. queued' \in 0 .. RecvCap
    BY <1>17, BoundsAssumption DEF TypeOK, Publish
  <2>5. QED
    BY <1>17, <2>2, <2>3, <2>4 DEF TypeOK, Publish, senderVars
<1>18. CASE PublishFails \/ LoopExits
  BY <1>18 DEF TypeOK, PublishFails, LoopExits, Finish, Endpoints, senderVars
<1>19. CASE Receive
  BY <1>19, BoundsAssumption DEF TypeOK, Receive, senderVars, receiverVars
<1>20. CASE UNCHANGED vars
  BY <1>20 DEF TypeOK, vars, senderVars, receiverVars
<1>21. QED
  BY <1>1, <1>2, <1>3, <1>4, <1>5, <1>6, <1>7, <1>8, <1>9, <1>10, <1>11, <1>12,
     <1>13, <1>14, <1>15, <1>16, <1>17, <1>18, <1>19, <1>20
  DEF Next, SendStep, PacketLoop

\* Every step keeps what the senders know about their sequence numbers.
LEMMA SenderStep == IInv /\ [Next]_vars => SenderInv'
<1> SUFFICES ASSUME IInv, [Next]_vars PROVE SenderInv'
  OBVIOUS
<1> USE DEF IInv
<1>1. ASSUME NEW w \in Senders, AllocateSeq(w) PROVE SenderInv'
  <2>1. Len(sent') = Len(sent) + 1 /\ sent'[Len(sent) + 1] = w
    BY <1>1 DEF AllocateSeq, TypeOK
  <2>2. ASSUME NEW v \in Senders, pc'[v] \in Holding, v # w
        PROVE  seq'[v] \in 1 .. Len(sent') /\ sent'[seq'[v]] = v
    BY <1>1, <2>1, <2>2 DEF AllocateSeq, TypeOK, SenderInv
  <2>3. seq'[w] = Len(sent) + 1 /\ sendSeq' = Len(sent')
    BY <1>1, <2>1 DEF AllocateSeq, TypeOK, SenderInv
  <2>4. Len(sent) + 1 \in 1 .. Len(sent')
    BY <2>1 DEF TypeOK
  <2>5. QED
    BY <2>1, <2>2, <2>3, <2>4 DEF SenderInv
<1>2. ASSUME NEW w \in Senders, SendBegin(w) \/ SendGivesUp(w) \/ SendStep(w)
      PROVE  SenderInv'
  BY <1>2 DEF SenderInv, TypeOK, Holding, SendBegin, SendGivesUp, SendStep, InsertPending,
              WriteOK, WriteFails, ReleaseAfterError, FinishAfterError
<1>3. CASE UNCHANGED <<sendSeq, pc, seq, sent>>
  BY <1>3 DEF SenderInv
<1>4. QED
  BY <1>1, <1>2, <1>3
  DEF Next, Close, HandleAck, ReleaseAfterAck, Resend, PeerStopsAcking, DeliverPacket,
      PacketLoop, HandleData, AcceptDrops, AcceptBuffers, AcceptNext, Publish,
      PublishFails, LoopExits, Receive, vars, senderVars

\* Only AllocateSeq changes sent, and it appends.
LEMMA SentStep ==
  [Next]_vars => UNCHANGED sent \/ \E w \in Senders : sent' = Append(sent, w)
BY DEF Next, Close, SendBegin, SendGivesUp, AllocateSeq, SendStep, InsertPending,
       WriteOK, WriteFails, ReleaseAfterError, FinishAfterError, HandleAck,
       ReleaseAfterAck, Resend, PeerStopsAcking, DeliverPacket, PacketLoop, HandleData,
       AcceptDrops, AcceptBuffers, AcceptNext, Publish, PublishFails, LoopExits,
       Receive, vars, senderVars

\* A genuine packet stays genuine.
LEMMA GenuineStep ==
  ASSUME IInv, [Next]_vars, NEW p \in Packets, Genuine(p)
  PROVE  Genuine(p)'
<1>1. CASE UNCHANGED sent
  BY <1>1 DEF Genuine
<1>2. ASSUME NEW w \in Senders, sent' = Append(sent, w) PROVE Genuine(p)'
  BY <1>2, GenuineAppend DEF IInv
<1>3. QED
  BY <1>1, <1>2, SentStep

\* Whatever a step puts into the pending table, on the network or into the
\* reorder map was sealed by a Send before.
LEMMA StoredStep ==
  ASSUME IInv, [Next]_vars, NEW p \in pending' \cup data' \cup reorder'
  PROVE  Genuine(p)
<1> USE DEF IInv
<1>1. ASSUME NEW w \in Senders, InsertPending(w) \/ WriteOK(w) PROVE Genuine(p)
  <2>1. Genuine(Packet(w))
    BY <1>1 DEF InsertPending, WriteOK, SenderInv, Holding, Genuine, Packet
  <2>2. p \in pending \cup data \cup reorder \cup {Packet(w)}
    BY <1>1 DEF InsertPending, WriteOK, receiverVars
  <2>3. QED
    BY <2>1, <2>2 DEF PacketInv
<1>2. CASE AcceptBuffers
  <2>1. p \in pending \cup data \cup reorder \cup {hand}
    BY <1>2 DEF AcceptBuffers, senderVars
  <2>2. QED
    BY <1>2, <2>1 DEF AcceptBuffers, PacketInv
<1>3. CASE p \in pending \cup data \cup reorder
  BY <1>3 DEF PacketInv
<1>4. QED
  BY <1>1, <1>2, <1>3
  DEF Next, Close, SendBegin, SendGivesUp, AllocateSeq, SendStep, WriteFails,
      ReleaseAfterError, FinishAfterError, HandleAck, ReleaseAfterAck, Resend,
      PeerStopsAcking, DeliverPacket, PacketLoop, HandleData, AcceptDrops, AcceptNext,
      Publish, PublishFails, LoopExits, Receive, vars, senderVars, receiverVars

\* A packet packetCh holds after a step was on the network or in packetCh.
LEMMA QueuedStep ==
  ASSUME IInv, [Next]_vars, NEW i \in 1 .. Len(packetCh')
  PROVE  Genuine(packetCh'[i])
<1> USE DEF IInv
<1>1. ASSUME NEW p \in data, DeliverPacket(p) PROVE Genuine(packetCh'[i])
  <2>1. p \in Packets /\ packetCh \in Seq(Packets) /\ Genuine(p)
    BY DEF TypeOK, PacketInv
  <2>2. packetCh' \in {packetCh, Append(packetCh, p)}
    BY <1>1 DEF DeliverPacket
  <2>3. packetCh'[i] = p \/ (i \in 1 .. Len(packetCh) /\ packetCh'[i] = packetCh[i])
    BY <2>1, <2>2
  <2>4. QED
    BY <2>1, <2>3 DEF PacketInv
<1>2. CASE HandleData
  <2>1. packetCh \in Seq(Packets) /\ packetCh # <<>> /\ packetCh' = Tail(packetCh)
    BY <1>2 DEF TypeOK, HandleData
  <2>2. i + 1 \in 1 .. Len(packetCh) /\ packetCh'[i] = packetCh[i + 1]
    BY <2>1
  <2>3. QED
    BY <2>2 DEF PacketInv
<1>3. CASE UNCHANGED packetCh
  BY <1>3 DEF PacketInv
<1>4. QED
  BY <1>1, <1>2, <1>3
  DEF Next, Close, SendBegin, SendGivesUp, AllocateSeq, SendStep, InsertPending,
      WriteOK, WriteFails, ReleaseAfterError, FinishAfterError, HandleAck,
      ReleaseAfterAck, Resend, PeerStopsAcking, PacketLoop, AcceptDrops, AcceptBuffers,
      AcceptNext, Publish, PublishFails, LoopExits, Receive, vars

\* What packetLoop works on after a step is a genuine packet.
LEMMA HandStep ==
  ASSUME IInv, [Next]_vars, loop' \in {"accept", "publish"}
  PROVE  hand' \in Packets /\ Genuine(hand')
<1> USE DEF IInv
<1>1. CASE HandleData
  <2>1. packetCh \in Seq(Packets) /\ packetCh # <<>> /\ hand' = Head(packetCh)
    BY <1>1 DEF TypeOK, HandleData
  <2>2. 1 \in 1 .. Len(packetCh) /\ hand' = packetCh[1] /\ hand' \in Packets
    BY <2>1
  <2>3. QED
    BY <2>2 DEF PacketInv
<1>2. CASE Publish
  BY <1>2 DEF Publish, TypeOK, PacketInv
<1>3. CASE UNCHANGED hand /\ loop \in {"accept", "publish"}
  BY <1>3 DEF PacketInv
<1>4. QED
  BY <1>1, <1>2, <1>3
  DEF Next, Close, SendBegin, SendGivesUp, AllocateSeq, SendStep, InsertPending,
      WriteOK, WriteFails, ReleaseAfterError, FinishAfterError, HandleAck,
      ReleaseAfterAck, Resend, PeerStopsAcking, DeliverPacket, PacketLoop, AcceptDrops,
      AcceptBuffers, AcceptNext, PublishFails, LoopExits, Receive, vars, receiverVars

\* Every step keeps all packets genuine.
LEMMA PacketStep == IInv /\ [Next]_vars => PacketInv'
<1> SUFFICES ASSUME IInv, [Next]_vars PROVE PacketInv'
  OBVIOUS
<1>1. TypeOK'
  BY TypeStep
<1>2. ASSUME NEW p \in pending' \cup data' \cup reorder' PROVE Genuine(p)'
  <2>1. p \in Packets
    BY <1>1 DEF TypeOK
  <2>2. QED
    BY <2>1, StoredStep, GenuineStep
<1>3. ASSUME NEW i \in 1 .. Len(packetCh') PROVE Genuine(packetCh[i])'
  <2>1. packetCh'[i] \in Packets
    BY <1>1 DEF TypeOK
  <2>2. QED
    BY <2>1, QueuedStep, GenuineStep DEF Genuine
<1>4. ASSUME loop' \in {"accept", "publish"} PROVE hand' \in Packets /\ Genuine(hand)'
  BY <1>4, HandStep, GenuineStep DEF Genuine
<1>5. QED
  BY <1>2, <1>3, <1>4 DEF PacketInv, Packets, Seqs

\* Every step keeps what is published a prefix of what was sent.
LEMMA PublishStep == IInv /\ [Next]_vars => PublishInv'
<1> SUFFICES ASSUME IInv, [Next]_vars PROVE PublishInv'
  OBVIOUS
<1> USE DEF IInv
<1>1. CASE Publish
  <2>1. /\ hand.seq = expected /\ hand.payload \in Senders
        /\ hand.seq =< Len(sent) /\ hand.payload = sent[hand.seq]
    BY <1>1 DEF Publish, PublishInv, PacketInv, Genuine, Packets
  <2>2. /\ published \in Seq(Senders) /\ sent \in Seq(Senders)
        /\ published' = Append(published, hand.payload)
        /\ sent' = sent /\ expected' = expected + 1
    BY <1>1 DEF Publish, TypeOK, senderVars
  <2>3. Len(published') = Len(published) + 1 /\ Len(published') =< Len(sent')
    BY <2>1, <2>2 DEF PublishInv
  <2>4. \A i \in 1 .. Len(published') : published'[i] = sent'[i]
    BY <2>1, <2>2, <2>3 DEF PublishInv
  <2>5. loop' = "publish" => hand'.seq = expected'
    BY <1>1 DEF Publish
  <2>6. QED
    BY <2>2, <2>3, <2>4, <2>5 DEF PublishInv
<1>2. ASSUME NEW w \in Senders, AllocateSeq(w) PROVE PublishInv'
  BY <1>2, SMTT(30) DEF PublishInv, TypeOK, AllocateSeq, receiverVars
<1>3. CASE UNCHANGED <<expected, published, sent>> /\ (loop' = "publish" => hand'.seq = expected)
  BY <1>3 DEF PublishInv
<1>4. QED
  BY <1>1, <1>2, <1>3
  DEF PublishInv, Next, Close, SendBegin, SendGivesUp, SendStep, InsertPending,
      WriteOK, WriteFails, ReleaseAfterError, FinishAfterError, HandleAck,
      ReleaseAfterAck, Resend, PeerStopsAcking, DeliverPacket, PacketLoop, HandleData,
      AcceptDrops, AcceptBuffers, AcceptNext, PublishFails, LoopExits, Receive, vars,
      senderVars, receiverVars

\* Every step keeps the reorder map inside the window.
LEMMA ReorderStep == IInv /\ [Next]_vars => ReorderWithinWindow'
<1> SUFFICES ASSUME IInv, [Next]_vars PROVE ReorderWithinWindow'
  OBVIOUS
<1> USE DEF IInv
<1>1. /\ reorder \in SUBSET Packets /\ expected \in Nat
      /\ \A p \in Packets : p.seq \in Nat
  BY BoundsAssumption DEF TypeOK, Packets, Seqs
<1>2. CASE AcceptBuffers
  <2>1. hand.seq \in Nat /\ expected < hand.seq /\ hand.seq =< expected + MaxReorder
    <3>1. hand \in Packets
      BY <1>2 DEF AcceptBuffers, PacketInv
    <3>2. hand.seq > expected /\ ~BeyondWindow(hand.seq)
      BY <1>2 DEF AcceptBuffers
    <3>3. hand.seq \in Nat /\ expected \in Nat /\ MaxReorder \in Nat
      BY <1>1, <3>1, BoundsAssumption
    <3> HIDE DEF IInv
    <3>4. QED
      BY <3>2, <3>3 DEF BeyondWindow
  <2>2. CASE hand.seq \in ReorderSeqs
    BY <1>2, <2>2 DEF AcceptBuffers, ReorderWithinWindow
  <2>3. CASE hand.seq \notin ReorderSeqs
    <3>1. \A p \in reorder : p.seq # hand.seq
      BY <2>3 DEF ReorderSeqs
    <3>2. reorder' = reorder \cup {hand} /\ expected' = expected
      BY <1>2, <2>3 DEF AcceptBuffers
    <3>3. QED
      BY <2>1, <3>1, <3>2 DEF ReorderWithinWindow
  <2>4. QED
    BY <2>2, <2>3
<1>3. CASE Publish
  <2>1. \A p \in reorder' : p \in reorder /\ p.seq # expected + 1
    BY <1>3 DEF Publish, ReorderSeqs, ReorderWithinWindow
  <2>2. expected' = expected + 1
    BY <1>3 DEF Publish
  <2>3. QED
    BY <1>1, <2>1, <2>2, BoundsAssumption DEF ReorderWithinWindow
<1>4. CASE UNCHANGED <<reorder, expected>>
  BY <1>4 DEF ReorderWithinWindow
<1>5. QED
  BY <1>2, <1>3, <1>4
  DEF Next, Close, SendBegin, SendGivesUp, AllocateSeq, SendStep, InsertPending,
      WriteOK, WriteFails, ReleaseAfterError, FinishAfterError, HandleAck,
      ReleaseAfterAck, Resend, PeerStopsAcking, DeliverPacket, PacketLoop, HandleData,
      AcceptDrops, AcceptNext, PublishFails, LoopExits, Receive, vars, receiverVars

\* The invariant is inductive.
THEOREM Invariance == Spec => []IInv
<1>1. IInv /\ [Next]_vars => IInv'
  BY TypeStep, SenderStep, PacketStep, PublishStep, ReorderStep DEF IInv
<1>2. QED
  BY InitIInv, <1>1, PTL DEF Spec

\* The variables of a session keep their types, the slot count included.
THEOREM TypeCorrect == Spec => []TypeOK
<1>1. IInv => TypeOK
  BY DEF IInv
<1>2. QED
  BY Invariance, <1>1, PTL

\* No two payloads are sealed under one sequence number, however the callers
\* of Send and the retransmission loop interleave.
THEOREM NoncesUnique == Spec => []NonceUnique
<1>1. IInv => NonceUnique
  <2> SUFFICES ASSUME IInv, NEW p \in data \cup pending, NEW q \in data \cup pending,
                      p.seq = q.seq
               PROVE  p = q
    BY DEF NonceUnique
  <2>1. p \in Packets /\ q \in Packets /\ Genuine(p) /\ Genuine(q)
    BY DEF IInv, TypeOK, PacketInv
  <2>2. p.payload = q.payload
    BY <2>1 DEF Genuine
  <2>3. QED
    BY <2>1, <2>2 DEF Packets
<1>2. QED
  BY Invariance, <1>1, PTL

\* The reorder map never holds more than the window, nor a packet that was
\* already published.
THEOREM ReorderBounded == Spec => []ReorderWithinWindow
<1>1. IInv => ReorderWithinWindow
  BY DEF IInv
<1>2. QED
  BY Invariance, <1>1, PTL

\* A session implements the ordered channel: duplicates, reordering, loss,
\* resends and closes change only how much of the channel's content comes out.
THEOREM SessionImplementsChannel == Spec => ImplementsChannel
<1>1. Init => Channel!Init
  BY DEF Init, Channel!Init
<1>2. IInv /\ [Next]_vars => [Channel!Next]_Channel!chanVars
  <2> SUFFICES ASSUME IInv, [Next]_vars
               PROVE  Channel!Next \/ UNCHANGED <<sent, published>>
    BY DEF Channel!chanVars
  <2>1. ASSUME NEW w \in Senders, AllocateSeq(w) PROVE Channel!Next
    BY <2>1 DEF AllocateSeq, receiverVars, Channel!Next, Channel!Send
  <2>2. CASE Publish
    <3>1. hand.payload = sent[Len(published) + 1] /\ Len(published) < Len(sent)
      BY <2>2 DEF Publish, IInv, TypeOK, PacketInv, PublishInv, Genuine
    <3>2. QED
      BY <2>2, <3>1 DEF Publish, senderVars, Channel!Next, Channel!Deliver
  <2>3. QED
    BY <2>1, <2>2
    DEF Next, Close, SendBegin, SendGivesUp, SendStep, InsertPending, WriteOK,
        WriteFails, ReleaseAfterError, FinishAfterError, HandleAck, ReleaseAfterAck,
        Resend, PeerStopsAcking, DeliverPacket, PacketLoop, HandleData, AcceptDrops,
        AcceptBuffers, AcceptNext, PublishFails, LoopExits, Receive, vars, senderVars,
        receiverVars
<1>3. QED
  BY Invariance, <1>1, <1>2, PTL DEF Spec, ImplementsChannel, Channel!Spec

AckInv == AckedIsHeld /\ (loop = "select" => hand.seq = 0)

\* As long as no sequence number can overrun the reorder window, a packet
\* that was acknowledged is not lost while the receiving session is open:
\* acceptOrdered drops only what it has published.  (The run udp_window shows
\* what happens when one can.)
THEOREM AckedHeldInWindow ==
  ASSUME MaxSeq =< MaxReorder + 1
  PROVE  Spec => []AckedIsHeld
<1>1. Init => AckInv
  BY DEF Init, AckInv, AckedIsHeld, NoPacket
<1>2. IInv /\ AckInv /\ [Next]_vars => AckInv'
  <2> SUFFICES ASSUME IInv, AckInv, [Next]_vars PROVE AckInv'
    OBVIOUS
  <2> USE DEF IInv
  <2> DEFINE Held(s) == s < expected \/ s = hand.seq \/ s \in ReorderSeqs
  <2>1. NoPacket.seq = 0 /\ acks \subseteq 1 .. MaxSeq /\ expected \in Nat \ {0}
    BY BoundsAssumption DEF NoPacket, TypeOK, Seqs
  <2>2. CASE HandleData
    <3>1. ASSUME NEW s \in acks', "rcv" \notin closed' PROVE Held(s)'
      <4>1. /\ acks' = acks \cup {hand'.seq} /\ hand.seq = 0
            /\ UNCHANGED <<expected, reorder, closed>>
        BY <2>2, <3>1 DEF HandleData, Finish, AckInv
      <4>2. CASE s = hand'.seq
        BY <4>2
      <4>3. CASE s \in acks
        <5>1. s # hand.seq
          BY <2>1, <4>1, <4>3
        <5>2. s < expected \/ s \in ReorderSeqs
          BY <3>1, <4>1, <4>3, <5>1 DEF AckInv, AckedIsHeld
        <5>3. QED
          BY <4>1, <5>2 DEF ReorderSeqs
      <4>4. QED
        BY <3>1, <4>1, <4>2, <4>3
    <3>2. QED
      BY <2>2, <3>1 DEF AckInv, AckedIsHeld, HandleData
  <2>3. CASE AcceptDrops
    <3>1. hand.seq < expected
      <4>1. hand.seq \in 1 .. MaxSeq
        BY <2>3 DEF AcceptDrops, PacketInv, Packets, Seqs
      <4>2. QED
        BY <2>1, <2>3, <4>1, BoundsAssumption DEF AcceptDrops, AlreadyPublished, BeyondWindow
    <3>2. QED
      BY <2>1, <2>3, <3>1 DEF AcceptDrops, AckInv, AckedIsHeld, ReorderSeqs
  <2>4. CASE AcceptBuffers
    <3>1. ReorderSeqs' = ReorderSeqs \cup {hand.seq}
      BY <2>4 DEF AcceptBuffers, ReorderSeqs
    <3>2. QED
      BY <2>1, <2>4, <3>1 DEF AcceptBuffers, AckInv, AckedIsHeld
  <2>5. CASE Publish
    <3>1. ReorderSeqs \subseteq ReorderSeqs' \cup {hand'.seq}
      BY <2>5 DEF Publish, ReorderSeqs
    <3>2. hand.seq = expected /\ expected' = expected + 1
      BY <2>5 DEF Publish, PublishInv
    <3>3. acks' = acks /\ closed' = closed
      BY <2>5 DEF Publish
    <3>4. ASSUME NEW s \in acks', "rcv" \notin closed' PROVE Held(s)'
      BY <2>1, <3>1, <3>2, <3>3, <3>4 DEF AckInv, AckedIsHeld
    <3>5. loop' = "select" => hand'.seq = 0
      BY <2>1, <2>5 DEF Publish
    <3>6. QED
      BY <3>4, <3>5 DEF AckInv, AckedIsHeld
  <2>6. CASE /\ UNCHANGED <<acks, expected, hand, reorder>> /\ closed \subseteq closed'
             /\ loop' = "select" => loop = "select"
    BY <2>6 DEF AckInv, AckedIsHeld, ReorderSeqs
  <2>7. QED
    BY <2>2, <2>3, <2>4, <2>5, <2>6
    DEF Next, Close, SendBegin, SendGivesUp, AllocateSeq, SendStep, InsertPending,
        WriteOK, WriteFails, ReleaseAfterError, FinishAfterError, HandleAck,
        ReleaseAfterAck, Resend, PeerStopsAcking, DeliverPacket, PacketLoop,
        AcceptNext, PublishFails, LoopExits, Receive, vars, receiverVars, Finish
<1>3. AckInv => AckedIsHeld
  BY DEF AckInv
<1>4. QED
  BY Invariance, <1>1, <1>2, <1>3, PTL DEF Spec
=============================================================================
