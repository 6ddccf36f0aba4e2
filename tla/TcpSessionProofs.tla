-------------------------- MODULE TcpSessionProofs --------------------------
(* Proofs about the TCP carrier.  TcpSession, for every number of senders    *)
(* and every bound: the record stream implements OrderedChannel and is never *)
(* out of step.  Keepalive, for every heartbeat, deadline and delay: the     *)
(* read deadline closes a silent session and spares a working one.           *)
EXTENDS TcpSession, Keepalive, TLAPS

Owned == {"seq", "header", "body"}
States == {"idle", "lock"} \cup Owned
Parts == [part : {"header", "body", "torn"}, seq : Nat, payload : Senders \cup {NoSender}]

TcpType ==
  /\ pc \in [Senders -> States] /\ writeMu \in Senders \cup {NoSender}
  /\ sendSeq \in Nat /\ stream \in Seq(Parts)
  /\ reader \in {"header", "body", "publish", "exit"} /\ recvSeq \in Nat
  /\ sent \in Seq(Senders) /\ published \in Seq(Senders \cup {NoSender})

\* Inside Send from the lock to the return is exactly the holder of writeMu,
\* and the last number is its own once it has taken one.
LockInv ==
  /\ sendSeq = Len(sent)
  /\ \A w \in Senders :
       /\ pc[w] \in Owned <=> writeMu = w
       /\ pc[w] \in {"header", "body"} => sendSeq > 0 /\ sent[sendSeq] = w

\* Parts in the order of the stream: the header of a record, its body, the
\* header of the next.  ReadPlace is the part readLoop takes next, WritePlace
\* the one that is written next.
Place(p) == IF p.part = "body" THEN 2 * p.seq + 1 ELSE 2 * p.seq
ReadPlace == IF reader = "body" THEN 2 * recvSeq + 1 ELSE 2 * recvSeq
Phase == IF writeMu = NoSender THEN "free" ELSE pc[writeMu]
WritePlace ==
  2 * sendSeq + (IF Phase = "header" THEN 0 ELSE IF Phase = "body" THEN 1 ELSE 2)

\* A part as Send writes it.
Genuine(p) ==
  \/ p = Header(p.seq)
  \/ p.seq \in 1 .. Len(sent) /\ p = Body(p.seq, sent[p.seq])

\* Between the two ends are the parts from one place to the other; only the
\* last write of a finished session leaves something else.
StreamInv ==
  reader # "exit" =>
    /\ \A i \in 1 .. Len(stream) :
         \/ Genuine(stream[i]) /\ Place(stream[i]) = ReadPlace + i - 1
         \/ stream[i] = Torn /\ i = Len(stream) /\ "snd" \in closed
    /\ "snd" \notin closed => ReadPlace + Len(stream) = WritePlace

\* What was published is what was read, but for the record in readLoop's hand.
PublishInv ==
  /\ reader \in {"header", "body"} => Len(published) = recvSeq - 1
  /\ reader = "publish" =>
       Len(published) = recvSeq - 2 /\ recvSeq - 1 \in 1 .. Len(sent) /\ hand = sent[recvSeq - 1]

TcpInv == TcpType /\ LockInv /\ StreamInv /\ PublishInv

\* Nothing has been written or read.
LEMMA TcpInit == Init => TcpInv
<1> SUFFICES ASSUME Init PROVE TcpInv
  OBVIOUS
<1> USE TcpAssumption DEF Init
<1>1. TcpType
  BY DEF TcpType, States
<1>2. LockInv
  BY DEF LockInv, Owned
<1>3. StreamInv
  BY DEF StreamInv, ReadPlace, WritePlace, Phase
<1>4. PublishInv
  BY DEF PublishInv
<1> QED BY <1>1, <1>2, <1>3, <1>4 DEF TcpInv

\* A sequence that grows keeps its type.
LEMMA AppendMember ==
  ASSUME NEW S, NEW s \in Seq(S), NEW x \in S
  PROVE  Append(s, x) \in Seq(S)
  OBVIOUS

\* Every step keeps the types.
LEMMA TypeStep == TcpInv /\ [Next]_vars => TcpType'
<1> SUFFICES ASSUME TcpInv, [Next]_vars PROVE TcpType'
  OBVIOUS
<1> USE TcpAssumption DEF TcpInv, TcpType
<1>1. ASSUME NEW e \in Endpoints, Close(e) PROVE TcpType'
  BY <1>1 DEF Close, Finish, readerVars
<1>2. ASSUME NEW w \in Senders, SendBegin(w) \/ Lock(w) \/ DeadlineFails(w) PROVE TcpType'
  BY <1>2 DEF SendBegin, Lock, DeadlineFails, readerVars, States, Owned
<1>3. ASSUME NEW w \in Senders, AllocateSeq(w) PROVE TcpType'
  BY <1>3 DEF AllocateSeq, readerVars, States, Owned
<1>4. ASSUME NEW w \in Senders, WriteHeader(w) \/ WriteBody(w) \/ WriteFails(w) PROVE TcpType'
  <2>1. Header(sendSeq) \in Parts /\ Body(sendSeq, w) \in Parts /\ Torn \in Parts
    BY DEF Header, Body, Torn, Parts
  <2>2. stream' \in Seq(Parts)
    <3>1. stream' = stream \/ \E p \in Parts : stream' = Append(stream, p)
      BY <1>4, <2>1 DEF WriteHeader, WriteBody, WriteFails, Write
    <3>2. ASSUME NEW p \in Parts, stream' = Append(stream, p) PROVE stream' \in Seq(Parts)
      BY <3>2, AppendMember
    <3> QED BY <3>1, <3>2
  <2>3. pc' \in [Senders -> States] /\ writeMu' \in Senders \cup {NoSender}
    BY <1>4 DEF WriteHeader, WriteBody, WriteFails, States, Owned
  <2> QED BY <1>4, <2>2, <2>3 DEF WriteHeader, WriteBody, WriteFails, readerVars
<1>5. CASE ReadHeader \/ ReadBody
  <2>1. stream # <<>> /\ stream' = Tail(stream)
    BY <1>5 DEF ReadHeader, ReadBody
  <2>2. stream' \in Seq(Parts)
    BY <2>1
  <2> QED BY <1>5, <2>2 DEF ReadHeader, ReadBody
<1>6. CASE Publish
  <2>1. hand \in Senders
    BY <1>6 DEF Publish, PublishInv
  <2> QED BY <1>6, <2>1 DEF Publish
<1>7. CASE ReadFails \/ PublishAborts \/ Receive
  BY <1>7 DEF ReadFails, PublishAborts, Receive, readerVars
<1>8. CASE UNCHANGED vars
  BY <1>8 DEF vars
<1> QED BY <1>1, <1>2, <1>3, <1>4, <1>5, <1>6, <1>7, <1>8 DEF Next, SendStep, ReadLoop

\* writeMu keeps the callers of Send apart.
LEMMA LockStep == TcpInv /\ [Next]_vars => LockInv'
<1> SUFFICES ASSUME TcpInv, [Next]_vars PROVE LockInv'
  OBVIOUS
<1> USE TcpAssumption DEF TcpInv, TcpType, LockInv
<1>1. ASSUME NEW w \in Senders, AllocateSeq(w) PROVE LockInv'
  BY <1>1 DEF AllocateSeq, Owned
<1>2. ASSUME NEW w \in Senders, SendBegin(w) \/ Lock(w) \/ DeadlineFails(w) PROVE LockInv'
  BY <1>2 DEF SendBegin, Lock, DeadlineFails, Owned
<1>3. ASSUME NEW w \in Senders, WriteHeader(w) \/ WriteBody(w) \/ WriteFails(w) PROVE LockInv'
  BY <1>3 DEF WriteHeader, WriteBody, WriteFails, Owned
<1>4. CASE UNCHANGED <<pc, writeMu, sendSeq, sent>>
  BY <1>4
<1> QED
  BY <1>1, <1>2, <1>3, <1>4
  DEF Next, SendStep, ReadLoop, Close, ReadHeader, ReadBody, ReadFails, Publish,
      PublishAborts, Receive, vars

\* Steps that move neither end of the stream.
LEMMA StreamStays ==
  ASSUME TcpInv, UNCHANGED stream, closed \subseteq closed', ReadPlace' = ReadPlace,
         reader' # "exit" => reader # "exit",
         "snd" \notin closed' => WritePlace' = WritePlace,
         sent' = sent \/ \E w \in Senders : sent' = Append(sent, w)
  PROVE  StreamInv'
<1>1. ASSUME NEW i \in 1 .. Len(stream), Genuine(stream[i]) PROVE Genuine(stream[i])'
  BY <1>1 DEF TcpInv, TcpType, Genuine
<1>2. ASSUME NEW i \in 1 .. Len(stream) PROVE Place(stream[i])' = Place(stream[i])
  BY DEF Place
<1> QED BY <1>1, <1>2 DEF TcpInv, StreamInv

\* A part written at its place extends the stream.
LEMMA StreamGrows ==
  ASSUME TcpInv, NEW p \in Parts, Genuine(p), Place(p) = WritePlace, WritePlace' = WritePlace + 1,
         WritePlace \in Nat,
         "snd" \notin closed, UNCHANGED <<closed, sent, reader, recvSeq>>, stream' = Append(stream, p)
  PROVE  StreamInv'
<1> SUFFICES ASSUME reader # "exit"
             PROVE  /\ \A i \in 1 .. Len(stream') : (Genuine(stream[i]) /\ Place(stream[i]) = ReadPlace + i - 1)'
                    /\ ReadPlace' + Len(stream') = WritePlace'
  BY DEF StreamInv
<1> USE DEF TcpInv, TcpType
<1>1. ReadPlace \in Nat /\ ReadPlace + Len(stream) = WritePlace /\ ReadPlace' = ReadPlace
  BY DEF StreamInv, ReadPlace
<1>2. Len(stream') = Len(stream) + 1 /\ Len(stream) \in Nat
  OBVIOUS
<1>3. ASSUME NEW i \in 1 .. Len(stream')
      PROVE  (Genuine(stream[i]) /\ Place(stream[i]) = ReadPlace + i - 1)'
  <2>1. CASE i = Len(stream')
    <3>1. stream'[i] = p
      BY <2>1, <1>2
    <3>2. Genuine(stream[i])'
      BY <3>1 DEF Genuine
    <3>3. Place(stream[i])' = WritePlace
      BY <3>1 DEF Place
    <3> QED BY <3>2, <3>3, <2>1, <1>1, <1>2
  <2>2. CASE i # Len(stream')
    <3>1. i \in 1 .. Len(stream) /\ stream'[i] = stream[i]
      BY <2>2, <1>2
    <3>2. Genuine(stream[i]) /\ Place(stream[i]) = ReadPlace + i - 1
      BY <3>1 DEF StreamInv
    <3>3. Genuine(stream[i])'
      BY <3>1, <3>2 DEF Genuine
    <3>4. Place(stream[i])' = Place(stream[i])
      BY <3>1 DEF Place
    <3> QED BY <3>2, <3>3, <3>4, <1>1
  <2> QED BY <2>1, <2>2
<1> QED BY <1>1, <1>2, <1>3

\* A write that fails half way finishes the session, so nothing follows it.
LEMMA StreamTears ==
  ASSUME TcpInv, "snd" \notin closed, "snd" \in closed', stream' = Append(stream, Torn),
         UNCHANGED <<sent, reader, recvSeq>>
  PROVE  StreamInv'
<1> USE DEF TcpInv, TcpType
<1>1. Torn \in Parts
  BY DEF Torn, Parts
<1>2. Len(stream') = Len(stream) + 1 /\ Len(stream) \in Nat /\ stream'[Len(stream')] = Torn
  BY <1>1
<1>3. ASSUME NEW i \in 1 .. Len(stream'), i # Len(stream'), reader # "exit"
      PROVE  (Genuine(stream[i]) /\ Place(stream[i]) = ReadPlace + i - 1)'
  <2>1. i \in 1 .. Len(stream) /\ stream'[i] = stream[i]
    BY <1>1, <1>2, <1>3
  <2>2. Genuine(stream[i]) /\ Place(stream[i]) = ReadPlace + i - 1
    BY <2>1, <1>3 DEF StreamInv
  <2>3. Genuine(stream[i])' /\ Place(stream[i])' = Place(stream[i]) /\ ReadPlace' = ReadPlace
    BY <2>1, <2>2 DEF Genuine, Place, ReadPlace
  <2> QED BY <2>2, <2>3
<1> QED BY <1>2, <1>3 DEF StreamInv

\* readLoop takes the first part and waits for the one after it.
LEMMA StreamShrinks ==
  ASSUME TcpInv, stream # <<>>, stream' = Tail(stream), ReadPlace' = ReadPlace + 1,
         reader # "exit", UNCHANGED <<closed, sent, pc, writeMu, sendSeq>>
  PROVE  StreamInv'
<1> USE DEF TcpInv, TcpType
<1>1. Len(stream') = Len(stream) - 1 /\ Len(stream) \in Nat /\ ReadPlace \in Nat
  BY DEF ReadPlace
<1>2. WritePlace' = WritePlace
  BY DEF WritePlace, Phase
<1>3. ASSUME NEW i \in 1 .. Len(stream')
      PROVE  \/ (Genuine(stream[i]) /\ Place(stream[i]) = ReadPlace + i - 1)'
             \/ (stream[i] = Torn /\ i = Len(stream) /\ "snd" \in closed)'
  <2>1. i + 1 \in 1 .. Len(stream) /\ stream'[i] = stream[i + 1]
    BY <1>1
  <2>2. CASE Genuine(stream[i + 1]) /\ Place(stream[i + 1]) = ReadPlace + (i + 1) - 1
    <3>1. Genuine(stream[i])' /\ Place(stream[i])' = Place(stream[i + 1])
      BY <2>1, <2>2 DEF Genuine, Place
    <3>2. i \in Nat /\ ReadPlace + (i + 1) - 1 = (ReadPlace + 1) + i - 1
      BY <1>1
    <3>3. Place(stream[i])' = ReadPlace' + i - 1
      BY <3>1, <3>2, <2>2
    <3> QED BY <3>1, <3>3
  <2>3. CASE stream[i + 1] = Torn /\ i + 1 = Len(stream) /\ "snd" \in closed
    BY <2>1, <2>3, <1>1
  <2> QED BY <2>1, <2>2, <2>3 DEF StreamInv
<1>4. "snd" \notin closed' => ReadPlace' + Len(stream') = WritePlace'
  <2>1. "snd" \notin closed => ReadPlace + Len(stream) = WritePlace
    BY DEF StreamInv
  <2>2. ReadPlace' + Len(stream') = ReadPlace + Len(stream)
    BY <1>1
  <2> QED BY <2>1, <2>2, <1>2
<1> QED BY <1>3, <1>4 DEF StreamInv

\* Every step keeps the parts between the two ends in place.
LEMMA StreamStep == TcpInv /\ [Next]_vars => StreamInv'
<1> SUFFICES ASSUME TcpInv, [Next]_vars PROVE StreamInv'
  OBVIOUS
<1>t. TcpType /\ LockInv /\ PublishInv
  BY DEF TcpInv
<1>1. ASSUME NEW w \in Senders, SendBegin(w) \/ Lock(w) \/ DeadlineFails(w) \/ AllocateSeq(w)
      PROVE  StreamInv'
  <2>1. "snd" \notin closed' => WritePlace' = WritePlace
    <3>1. CASE SendBegin(w)
      BY <1>t, <3>1 DEF SendBegin, WritePlace, Phase, TcpType, LockInv, Owned
    <3>2. CASE Lock(w)
      BY <1>t, <3>2, TcpAssumption DEF Lock, WritePlace, Phase, TcpType, LockInv, Owned
    <3>3. CASE DeadlineFails(w)
      BY <3>3 DEF DeadlineFails
    <3>4. CASE AllocateSeq(w)
      <4>1. writeMu = w /\ w # NoSender /\ pc[w] = "seq" /\ pc'[w] = "header" /\ writeMu' = w
        BY <1>t, <3>4, TcpAssumption DEF AllocateSeq, TcpType, LockInv, Owned
      <4>2. sendSeq' = sendSeq + 1 /\ sendSeq \in Nat
        BY <1>t, <3>4 DEF AllocateSeq, TcpType
      <4> QED BY <4>1, <4>2 DEF WritePlace, Phase
    <3> QED BY <1>1, <3>1, <3>2, <3>3, <3>4
  <2>2. UNCHANGED <<stream, closed, reader, recvSeq>> /\ (sent' = sent \/ sent' = Append(sent, w))
    BY <1>1 DEF SendBegin, Lock, DeadlineFails, AllocateSeq, readerVars
  <2>3. ReadPlace' = ReadPlace
    BY <2>2 DEF ReadPlace
  <2> QED BY <2>1, <2>2, <2>3, StreamStays
<1>2. ASSUME NEW w \in Senders, WriteHeader(w) PROVE StreamInv'
  <2> DEFINE p == Header(sendSeq)
  <2>1. writeMu = w /\ w # NoSender /\ pc[w] = "header" /\ pc'[w] = "body" /\ writeMu' = w
    BY <1>t, <1>2, TcpAssumption DEF WriteHeader, TcpType, LockInv, Owned
  <2>2. p \in Parts /\ Genuine(p)
    BY <1>t DEF Header, Parts, Genuine, TcpType
  <2>3. Place(p) = WritePlace /\ WritePlace' = WritePlace + 1 /\ WritePlace \in Nat
    BY <1>t, <1>2, <2>1 DEF WriteHeader, Header, Place, WritePlace, Phase, TcpType
  <2> QED BY <1>2, <2>2, <2>3, StreamGrows DEF WriteHeader, Write, readerVars
<1>3. ASSUME NEW w \in Senders, WriteBody(w) PROVE StreamInv'
  <2> DEFINE p == Body(sendSeq, w)
  <2>1. writeMu = w /\ w # NoSender /\ pc[w] = "body" /\ writeMu' = NoSender
    BY <1>t, <1>3, TcpAssumption DEF WriteBody, TcpType, LockInv, Owned
  <2>2. sendSeq \in 1 .. Len(sent) /\ sent[sendSeq] = w
    BY <1>t, <2>1 DEF LockInv, TcpType
  <2>3. p \in Parts /\ Genuine(p)
    BY <1>t, <2>2 DEF Body, Parts, Genuine, TcpType
  <2>4. Place(p) = WritePlace /\ WritePlace' = WritePlace + 1 /\ WritePlace \in Nat
    BY <1>t, <1>3, <2>1 DEF WriteBody, Body, Place, WritePlace, Phase, TcpType
  <2> QED BY <1>3, <2>3, <2>4, StreamGrows DEF WriteBody, Write, readerVars
<1>4. ASSUME NEW w \in Senders, WriteFails(w) PROVE StreamInv'
  <2>1. "snd" \in closed' /\ closed \subseteq closed' /\ UNCHANGED <<sent, reader, recvSeq>>
    BY <1>4 DEF WriteFails, Finish, readerVars
  <2>2. ReadPlace' = ReadPlace
    BY <2>1 DEF ReadPlace
  <2>3. CASE UNCHANGED stream
    BY <2>1, <2>2, <2>3, StreamStays
  <2>4. CASE ~UNCHANGED stream
    BY <1>4, <2>1, <2>4, StreamTears DEF WriteFails
  <2> QED BY <2>3, <2>4
<1>5. CASE ReadHeader \/ ReadBody
  <2>1. ReadPlace' = ReadPlace + 1 /\ reader # "exit"
    BY <1>5, <1>t DEF ReadHeader, ReadBody, ReadPlace, TcpType
  <2> QED BY <1>5, <2>1, StreamShrinks DEF ReadHeader, ReadBody
<1>6. CASE ReadFails \/ PublishAborts
  BY <1>6 DEF ReadFails, PublishAborts, StreamInv
<1>7. CASE Publish \/ Receive \/ (\E e \in Endpoints : Close(e)) \/ UNCHANGED vars
  <2>1. UNCHANGED <<pc, writeMu, sendSeq, stream, recvSeq, sent>> /\ closed \subseteq closed'
    BY <1>7 DEF Publish, Receive, Close, Finish, vars, readerVars
  <2>2. ReadPlace' = ReadPlace /\ (reader' # "exit" => reader # "exit")
    BY <1>7, <2>1 DEF Publish, Receive, Close, vars, readerVars, ReadPlace
  <2>3. WritePlace' = WritePlace
    BY <2>1 DEF WritePlace, Phase
  <2> QED BY <2>1, <2>2, <2>3, StreamStays
<1> QED BY <1>1, <1>2, <1>3, <1>4, <1>5, <1>6, <1>7 DEF Next, SendStep, ReadLoop

\* What readLoop finds at its place is the part it wants.
LEMMA HeadIsNext ==
  ASSUME TcpInv, reader \in {"header", "body"}, stream # <<>>
  PROVE  \/ Head(stream) = Torn /\ Len(stream) = 1
         \/ /\ Genuine(Head(stream)) /\ Head(stream).seq = recvSeq
            /\ Head(stream).part = reader
<1> USE DEF TcpInv, TcpType
<1>1. 1 \in 1 .. Len(stream) /\ Head(stream) = stream[1] /\ stream[1] \in Parts
  OBVIOUS
<1>2. CASE stream[1] = Torn /\ 1 = Len(stream)
  BY <1>1, <1>2
<1>3. CASE Genuine(stream[1]) /\ Place(stream[1]) = ReadPlace + 1 - 1
  <2>1. Place(stream[1]) = ReadPlace
    BY <1>3 DEF ReadPlace
  <2>2. stream[1].part \in {"header", "body"} /\ stream[1].seq \in Nat
    BY <1>1, <1>3 DEF Genuine, Header, Body, Parts
  <2>3. stream[1].seq = recvSeq /\ stream[1].part = reader
    BY <2>1, <2>2 DEF Place, ReadPlace
  <2> QED BY <1>1, <1>3, <2>3
<1> QED BY <1>1, <1>2, <1>3 DEF StreamInv

\* The counters of readLoop and what it published agree.
LEMMA PublishStep == TcpInv /\ [Next]_vars => PublishInv'
<1> SUFFICES ASSUME TcpInv, [Next]_vars PROVE PublishInv'
  OBVIOUS
<1> USE DEF TcpInv, TcpType
<1>1. ASSUME NEW w \in Senders, AllocateSeq(w) PROVE PublishInv'
  BY <1>1 DEF AllocateSeq, readerVars, PublishInv
<1>2. CASE ReadBody
  <2>1. Genuine(Head(stream)) /\ Head(stream).seq = recvSeq /\ Head(stream).part = "body"
    BY <1>2, HeadIsNext DEF ReadBody, Torn
  <2>2. recvSeq \in 1 .. Len(sent) /\ Head(stream).payload = sent[recvSeq]
    BY <2>1 DEF Genuine, Header, Body
  <2> QED BY <1>2, <2>2 DEF ReadBody, PublishInv
<1>3. CASE Publish
  BY <1>3 DEF Publish, PublishInv
<1>4. CASE ReadHeader \/ ReadFails \/ PublishAborts
  BY <1>4 DEF ReadHeader, ReadFails, PublishAborts, PublishInv
<1>5. CASE UNCHANGED <<readerVars, sent>>
  BY <1>5 DEF readerVars, PublishInv
<1> QED
  BY <1>1, <1>2, <1>3, <1>4, <1>5
  DEF Next, SendStep, ReadLoop, Close, SendBegin, Lock, DeadlineFails, WriteHeader, WriteBody,
      WriteFails, Receive, vars, readerVars

\* The invariant is inductive.
THEOREM TcpInvariance == Spec => []TcpInv
<1>1. TcpInv /\ [Next]_vars => TcpInv'
  BY TypeStep, LockStep, StreamStep, PublishStep DEF TcpInv
<1> QED BY TcpInit, <1>1, PTL DEF Spec

\* However many callers share writeMu, and wherever a write fails, readLoop
\* never has bytes to read that its sequence and framing checks would reject.
THEOREM StreamNeverMisframed == Spec => []NeverMisframed
<1>1. TcpInv => NeverMisframed
  <2> SUFFICES ASSUME TcpInv, reader \in {"header", "body"}, Unacceptable PROVE FALSE
    BY DEF NeverMisframed
  <2>1. stream # <<>> /\ ~(Head(stream) = Torn /\ Len(stream) = 1)
    <3>1. stream # <<>> /\ (Head(stream) = Torn => Len(stream) > 1)
      BY DEF Unacceptable, Readable
    <3>2. stream \in Seq(Parts)
      BY DEF TcpInv, TcpType
    <3>3. ASSUME Len(stream) > 1, Len(stream) = 1 PROVE FALSE
      BY <3>2, <3>3
    <3> QED BY <3>1, <3>3, Zenon
  <2>2. Genuine(Head(stream)) /\ Head(stream).seq = recvSeq /\ Head(stream).part = reader
    BY <2>1, HeadIsNext, Zenon
  <2>3. CASE reader = "header"
    <3>1. Head(stream) = Header(recvSeq)
      BY <2>2, <2>3 DEF Genuine, Body
    <3> QED BY <2>3, <3>1 DEF Unacceptable
  <2>4. CASE reader = "body"
    BY <2>2, <2>4 DEF Unacceptable
  <2> QED BY <2>3, <2>4
<1> QED BY TcpInvariance, <1>1, PTL

\* The record stream implements the ordered channel: failing and torn writes
\* and closes change only how much of the channel's content comes out.
THEOREM StreamImplementsChannel == Spec => ImplementsChannel
<1>1. Init => Channel!Init
  BY DEF Init, Channel!Init
<1>2. TcpInv /\ [Next]_vars => [Channel!Next]_Channel!chanVars
  <2> SUFFICES ASSUME TcpInv, [Next]_vars
               PROVE  Channel!Next \/ UNCHANGED <<sent, published>>
    BY DEF Channel!chanVars
  <2>1. ASSUME NEW w \in Senders, AllocateSeq(w) PROVE Channel!Next
    BY <2>1 DEF AllocateSeq, readerVars, Channel!Next, Channel!Send
  <2>2. CASE Publish
    <3>1. hand = sent[Len(published) + 1] /\ Len(published) < Len(sent)
      BY <2>2 DEF Publish, TcpInv, TcpType, PublishInv
    <3> QED BY <2>2, <3>1 DEF Publish, Channel!Next, Channel!Deliver
  <2> QED
    BY <2>1, <2>2
    DEF Next, SendStep, ReadLoop, Close, SendBegin, Lock, DeadlineFails, WriteHeader, WriteBody,
        WriteFails, ReadHeader, ReadBody, ReadFails, PublishAborts, Receive, vars, readerVars
<1> QED BY TcpInvariance, <1>1, <1>2, PTL DEF Spec, ImplementsChannel, Channel!Spec

-----------------------------------------------------------------------------
(* The read deadline.                                                       *)

Frames == [to : Nodes, via : Kinds, type : {"ping", "pong"}, age : 0 .. MaxDelay]

BeatType ==
  /\ prefer \in [Nodes -> Kinds] /\ up \in [Nodes -> SUBSET Kinds]
  /\ ticker \in [Nodes -> 0 .. Heartbeat] /\ idle \in [Nodes -> Nat]
  /\ wire \subseteq Frames /\ cut \in BOOLEAN /\ silent \in Nat

\* While the path works the two ends have their TCP session together.
BothEnds == ~cut => ("tcp" \in up["a"] <=> "tcp" \in up["b"])

\* The deadline is as old as the silence, and never overdue.
DeadlineInv ==
  \A n \in Nodes : "tcp" \in up[n] => idle[n] =< ReadIdle /\ (cut => silent =< idle[n])

\* The peer's heartbeat feeds the reader: the deadline is no older than the
\* peer's ticker, or a frame is on its way that was sent within Heartbeat of
\* it.
FedBy(n, f) == f.to = n /\ f.via = "tcp" /\ idle[n] =< Heartbeat + f.age
Fed(n) == idle[n] =< ticker[Peer(n)] \/ \E f \in wire : FedBy(n, f)
FeedInv == \A n \in Nodes : "tcp" \in up[n] /\ ~cut /\ prefer[Peer(n)] = "tcp" => Fed(n)

BeatInv == BeatType /\ BothEnds /\ DeadlineInv /\ FeedInv

\* What Manager.Send puts on the wire is a frame of age 0 to the peer.
LEMMA SentFrames ==
  ASSUME BeatType, NEW n \in Nodes, NEW type \in {"ping", "pong"}
  PROVE  Sent(n, type) \subseteq Frames
<1>1. Peer(n) \in Nodes /\ 0 \in 0 .. MaxDelay
  BY KeepaliveAssumption DEF Peer, Nodes
<1>2. SendOn(n) \subseteq Kinds
  BY DEF SendOn, BeatType
<1> QED BY <1>1, <1>2 DEF Sent, Frames

\* Both sessions up, both deadlines new.
LEMMA BeatInit == KeepaliveInit => BeatInv
<1> SUFFICES ASSUME KeepaliveInit PROVE BeatInv
  OBVIOUS
<1> USE KeepaliveAssumption DEF KeepaliveInit
<1>1. mode \in {"tcp", "udp", "both"} /\ prefer \in [Nodes -> Kinds]
  BY DEF ValidModes
<1>2. up \in [Nodes -> SUBSET Kinds] /\ up["a"] = up["b"]
  BY <1>1 DEF Carriers, Kinds, Nodes
<1>3. ticker \in [Nodes -> 0 .. Heartbeat]
  OBVIOUS
<1>4. BeatType
  BY <1>1, <1>2, <1>3 DEF BeatType
<1>5. BothEnds /\ DeadlineInv
  BY <1>2 DEF BothEnds, DeadlineInv
<1>6. FeedInv
  BY <1>3 DEF FeedInv, Fed, Peer, Nodes
<1> QED BY <1>4, <1>5, <1>6 DEF BeatInv

\* A heartbeat: the peer of the node that sends it is fed from now on by the
\* frame.
LEMMA PingStep ==
  ASSUME BeatInv, NEW n \in Nodes, Ping(n)
  PROVE  BeatInv'
<1> USE KeepaliveAssumption DEF BeatInv
<1>1. /\ ticker[n] = Heartbeat /\ ticker' = [ticker EXCEPT ![n] = 0] /\ wire' = wire \cup Sent(n, "ping")
      /\ UNCHANGED <<mode, prefer, up, idle, cut, silent>>
  BY DEF Ping
<1>2. BeatType'
  <2>1. wire' \subseteq Frames
    BY <1>1, SentFrames DEF BeatType
  <2>2. ticker' \in [Nodes -> 0 .. Heartbeat]
    BY <1>1 DEF BeatType
  <2> QED BY <1>1, <2>1, <2>2 DEF BeatType
<1>3. BothEnds' /\ DeadlineInv'
  BY <1>1 DEF BothEnds, DeadlineInv
<1>4. ASSUME NEW m \in Nodes, "tcp" \in up[m], ~cut, prefer[Peer(m)] = "tcp" PROVE Fed(m)'
  <2>1. Fed(m)
    BY <1>4 DEF FeedInv
  <2>2. CASE \E f \in wire : FedBy(m, f)
    BY <1>1, <2>2 DEF Fed, FedBy
  <2>3. CASE idle[m] =< ticker[Peer(m)] /\ Peer(m) = n
    <3>1. "tcp" \in up[n] /\ Peer(n) = m
      BY <1>4, <2>3 DEF BothEnds, Peer, Nodes
    <3>2. SendOn(n) = {"tcp"}
      BY <1>4, <2>3, <3>1 DEF SendOn
    <3> DEFINE f == [to |-> m, via |-> "tcp", type |-> "ping", age |-> 0]
    <3>3. f \in wire'
      BY <1>1, <3>1, <3>2 DEF Sent
    <3>4. idle[m] =< Heartbeat + 0
      BY <1>1, <2>3 DEF BeatType
    <3> QED BY <1>1, <3>3, <3>4 DEF Fed, FedBy
  <2>4. CASE idle[m] =< ticker[Peer(m)] /\ Peer(m) # n
    <3>1. ticker'[Peer(m)] = ticker[Peer(m)]
      BY <1>1, <2>4 DEF BeatType, Peer, Nodes
    <3> QED BY <1>1, <2>4, <3>1 DEF Fed
  <2> QED BY <2>1, <2>2, <2>3, <2>4 DEF Fed
<1> QED BY <1>1, <1>2, <1>3, <1>4 DEF FeedInv

\* A frame arrives: over TCP it renews its reader's deadline, over UDP it is
\* none of those that feed a reader.
LEMMA DeliverStep ==
  ASSUME BeatInv, NEW f \in wire, Deliver(f)
  PROVE  BeatInv'
<1> USE KeepaliveAssumption DEF BeatInv
<1>1. /\ f.via = "tcp" => ~cut
      /\ idle' = IF f.via = "tcp" THEN [idle EXCEPT ![f.to] = 0] ELSE idle
      /\ wire' = (wire \ {f}) \cup (IF f.type = "ping" THEN Sent(f.to, "pong") ELSE {})
      /\ UNCHANGED <<mode, prefer, up, ticker, cut, silent>>
  BY DEF Deliver, RenewDeadline
<1>2. f \in Frames /\ f.to \in Nodes
  BY DEF BeatType, Frames
<1>3. BeatType'
  <2>1. wire' \subseteq Frames
    BY <1>1, <1>2, SentFrames DEF BeatType
  <2>2. idle' \in [Nodes -> Nat]
    BY <1>1, <1>2 DEF BeatType
  <2> QED BY <1>1, <2>1, <2>2 DEF BeatType
<1>4. \A m \in Nodes : idle'[m] = idle[m] \/ (idle'[m] = 0 /\ ~cut)
  BY <1>1, <1>2 DEF BeatType
<1>5. BothEnds'
  BY <1>1 DEF BothEnds
<1>6. DeadlineInv'
  BY <1>1, <1>4 DEF DeadlineInv
<1>7. ASSUME NEW m \in Nodes, "tcp" \in up[m], ~cut, prefer[Peer(m)] = "tcp" PROVE Fed(m)'
  <2>1. CASE f.via = "tcp" /\ f.to = m
    <3>1. idle'[m] = 0 /\ ticker'[Peer(m)] \in 0 .. Heartbeat
      BY <1>1, <1>2, <2>1 DEF BeatType, Peer, Nodes
    <3> QED BY <3>1 DEF Fed
  <2>2. CASE ~(f.via = "tcp" /\ f.to = m)
    <3>1. idle'[m] = idle[m] /\ \A g \in wire : FedBy(m, g) => g \in wire'
      BY <1>1, <1>2, <2>2 DEF BeatType, FedBy
    <3>2. Fed(m)
      BY <1>7 DEF FeedInv
    <3> QED BY <1>1, <3>1, <3>2 DEF Fed, FedBy
  <2> QED BY <2>1, <2>2
<1> QED BY <1>1, <1>3, <1>5, <1>6, <1>7 DEF FeedInv

\* Sessions end, with the frames that only they carry.
LEMMA SessionEndsStep ==
  ASSUME BeatInv, (\E n \in Nodes : IdleClose(n)) \/ (\E k \in Kinds : Disconnect(k)) \/ Cut \/ Heal
  PROVE  BeatInv'
<1> USE KeepaliveAssumption DEF BeatInv
<1>1. ASSUME NEW n \in Nodes, IdleClose(n) PROVE BeatInv'
  <2>1. /\ up' = [m \in Nodes |-> IF m = n \/ ~cut THEN up[m] \ {"tcp"} ELSE up[m]]
        /\ wire' \subseteq wire /\ UNCHANGED <<mode, prefer, ticker, idle, cut, silent>>
    BY <1>1 DEF IdleClose
  <2>2. BeatType'
    BY <2>1 DEF BeatType
  <2>3. BothEnds' /\ DeadlineInv' /\ FeedInv'
    BY <2>1 DEF BothEnds, DeadlineInv, FeedInv, Nodes
  <2> QED BY <2>2, <2>3
<1>2. ASSUME NEW k \in Kinds, Disconnect(k) PROVE BeatInv'
  <2>1. /\ up' = [n \in Nodes |-> up[n] \ {k}] /\ wire' = wire \ Lost(k)
        /\ UNCHANGED <<mode, prefer, ticker, idle, cut, silent>>
    BY <1>2 DEF Disconnect
  <2>2. BeatType'
    BY <2>1 DEF BeatType
  <2>3. BothEnds' /\ DeadlineInv'
    BY <2>1 DEF BothEnds, DeadlineInv, Nodes
  <2>4. ASSUME NEW m \in Nodes, "tcp" \in up'[m], ~cut, prefer[Peer(m)] = "tcp" PROVE Fed(m)'
    <3>1. k # "tcp" /\ "tcp" \in up[m]
      BY <2>1, <2>4
    <3>2. Fed(m) /\ \A g \in wire : FedBy(m, g) => g \in wire'
      BY <2>1, <2>4, <3>1 DEF FeedInv, FedBy, Lost
    <3> QED BY <2>1, <3>2 DEF Fed, FedBy
  <2> QED BY <2>1, <2>2, <2>3, <2>4 DEF FeedInv
<1>3. ASSUME Cut PROVE BeatInv'
  <2>1. /\ cut' = TRUE /\ silent' = 0 /\ wire' \subseteq wire
        /\ UNCHANGED <<mode, prefer, up, ticker, idle>>
    BY <1>3 DEF Cut
  <2>2. BeatType'
    BY <2>1 DEF BeatType
  <2>3. \A n \in Nodes : 0 =< idle[n]
    BY DEF BeatType
  <2> QED BY <2>1, <2>2, <2>3 DEF BothEnds, DeadlineInv, FeedInv
<1>4. ASSUME Heal PROVE BeatInv'
  <2>1. /\ \A n \in Nodes : "tcp" \notin up[n]
        /\ cut' = FALSE /\ silent' = 0 /\ UNCHANGED <<mode, prefer, up, ticker, idle, wire>>
    BY <1>4 DEF Heal
  <2>2. BeatType'
    BY <2>1 DEF BeatType
  <2> QED BY <2>1, <2>2 DEF BothEnds, DeadlineInv, FeedInv, Nodes
<1> HIDE DEF BeatInv
<1> QED BY <1>1, <1>2, <1>3, <1>4

\* A session begins with new deadlines at both ends.
LEMMA ConnectStep ==
  ASSUME BeatInv, NEW k \in Kinds, Connect(k)
  PROVE  BeatInv'
<1> USE KeepaliveAssumption DEF BeatInv
<1>1. /\ k = "tcp" => ~cut
      /\ up' = [n \in Nodes |-> up[n] \cup {k}]
      /\ idle' = IF k = "tcp" THEN [n \in Nodes |-> 0] ELSE idle
      /\ UNCHANGED <<mode, prefer, ticker, wire, cut, silent>>
  BY DEF Connect
<1>2. BeatType'
  <2>1. up' \in [Nodes -> SUBSET Kinds]
    BY <1>1 DEF BeatType
  <2>2. idle' \in [Nodes -> Nat]
    BY <1>1 DEF BeatType
  <2> QED BY <1>1, <2>1, <2>2 DEF BeatType
<1>3. BothEnds'
  BY <1>1 DEF BothEnds, Nodes
<1>4. CASE k = "tcp"
  <2>1. \A n \in Nodes : idle'[n] = 0 /\ ticker'[Peer(n)] \in 0 .. Heartbeat
    BY <1>1, <1>4 DEF BeatType, Peer, Nodes
  <2>2. DeadlineInv'
    BY <1>1, <1>4, <2>1 DEF DeadlineInv
  <2>3. FeedInv'
    BY <2>1 DEF FeedInv, Fed
  <2> QED BY <1>2, <1>3, <2>2, <2>3
<1>5. CASE k # "tcp"
  <2>1. idle' = idle /\ \A n \in Nodes : "tcp" \in up'[n] <=> "tcp" \in up[n]
    BY <1>1, <1>5
  <2>2. DeadlineInv' /\ FeedInv'
    BY <1>1, <2>1 DEF DeadlineInv, FeedInv, Fed, FedBy
  <2> QED BY <1>2, <1>3, <2>2
<1> QED BY <1>4, <1>5

\* Time passes alike for the deadline, the peer's ticker and the frames.
LEMMA TickStep ==
  ASSUME BeatInv, Tick
  PROVE  BeatInv'
<1> USE KeepaliveAssumption DEF BeatInv
<1>1. /\ \A n \in Nodes : ticker[n] < Heartbeat /\ ("tcp" \in up[n] => idle[n] < ReadIdle)
      /\ \A f \in wire : f.age < MaxDelay \/ Swallowed(f)
      /\ ticker' = [n \in Nodes |-> ticker[n] + 1]
      /\ idle' = [n \in Nodes |-> IF "tcp" \in up[n] THEN idle[n] + 1 ELSE 0]
      /\ wire' = {[f EXCEPT !.age = @ + 1] : f \in {g \in wire : ~Swallowed(g)}}
      /\ silent' = IF cut /\ \E n \in Nodes : "tcp" \in up[n] THEN silent + 1 ELSE 0
      /\ UNCHANGED <<mode, prefer, up, cut>>
  BY DEF Tick
<1>2. BeatType'
  <2>1. ticker' \in [Nodes -> 0 .. Heartbeat]
    BY <1>1 DEF BeatType
  <2>2. idle' \in [Nodes -> Nat] /\ silent' \in Nat
    BY <1>1 DEF BeatType
  <2>3. wire' \subseteq Frames
    <3> SUFFICES ASSUME NEW f \in wire, ~Swallowed(f) PROVE [f EXCEPT !.age = @ + 1] \in Frames
      BY <1>1
    <3>1. f \in Frames /\ f.age + 1 \in 0 .. MaxDelay
      BY <1>1 DEF BeatType, Frames
    <3> QED BY <3>1 DEF Frames
  <2> QED BY <1>1, <2>1, <2>2, <2>3 DEF BeatType
<1>3. BothEnds'
  BY <1>1 DEF BothEnds
<1>4. DeadlineInv'
  BY <1>1 DEF DeadlineInv, BeatType
<1>5. ASSUME NEW m \in Nodes, "tcp" \in up[m], ~cut, prefer[Peer(m)] = "tcp" PROVE Fed(m)'
  <2>1. Fed(m) /\ idle'[m] = idle[m] + 1 /\ idle[m] \in Nat /\ Peer(m) \in Nodes
    BY <1>1, <1>5 DEF FeedInv, BeatType, Peer, Nodes
  <2>2. CASE idle[m] =< ticker[Peer(m)]
    <3>1. ticker'[Peer(m)] = ticker[Peer(m)] + 1 /\ ticker[Peer(m)] \in Nat
      BY <1>1, <2>1 DEF BeatType
    <3> QED BY <2>1, <2>2, <3>1 DEF Fed
  <2>3. ASSUME NEW f \in wire, FedBy(m, f) PROVE Fed(m)'
    <3> DEFINE g == [f EXCEPT !.age = @ + 1]
    <3>1. ~Swallowed(f)
      BY <1>5 DEF Swallowed
    <3>2. g \in wire'
      BY <1>1, <3>1
    <3>3. f \in Frames /\ f.age \in Nat
      BY DEF BeatType, Frames
    <3>4. g.to = f.to /\ g.via = f.via /\ g.age = f.age + 1
      BY <3>3 DEF Frames
    <3>5. idle'[m] =< Heartbeat + g.age
      BY <2>1, <2>3, <3>3, <3>4 DEF FedBy
    <3> QED BY <2>3, <3>2, <3>4, <3>5 DEF Fed, FedBy
  <2> QED BY <2>1, <2>2, <2>3 DEF Fed
<1> QED BY <1>1, <1>2, <1>3, <1>4, <1>5 DEF FeedInv

\* The invariant of the read deadlines is inductive: a working session is fed
\* by its peer's heartbeat, and a deadline is at least as old as the silence.
THEOREM KeepaliveInvariance == KeepaliveSpec => []BeatInv
<1>1. BeatInv /\ [KeepaliveNext]_keepaliveVars => BeatInv'
  <2> SUFFICES ASSUME BeatInv, [KeepaliveNext]_keepaliveVars PROVE BeatInv'
    OBVIOUS
  <2>1. CASE KeepaliveNext
    BY <2>1, PingStep, DeliverStep, SessionEndsStep, ConnectStep, TickStep DEF KeepaliveNext
  <2>2. CASE UNCHANGED keepaliveVars
    BY <2>2 DEF keepaliveVars, BeatInv, BeatType, BothEnds, DeadlineInv, FeedInv, Fed, FedBy
  <2> QED BY <2>1, <2>2
<1> QED BY <1>1, BeatInit, PTL DEF KeepaliveSpec

\* A TCP path that went silent is noticed within tcpReadIdle at each end,
\* whatever the node goes on sending: only reading renews the deadline.
THEOREM SilenceIsNoticed == KeepaliveSpec => []SilenceNoticed
<1>1. BeatInv => SilenceNoticed
  BY DEF BeatInv, DeadlineInv, SilenceNoticed
<1> QED BY <1>1, KeepaliveInvariance, PTL

\* A heartbeat period and the longest way of a frame below the read deadline
\* (10 seconds and the delay against 45) keep a reader whose peer prefers TCP
\* from its deadline, in every mode and however the sessions come and go.
THEOREM HeartbeatSuffices ==
  ASSUME Heartbeat + MaxDelay < ReadIdle
  PROVE  KeepaliveSpec => []NoIdleClose
<1>1. BeatInv => NoIdleClose
  <2> SUFFICES ASSUME BeatInv, NEW n \in Nodes, "tcp" \in up[n], ~cut, prefer[Peer(n)] = "tcp"
               PROVE  idle[n] < ReadIdle
    BY DEF NoIdleClose
  <2>1. Fed(n) /\ idle[n] \in Nat /\ Peer(n) \in Nodes
    BY DEF BeatInv, FeedInv, BeatType, Peer, Nodes
  <2>2. CASE idle[n] =< ticker[Peer(n)]
    <3>1. ticker[Peer(n)] \in 0 .. Heartbeat
      BY <2>1 DEF BeatInv, BeatType
    <3> QED BY <2>1, <2>2, <3>1, KeepaliveAssumption
  <2>3. ASSUME NEW f \in wire, FedBy(n, f) PROVE idle[n] < ReadIdle
    <3>1. f.age \in 0 .. MaxDelay
      BY DEF BeatInv, BeatType, Frames
    <3> QED BY <2>1, <2>3, <3>1, KeepaliveAssumption DEF FedBy
  <2> QED BY <2>1, <2>2, <2>3 DEF Fed
<1> QED BY <1>1, KeepaliveInvariance, PTL
=============================================================================
