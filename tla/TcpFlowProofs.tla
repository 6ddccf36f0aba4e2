---------------------------- MODULE TcpFlowProofs ----------------------------
(* A chunk never overtakes the opening of its flow, the chunks of a stream   *)
(* are written in order, and the reorder map stays within its limit, for     *)
(* every number of chunks, every reorder window and every plan.             *)
EXTENDS TcpFlow, FiniteSetTheorems, TLAPS

States == {"none", "open", "closed"}

FlowType ==
  /\ conn \in [Nodes -> States]
  /\ pump \in [Nodes -> {"off", "read", "have", "end"}]

Known(n) == conn[n] # "none"

\* What each party has seen of the opening: the entry's flow precedes the
\* open request and all that follows from it, the exit's flow precedes the
\* positive status and all that follows from that.
EntryFirst ==
  /\ opener \in {"send", "wait"} => Known("entry")
  /\ Msg("exit", "open", 0) \in net => Known("entry")
  /\ handler # "none" => Known("entry")
ExitFirst ==
  /\ handler = "status" => Known("exit")
  /\ Msg("entry", "ok", 0) \in net => Known("exit")
  /\ ready = "ok" => Known("exit")
PumpsLast ==
  \A n \in Nodes : pump[n] # "off" => Known("entry") /\ Known("exit")
DataLast ==
  \A m \in net : m.to \in Nodes /\ (m.type = "data" => Known(m.to))

\* DataFindsFlow is not inductive: whether a chunk can be sent depends on the
\* pumps, and those on the answers under way.
FlowInv == FlowType /\ EntryFirst /\ ExitFirst /\ PumpsLast /\ DataLast

\* A flow that was in the map is remembered there, open or closed.
Kept == /\ conn' \in [Nodes -> States]
        /\ \A n \in Nodes : Known(n) => Known(n)'

\* Messages that need no flow at their destination.
Harmless(m) == m.to \in Nodes /\ m.type \in {"close", "refused"}

\* The network has nothing new that would need a flow.
Quiet == \A m \in net' : m \in net \/ Harmless(m)

\* The other end of a flow is a node.
LEMMA PeerIsNode == \A n \in Nodes : Peer(n) \in Nodes
  BY DEF Peer, Nodes

\* SendOrNot adds at most the message it is given.
LEMMA SendOrNotAdds ==
  ASSUME NEW base, NEW m, SendOrNot(base, m)
  PROVE  \A x \in net' : x \in base \/ x = m
  BY DEF SendOrNot

\* closeTCP keeps what is known of every flow and sends at most a close.
LEMMA CloseTCPQuiet ==
  ASSUME FlowType, NEW n \in Nodes, NEW notify, NEW base \in SUBSET net,
         CloseTCP(n, notify, base)
  PROVE  Kept /\ Quiet
<1>1. Kept
  BY DEF CloseTCP, FlowType, Kept, Known, States
<1>2. \A x \in net' : x \in base \/ x = Msg(Peer(n), "close", 0)
  BY SendOrNotAdds DEF CloseTCP
<1> QED BY <1>1, <1>2, PeerIsNode DEF Quiet, Harmless, Msg

\* A step that keeps the flows, starts nothing and sends nothing that needs
\* a flow keeps the invariant.
LEMMA QuietStep ==
  ASSUME FlowInv, Kept, Quiet,
         UNCHANGED pump,
         opener' = opener \/ opener' = "end" \/ opener' = "insert",
         handler' = handler \/ (handler' \in {"end", "insert"} /\ handler # "none"),
         ready' = ready \/ ready' = "empty"
  PROVE  FlowInv'
<1> USE DEF FlowInv
<1>1. FlowType'
  BY DEF FlowType, Kept
<1>2. "entry" \in Nodes /\ "exit" \in Nodes
  BY DEF Nodes
<1>3. EntryFirst'
  BY <1>2 DEF EntryFirst, Kept, Quiet, Harmless, Msg, Known
<1>4. ExitFirst'
  BY <1>2 DEF ExitFirst, Kept, Quiet, Harmless, Msg, Known
<1>5. PumpsLast'
  BY <1>2 DEF PumpsLast, Kept, Known
<1>6. DataLast'
  BY DEF DataLast, Kept, Quiet, Harmless
<1> QED BY <1>1, <1>3, <1>4, <1>5, <1>6

-----------------------------------------------------------------------------
\* No flow and no message: the invariant holds at the start.
LEMMA FlowInitInv == Init => FlowInv
  BY DEF Init, FlowInv, FlowType, States, EntryFirst, ExitFirst, PumpsLast, DataLast, Known

\* Opening at the entry node: openLocalTCP.
LEMMA OpeningInv == FlowInv /\ Opening => FlowInv'
<1> SUFFICES ASSUME FlowInv, Opening PROVE FlowInv'
  OBVIOUS
<1>n. "entry" \in Nodes /\ "exit" \in Nodes
  BY DEF Nodes
<1>t. FlowType
  BY DEF FlowInv
<1>1. CASE OpenCheck
  <2>1. Kept /\ Quiet
    BY <1>1, <1>t DEF OpenCheck, Kept, Quiet, Known, FlowType
  <2> QED BY <2>1, <1>1, QuietStep DEF OpenCheck, flowVars
<1>2. CASE OpenLocal
  <2>1. Kept
    BY <1>2, <1>t DEF OpenLocal, Kept, Known, FlowType, States
  <2>2. Known("entry")'
    BY <1>2, <1>t, <1>n DEF OpenLocal, Known, FlowType
  <2>3. net' = net /\ handler' = handler /\ ready' = ready /\ pump' = pump
    BY <1>2 DEF OpenLocal, flowVars
  <2>4. FlowType' /\ EntryFirst'
    BY <2>1, <2>2, <2>3, <1>t DEF FlowType, Kept, EntryFirst
  <2>5. ExitFirst' /\ PumpsLast'
    BY <2>1, <2>2, <2>3, <1>n DEF FlowInv, ExitFirst, PumpsLast, Kept
  <2>6. DataLast'
    BY <2>1, <2>3 DEF FlowInv, DataLast, Kept
  <2> QED BY <2>4, <2>5, <2>6 DEF FlowInv
<1>3. CASE SendOpen
  <2>1. CASE conn' = conn /\ net' = net \cup {Msg("exit", "open", 0)} /\ opener' = "wait"
    <3>1. Known("entry") /\ opener' = "wait"
      BY <1>3, <2>1 DEF SendOpen, FlowInv, EntryFirst
    <3>2. handler' = handler /\ ready' = ready /\ pump' = pump
      BY <1>3 DEF SendOpen, flowVars
    <3>3. FlowType' /\ EntryFirst'
      BY <3>1, <3>2, <2>1 DEF FlowInv, FlowType, EntryFirst, Known
    <3>4. ExitFirst' /\ PumpsLast'
      BY <3>2, <2>1 DEF FlowInv, ExitFirst, PumpsLast, Known, Msg
    <3>5. DataLast'
      BY <2>1, <1>n DEF FlowInv, DataLast, Known, Msg
    <3> QED BY <3>3, <3>4, <3>5 DEF FlowInv
  <2>2. CASE CloseTCP("entry", FALSE, net) /\ opener' = "end"
    BY <2>2, <1>3, <1>n, <1>t, CloseTCPQuiet, QuietStep DEF SendOpen, flowVars
  <2> QED BY <2>1, <2>2, <1>3 DEF SendOpen
<1>4. CASE OpenAnswered
  <2>1. CASE ready = "ok" /\ pump' = [pump EXCEPT !["entry"] = "read"] /\ conn' = conn /\ net' = net
    <3>1. Known("entry") /\ Known("exit")
      BY <2>1, <1>4 DEF OpenAnswered, FlowInv, EntryFirst, ExitFirst
    <3>2. handler' = handler /\ ready' = "empty" /\ opener' = "end"
      BY <1>4 DEF OpenAnswered
    <3>3. FlowType' /\ EntryFirst' /\ ExitFirst'
      BY <3>1, <3>2, <2>1 DEF FlowInv, FlowType, EntryFirst, ExitFirst, Known
    <3>4. PumpsLast' /\ DataLast'
      BY <3>1, <2>1 DEF FlowInv, PumpsLast, DataLast, Known
    <3> QED BY <3>3, <3>4 DEF FlowInv
  <2>2. CASE CloseTCP("entry", FALSE, net) /\ pump' = pump
    BY <2>2, <1>4, <1>n, <1>t, CloseTCPQuiet, QuietStep DEF OpenAnswered
  <2> QED BY <2>1, <2>2, <1>4 DEF OpenAnswered
<1>5. CASE OpenTimesOut
  BY <1>5, <1>n, <1>t, CloseTCPQuiet, QuietStep DEF OpenTimesOut, flowVars
<1>6. CASE OpenCancelled
  BY <1>6, <1>n, <1>t, CloseTCPQuiet, QuietStep DEF OpenCancelled, flowVars
<1> QED BY <1>1, <1>2, <1>3, <1>4, <1>5, <1>6 DEF Opening

\* Answering at the exit node: handleOpenTCP.
LEMMA AnsweringInv == FlowInv /\ Answering => FlowInv'
<1> SUFFICES ASSUME FlowInv, Answering PROVE FlowInv'
  OBVIOUS
<1>n. "entry" \in Nodes /\ "exit" \in Nodes
  BY DEF Nodes
<1>t. FlowType
  BY DEF FlowInv
<1>1. CASE Refuse
  <2>1. Quiet
    BY <1>1, <1>n, SendOrNotAdds DEF Refuse, Quiet, Harmless, Msg
  <2>2. Kept
    BY <1>1, <1>t DEF Refuse, Kept, Known, FlowType
  <2> QED BY <2>1, <2>2, <1>1, QuietStep DEF Refuse, flowVars
<1>2. CASE DialOK
  <2>1. Kept /\ Quiet
    BY <1>2, <1>t DEF DialOK, Kept, Quiet, Known, FlowType
  <2> QED BY <2>1, <1>2, QuietStep DEF DialOK, flowVars
<1>3. CASE Register
  <2>1. Kept
    BY <1>3, <1>t DEF Register, Kept, Known, FlowType, States
  <2>2. Known("exit")' /\ Known("entry")'
    BY <1>3, <1>t, <1>n, <2>1 DEF Register, Known, Kept, FlowType, FlowInv, EntryFirst
  <2>3. net' = net /\ opener' = opener /\ ready' = ready /\ pump' = pump
    BY <1>3 DEF Register, flowVars
  <2>4. FlowType' /\ EntryFirst' /\ ExitFirst' /\ PumpsLast'
    BY <2>1, <2>2, <2>3, <1>t DEF FlowType, Kept, EntryFirst, ExitFirst, PumpsLast
  <2>5. DataLast'
    BY <2>1, <2>3 DEF FlowInv, DataLast, Kept
  <2> QED BY <2>4, <2>5 DEF FlowInv
<1>4. CASE SendStatus
  <2>1. Known("exit") /\ Known("entry")
    BY <1>4 DEF SendStatus, FlowInv, EntryFirst, ExitFirst
  <2>2. Kept
    BY <1>4, <1>t DEF SendStatus, Kept, Known, FlowType, States
  <2>3. Known("exit")' /\ Known("entry")'
    BY <2>1, <2>2, <1>n DEF Kept
  <2>4. pump' \in [Nodes -> {"off", "read", "have", "end"}]
    BY <1>4, <1>t DEF SendStatus, FlowType
  <2>5. FlowType' /\ EntryFirst' /\ ExitFirst' /\ PumpsLast'
    BY <2>2, <2>3, <2>4 DEF FlowType, Kept, EntryFirst, ExitFirst, PumpsLast
  <2>6. DataLast'
    BY <1>4, <1>n, <2>2 DEF SendStatus, FlowInv, DataLast, Kept, Msg
  <2> QED BY <2>5, <2>6 DEF FlowInv
<1> QED BY <1>1, <1>2, <1>3, <1>4 DEF Answering

\* The pumps: a chunk is numbered and sent, or the flow ends.
LEMMA PumpInv == ASSUME FlowInv, NEW n \in Nodes, Pump(n) PROVE FlowInv'
<1>t. FlowType
  BY DEF FlowInv
<1>1. pump[n] # "off" /\ Known("entry") /\ Known("exit")
  BY DEF Pump, PumpReads, PumpSends, PumpEnds, FlowInv, PumpsLast
<1>2. pump' \in [Nodes -> {"off", "read", "have", "end"}]
  BY <1>t DEF Pump, PumpReads, PumpSends, PumpEnds, PumpTo, FlowType
<1>3. opener' = opener /\ ready' = ready /\ handler' = handler
  BY DEF Pump, PumpReads, PumpSends, PumpEnds, openVars
<1> DEFINE chunk(m) == m.type = "data" /\ m.to = Peer(n)
<1>4. Kept /\ \A m \in net' : m \in net \/ Harmless(m) \/ chunk(m)
  <2>1. CASE PumpReads(n)
    BY <2>1, <1>t DEF PumpReads, Kept, Known, FlowType
  <2>2. CASE PumpSends(n)
    <3>1. CASE CloseTCP(n, TRUE, net)
      BY <3>1, <1>t, CloseTCPQuiet DEF Quiet
    <3>2. CASE net' = net \cup {Msg(Peer(n), "data", sendSeq'[n])} /\ conn' = conn
      BY <3>2, <1>t DEF Msg, Kept, Known, FlowType
    <3> QED BY <2>2, <3>1, <3>2 DEF PumpSends
  <2>3. CASE PumpEnds(n)
    BY <2>3, <1>t, CloseTCPQuiet DEF PumpEnds, Quiet
  <2> QED BY <2>1, <2>2, <2>3 DEF Pump
<1>5. Known("entry")' /\ Known("exit")'
  BY <1>1, <1>4 DEF Kept, Nodes
<1>6. FlowType' /\ EntryFirst' /\ ExitFirst' /\ PumpsLast'
  BY <1>2, <1>4, <1>5 DEF FlowType, Kept, EntryFirst, ExitFirst, PumpsLast
<1>7. Peer(n) \in Nodes /\ Known(Peer(n))'
  BY <1>5 DEF Peer, Nodes
<1>8. DataLast'
  BY <1>4, <1>7 DEF FlowInv, DataLast, Kept, Harmless
<1> QED BY <1>6, <1>8 DEF FlowInv

\* handleTCPData keeps what is known and sends at most a close.
LEMMA ReceiveDataQuiet ==
  ASSUME FlowType, NEW n \in Nodes, NEW seq, ReceiveData(n, seq)
  PROVE  Kept /\ Quiet
<1>1. PICK base \in {net, net \ {Msg(n, "data", seq)}} :
        \/ DataUnknown(n, seq, base) \/ DataOld(n, seq, base) \/ DataBeyond(n, seq, base)
        \/ DataAhead(n, seq, base) \/ DataWrites(n, seq, base)
  BY DEF ReceiveData
<1>2. base \in SUBSET net
  BY <1>1
<1>3. CASE DataUnknown(n, seq, base)
  <2>1. \A x \in net' : x \in base \/ x = Msg(Peer(n), "close", 0)
    BY <1>3, SendOrNotAdds DEF DataUnknown
  <2> QED BY <2>1, <1>2, <1>3, PeerIsNode DEF DataUnknown, Kept, Quiet, Harmless, Msg, Known, FlowType
<1>4. CASE DataBeyond(n, seq, base)
  BY <1>2, <1>4, CloseTCPQuiet DEF DataBeyond
<1>5. CASE DataOld(n, seq, base) \/ DataAhead(n, seq, base) \/ DataWrites(n, seq, base)
  BY <1>2, <1>5 DEF DataOld, DataAhead, DataWrites, Kept, Quiet, Known, FlowType
<1> QED BY <1>1, <1>3, <1>4, <1>5

\* handleMessage.
LEMMA ReceiveInv == ASSUME FlowInv, NEW m \in net, Receive(m) PROVE FlowInv'
<1>n. "entry" \in Nodes /\ "exit" \in Nodes
  BY DEF Nodes
<1>t. FlowType
  BY DEF FlowInv
<1>1. CASE ReceiveOpen
  <2>1. Known("entry")
    BY <1>1 DEF ReceiveOpen, FlowInv, EntryFirst
  <2>2. net' \subseteq net /\ UNCHANGED <<conn, opener, ready, pump>> /\ handler' = "dial"
    BY <1>1 DEF ReceiveOpen, flowVars
  <2> QED BY <2>1, <2>2, SMT DEF FlowInv, FlowType, EntryFirst, ExitFirst, PumpsLast, DataLast, Known
<1>2. CASE m.to = "entry" /\ ReceiveStatus(m.type)
  <2>1. m.type = "ok" => Known("exit") \/ ready' = ready
    BY <1>2 DEF ReceiveStatus, FlowInv, ExitFirst
  <2>2. net' \subseteq net /\ UNCHANGED <<conn, opener, handler, pump>> /\ ready' \in {ready, m.type}
    BY <1>2 DEF ReceiveStatus, flowVars
  <2>3. ExitFirst'
    BY <2>1, <2>2 DEF FlowInv, ExitFirst, Known
  <2> QED BY <2>2, <2>3 DEF FlowInv, FlowType, EntryFirst, PumpsLast, DataLast, Known
<1>3. CASE m.type = "close" /\ ReceiveClose(m.to)
  <2>1. m.to \in Nodes
    BY DEF FlowInv, DataLast
  <2> QED BY <1>3, <1>t, <2>1, CloseTCPQuiet, QuietStep DEF ReceiveClose, openVars, flowVars
<1>4. CASE m.type = "data" /\ ReceiveData(m.to, m.seq)
  <2>1. m.to \in Nodes
    BY <1>4 DEF FlowInv, DataLast
  <2>2. Kept /\ Quiet
    BY <1>4, <1>t, <2>1, ReceiveDataQuiet
  <2> QED BY <1>4, <2>2, QuietStep DEF ReceiveData, openVars, flowVars
<1> QED BY <1>1, <1>2, <1>3, <1>4 DEF Receive

\* The steps of a node that start no pump and send at most a close.
LEMMA NodeInv ==
  ASSUME FlowInv, NEW n \in Nodes,
         \/ WriteReturns(n) \/ LoopExits(n) \/ CloseBegins(n) \/ Closing(n)
         \/ StopsReading(n) \/ (\E m \in net : Lose(m))
  PROVE  FlowInv'
<1>t. FlowType
  BY DEF FlowInv
<1>1. CASE WriteReturns(n)
  <2>1. Kept /\ Quiet
    <3>1. CASE CloseTCP(n, TRUE, net)
      BY <3>1, <1>t, CloseTCPQuiet
    <3>2. CASE UNCHANGED <<conn, net>>
      BY <3>2, <1>t DEF Kept, Quiet, Known, FlowType
    <3> QED BY <1>1, <3>1, <3>2 DEF WriteReturns
  <2> QED BY <1>1, <2>1, QuietStep DEF WriteReturns, openVars, flowVars
<1>2. CASE CloseSweeps(n)
  <2>1. Kept /\ Quiet
    BY <1>2, <1>t DEF CloseSweeps, Kept, Quiet, Known, FlowType, States
  <2> QED BY <1>2, <2>1, QuietStep DEF CloseSweeps, openVars, flowVars
<1>3. CASE \/ LoopExits(n) \/ CloseBegins(n) \/ CloseManager(n) \/ CloseReturnsNow(n)
           \/ StopsReading(n) \/ (\E m \in net : Lose(m))
  <2>1. conn' = conn /\ net' \subseteq net /\ UNCHANGED <<openVars, flowVars>>
    BY <1>3 DEF LoopExits, CloseBegins, CloseManager, CloseReturnsNow, StopsReading, Lose
  <2>2. Kept /\ Quiet
    BY <2>1, <1>t DEF Kept, Quiet, Known, FlowType
  <2> QED BY <2>1, <2>2, QuietStep DEF openVars, flowVars
<1> QED BY <1>1, <1>2, <1>3 DEF Closing

\* The invariant of the opening holds in every behaviour.
THEOREM FlowInvariance == Spec => []FlowInv
<1>1. FlowInv /\ [Next]_vars => FlowInv'
  <2>1. SUFFICES ASSUME FlowInv, [Next]_vars PROVE FlowInv'
    OBVIOUS
  <2>2. CASE UNCHANGED vars
    BY <2>1, <2>2 DEF vars, openVars, flowVars, FlowInv, FlowType, EntryFirst, ExitFirst,
       PumpsLast, DataLast, Known
  <2>3. CASE Next
    <3>1. CASE Opening
      BY <2>1, <3>1, OpeningInv
    <3>2. CASE Answering
      BY <2>1, <3>2, AnsweringInv
    <3>3. CASE \E n \in Nodes : Pump(n)
      BY <2>1, <3>3, PumpInv
    <3>4. CASE \E m \in net : Receive(m)
      BY <2>1, <3>4, ReceiveInv
    <3>5. CASE \E n \in Nodes : \/ WriteReturns(n) \/ LoopExits(n) \/ CloseBegins(n)
                               \/ Closing(n) \/ StopsReading(n)
      BY <2>1, <3>5, NodeInv
    <3>6. CASE \E m \in net : Lose(m)
      BY <2>1, <3>6, NodeInv DEF Nodes
    <3> QED BY <2>3, <3>1, <3>2, <3>3, <3>4, <3>5, <3>6 DEF Next
  <2> QED BY <2>1, <2>2, <2>3
<1> QED BY FlowInitInv, <1>1, PTL DEF Spec

\* handleTCPData never meets a chunk of a flow that has yet to be registered:
\* the status that starts the entry's pump leaves after the registration.
THEOREM ChunkFindsFlow == Spec => []DataFindsFlow
<1>1. FlowInv => DataFindsFlow
  BY DEF FlowInv, DataLast, DataFindsFlow, Known
<1> QED BY FlowInvariance, <1>1, PTL

-----------------------------------------------------------------------------
OrderType ==
  /\ sendSeq \in [Nodes -> Nat] /\ expected \in [Nodes -> Nat]
  /\ written \in [Nodes -> Seq(Nat)] /\ reorder \in [Nodes -> SUBSET Nat]
  /\ loop \in [Nodes -> {"select", "write", "exit"}]

\* expected counts what was written.
Counted ==
  \A n \in Nodes :
    /\ expected[n] = Len(written[n]) + 1
    /\ \A i \in 1 .. Len(written[n]) : written[n][i] = i

\* Nothing is ahead of the peer's numbering: not what was written, what is
\* held back, what is being written or what is on its way.
Numbered ==
  \A n \in Nodes :
    /\ expected[n] =< sendSeq[Peer(n)] + 1
    /\ \A i \in reorder[n] : expected[n] < i /\ i =< sendSeq[Peer(n)]
    /\ loop[n] = "write" => expected[n] =< sendSeq[Peer(n)]
DataNumbered ==
  \A m \in net : m.type = "data" => m.seq \in Nat /\ m.seq =< sendSeq[Peer(m.to)]

OrderInv == OrderType /\ Counted /\ Numbered /\ DataNumbered

\* No new chunk is on its way.
NoNewData == \A m \in net' : m \in net \/ m.type # "data"

\* A step that touches neither end of a stream keeps the order.
LEMMA OrderStutter ==
  ASSUME OrderInv, UNCHANGED <<sendSeq, expected, reorder, written>>, NoNewData,
         loop' \in [Nodes -> {"select", "write", "exit"}],
         \A n \in Nodes : loop'[n] = "write" => loop[n] = "write"
  PROVE  OrderInv'
<1>1. OrderType' /\ Counted'
  BY DEF OrderInv, OrderType, Counted
<1>2. Numbered'
  BY DEF OrderInv, Numbered
<1>3. DataNumbered'
  BY DEF OrderInv, DataNumbered, NoNewData
<1> QED BY <1>1, <1>2, <1>3 DEF OrderInv

\* pumpTCP numbers a chunk and sends it.
LEMMA PumpSendsOrder ==
  ASSUME FlowInv, OrderInv, NEW n \in Nodes, PumpSends(n)
  PROVE  OrderInv'
<1>1. /\ sendSeq' = [sendSeq EXCEPT ![n] = @ + 1]
      /\ UNCHANGED <<expected, reorder, written, loop>>
  BY DEF PumpSends, recvVars, nodeVars
<1>2. OrderType /\ Numbered /\ DataNumbered /\ FlowType
  BY DEF OrderInv, FlowInv
<1>3. sendSeq' \in [Nodes -> Nat] /\ \A p \in Nodes : sendSeq[p] =< sendSeq'[p]
  BY <1>1, <1>2 DEF OrderType
<1>4. OrderType' /\ Counted'
  BY <1>1, <1>3 DEF OrderInv, OrderType, Counted
<1>5. Numbered'
  <2>1. SUFFICES ASSUME NEW p \in Nodes
                 PROVE  /\ expected[p] =< sendSeq'[Peer(p)] + 1
                        /\ \A i \in reorder[p] : expected[p] < i /\ i =< sendSeq'[Peer(p)]
                        /\ loop[p] = "write" => expected[p] =< sendSeq'[Peer(p)]
    BY <1>1 DEF Numbered
  <2>2. /\ Peer(p) \in Nodes /\ sendSeq[Peer(p)] \in Nat /\ sendSeq'[Peer(p)] \in Nat
        /\ sendSeq[Peer(p)] =< sendSeq'[Peer(p)] /\ expected[p] \in Nat
        /\ reorder[p] \subseteq Nat
    BY <1>2, <1>3, PeerIsNode DEF OrderType
  <2> QED BY <2>2, <1>2 DEF Numbered
<1>6. DataNumbered'
  <2> DEFINE new == Msg(Peer(n), "data", sendSeq'[n])
  <2>1. \A m \in net' : m \in net \/ Harmless(m) \/ m = new
    <3>1. CASE CloseTCP(n, TRUE, net)
      BY <3>1, <1>2, CloseTCPQuiet DEF Quiet
    <3>2. CASE net' = net \cup {new}
      BY <3>2
    <3> QED BY <3>1, <3>2 DEF PumpSends
  <2>2. Peer(Peer(n)) = n
    BY DEF Peer, Nodes
  <2>3. new.seq \in Nat /\ new.seq =< sendSeq'[Peer(new.to)]
    BY <2>2, <1>3 DEF Msg
  <2>4. ASSUME NEW m \in net, m.type = "data"
        PROVE  m.seq \in Nat /\ m.seq =< sendSeq'[Peer(m.to)]
    <3>1. m.to \in Nodes /\ Peer(m.to) \in Nodes
      BY PeerIsNode DEF FlowInv, DataLast
    <3>2. m.seq \in Nat /\ m.seq =< sendSeq[Peer(m.to)]
      BY <2>4, <1>2 DEF DataNumbered
    <3>3. sendSeq[Peer(m.to)] \in Nat /\ sendSeq'[Peer(m.to)] \in Nat
      BY <3>1, <1>2, <1>3 DEF OrderType
    <3> QED BY <3>1, <3>2, <3>3, <1>3
  <2> HIDE DEF new
  <2> QED BY <2>1, <2>3, <2>4 DEF DataNumbered, Harmless
<1> QED BY <1>4, <1>5, <1>6 DEF OrderInv

\* writeOrdered takes a chunk: it is old, held back, too far ahead, or next.
LEMMA ReceiveDataOrder ==
  ASSUME FlowInv, OrderInv, NEW m \in net, m.type = "data", ReceiveData(m.to, m.seq)
  PROVE  OrderInv'
<1> DEFINE n == m.to
<1>1. /\ n \in Nodes /\ m.seq \in Nat /\ m.seq =< sendSeq[Peer(n)]
      /\ FlowType /\ OrderType /\ Numbered
  BY DEF FlowInv, DataLast, OrderInv, DataNumbered
<1>2. NoNewData
  BY <1>1, ReceiveDataQuiet DEF Quiet, Harmless, NoNewData
<1>3. PICK base : \/ DataUnknown(n, m.seq, base) \/ DataOld(n, m.seq, base)
                  \/ DataBeyond(n, m.seq, base)
                  \/ DataAhead(n, m.seq, base) \/ DataWrites(n, m.seq, base)
  BY DEF ReceiveData
<1>4. sendSeq' = sendSeq
  BY DEF ReceiveData, flowVars
<1>5. CASE DataUnknown(n, m.seq, base) \/ DataOld(n, m.seq, base) \/ DataBeyond(n, m.seq, base)
  <2>1. UNCHANGED <<expected, reorder, written, loop>>
    BY <1>5 DEF DataUnknown, DataOld, DataBeyond, recvVars, nodeVars
  <2> QED BY <2>1, <1>1, <1>2, <1>4, OrderStutter DEF OrderType
<1>6. CASE DataAhead(n, m.seq, base)
  <2>1. /\ reorder' = [reorder EXCEPT ![n] = @ \cup {m.seq}] /\ expected[n] < m.seq
        /\ UNCHANGED <<expected, written, loop>>
    BY <1>1, <1>6 DEF DataAhead, nodeVars, OrderType
  <2>2. OrderType' /\ Counted'
    BY <2>1, <1>1, <1>4 DEF OrderInv, OrderType, Counted
  <2>3. Numbered'
    BY <2>1, <1>1, <1>4 DEF OrderType, Numbered
  <2>4. DataNumbered'
    BY <1>2, <1>4 DEF OrderInv, DataNumbered, NoNewData
  <2> QED BY <2>2, <2>3, <2>4 DEF OrderInv
<1>7. CASE DataWrites(n, m.seq, base)
  <2>1. /\ loop' = [loop EXCEPT ![n] = "write"] /\ m.seq = expected[n]
        /\ UNCHANGED <<expected, reorder, written>>
    BY <1>7 DEF DataWrites, recvVars
  <2>2. OrderType' /\ Counted'
    BY <2>1, <1>1, <1>4 DEF OrderInv, OrderType, Counted
  <2>3. Numbered'
    BY <2>1, <1>1, <1>4 DEF OrderType, Numbered
  <2>4. DataNumbered'
    BY <1>2, <1>4 DEF OrderInv, DataNumbered, NoNewData
  <2> QED BY <2>2, <2>3, <2>4 DEF OrderInv
<1> QED BY <1>3, <1>5, <1>6, <1>7

\* The run that can be written ends at the last chunk the peer numbered.
LEMMA RunBounded ==
  ASSUME OrderInv, NEW n \in Nodes, loop[n] = "write"
  PROVE  /\ Cardinality(Run(n, expected[n])) \in Nat
         /\ expected[n] + Cardinality(Run(n, expected[n])) =< sendSeq[Peer(n)] + 1
<1> DEFINE e == expected[n]
           s == sendSeq[Peer(n)]
           run == Run(n, e)
<1>1. e \in Nat /\ s \in Nat /\ e =< s /\ reorder[n] \subseteq Nat
  BY PeerIsNode DEF OrderInv, OrderType, Numbered
<1>2. run \in SUBSET (e .. s)
  BY <1>1 DEF Run, OrderInv, Numbered
<1> HIDE DEF run, e, s
<1>3. IsFiniteSet(e .. s) /\ Cardinality(e .. s) = s - e + 1
  BY <1>1, FS_Interval
<1>4. IsFiniteSet(run) /\ Cardinality(run) =< s - e + 1
  BY <1>2, <1>3, FS_Subset
<1>5. Cardinality(run) \in Nat
  BY <1>4, FS_CardinalityType
<1>6. e + Cardinality(run) =< s + 1
  BY <1>1, <1>4, <1>5
<1> QED BY <1>5, <1>6 DEF run, e, s

\* Counting on: the numbers 1, 2, ... continued by the next k numbers.
LEMMA CountOn ==
  ASSUME NEW s \in Seq(Nat), NEW t \in Seq(Nat),
         \A i \in 1 .. Len(s) : s[i] = i,
         \A i \in 1 .. Len(t) : t[i] = Len(s) + i
  PROVE  /\ s \o t \in Seq(Nat) /\ Len(s \o t) = Len(s) + Len(t)
         /\ \A i \in 1 .. Len(s) + Len(t) : (s \o t)[i] = i
<1>1. s \o t \in Seq(Nat) /\ Len(s \o t) = Len(s) + Len(t)
  OBVIOUS
<1>2. ASSUME NEW i \in 1 .. Len(s) + Len(t) PROVE (s \o t)[i] = i
  <2>1. CASE i =< Len(s)
    BY <2>1
  <2>2. CASE i > Len(s)
    <3>1. i - Len(s) \in 1 .. Len(t)
      BY <2>2
    <3>2. (s \o t)[i] = t[i - Len(s)]
      BY <2>2
    <3> QED BY <3>1, <3>2
  <2> QED BY <2>1, <2>2
<1> QED BY <1>1, <1>2

\* writeConnAll returns: a prefix of the run is written.
LEMMA WriteReturnsOrder ==
  ASSUME FlowInv, OrderInv, NEW n \in Nodes, WriteReturns(n)
  PROVE  OrderInv'
<1> DEFINE e == expected[n]
<1>1. OrderType /\ Counted /\ Numbered /\ DataNumbered /\ FlowType
  BY DEF OrderInv, FlowInv
<1>2. /\ loop[n] = "write" /\ loop' = [loop EXCEPT ![n] = "select"]
      /\ sendSeq' = sendSeq
  BY DEF WriteReturns, flowVars
<1>3. PICK k \in 0 .. Cardinality(Run(n, e)) :
        /\ written' = [written EXCEPT ![n] = @ \o [i \in 1 .. k |-> expected[n] + i - 1]]
        /\ expected' = [expected EXCEPT ![n] = @ + k]
        /\ reorder' = [reorder EXCEPT ![n] = @ \ (expected[n] .. expected[n] + k)]
        /\ UNCHANGED <<conn, net, lost>> \/ CloseTCP(n, TRUE, net)
  BY DEF WriteReturns
<1>4. k \in Nat /\ e \in Nat /\ sendSeq[Peer(n)] \in Nat /\ e + k =< sendSeq[Peer(n)] + 1
  <2>1. /\ Cardinality(Run(n, e)) \in Nat
        /\ e + Cardinality(Run(n, e)) =< sendSeq[Peer(n)] + 1
    BY <1>2, RunBounded
  <2>2. e \in Nat /\ sendSeq[Peer(n)] \in Nat
    BY <1>1, PeerIsNode DEF OrderType
  <2> HIDE DEF e
  <2> QED BY <2>1, <2>2, <1>3
<1>5. NoNewData
  BY <1>1, <1>3, CloseTCPQuiet DEF Quiet, Harmless, NoNewData
<1>6. DataNumbered'
  BY <1>1, <1>2, <1>5 DEF DataNumbered, NoNewData
<1> DEFINE chunks == [i \in 1 .. k |-> expected[n] + i - 1]
<1>7. chunks \in Seq(Nat) /\ Len(chunks) = k /\ \A i \in 1 .. k : chunks[i] = e + i - 1
  BY <1>4
<1>8. written[n] \in Seq(Nat) /\ e = Len(written[n]) + 1
  BY <1>1 DEF OrderType, Counted
<1>9. /\ written[n] \o chunks \in Seq(Nat) /\ Len(written[n] \o chunks) = Len(written[n]) + k
      /\ \A i \in 1 .. Len(written[n]) + k : (written[n] \o chunks)[i] = i
  <2>1. \A i \in 1 .. Len(written[n]) : written[n][i] = i
    BY <1>1 DEF Counted
  <2>2. \A i \in 1 .. Len(chunks) : chunks[i] = Len(written[n]) + i
    <3> HIDE DEF chunks, e
    <3> QED BY <1>4, <1>7, <1>8
  <2> HIDE DEF chunks, e
  <2> QED BY <2>1, <2>2, <1>7, <1>8, CountOn
<1>10. /\ written'[n] = written[n] \o chunks /\ expected'[n] = e + k
       /\ \A p \in Nodes \ {n} : written'[p] = written[p] /\ expected'[p] = expected[p]
  BY <1>1, <1>3 DEF OrderType
<1>11. OrderType'
  <2>1. written' \in [Nodes -> Seq(Nat)]
    <3> HIDE DEF chunks
    <3> QED BY <1>1, <1>3, <1>9 DEF OrderType, chunks
  <2>2. expected' \in [Nodes -> Nat] /\ reorder' \in [Nodes -> SUBSET Nat]
    BY <1>1, <1>3, <1>4 DEF OrderType
  <2> QED BY <2>1, <2>2, <1>1, <1>2 DEF OrderType
<1>12. Counted'
  <2> HIDE DEF chunks, e
  <2>1. expected'[n] = Len(written'[n]) + 1
    <3>1. Len(written[n]) \in Nat
      BY <1>8
    <3>2. Len(written'[n]) = Len(written[n]) + k
      BY <1>9, <1>10, Zenon
    <3>3. expected'[n] = e + k
      BY <1>10, Zenon
    <3> QED BY <3>1, <3>2, <3>3, <1>4, <1>8
  <2>2. \A i \in 1 .. Len(written'[n]) : written'[n][i] = i
    BY <1>9, <1>10
  <2> QED BY <2>1, <2>2, <1>1, <1>10 DEF Counted
<1>13. Numbered'
  <2> SUFFICES ASSUME NEW p \in Nodes
               PROVE  /\ expected'[p] =< sendSeq[Peer(p)] + 1
                      /\ \A i \in reorder'[p] : expected'[p] < i /\ i =< sendSeq[Peer(p)]
                      /\ loop'[p] = "write" => expected'[p] =< sendSeq[Peer(p)]
    BY <1>2 DEF Numbered
  <2>1. CASE p # n
    BY <2>1, <1>1, <1>2, <1>3 DEF Numbered, OrderType
  <2>2. CASE p = n
    <3>1. loop'[n] # "write" /\ reorder'[n] = reorder[n] \ (e .. e + k)
      BY <1>1, <1>2, <1>3 DEF OrderType
    <3>2. \A i \in reorder[n] : i \in Nat /\ e < i /\ i =< sendSeq[Peer(n)]
      BY <1>1 DEF Numbered, OrderType
    <3> HIDE DEF e
    <3> QED BY <2>2, <3>1, <3>2, <1>4, <1>10
  <2> QED BY <2>1, <2>2
<1> QED BY <1>6, <1>11, <1>12, <1>13 DEF OrderInv

\* Every other step leaves both ends of the streams alone.
LEMMA OtherOrder ==
  ASSUME FlowInv, OrderInv,
         \/ Opening \/ Answering
         \/ \E n \in Nodes : PumpReads(n) \/ PumpEnds(n) \/ LoopExits(n)
         \/ \E n \in Nodes : CloseBegins(n) \/ Closing(n) \/ StopsReading(n)
         \/ ReceiveOpen \/ \E type : ReceiveStatus(type)
         \/ \E n \in Nodes : ReceiveClose(n)
         \/ \E m \in net : Lose(m)
  PROVE  OrderInv'
<1>t. FlowType /\ OrderType /\ "entry" \in Nodes
  BY DEF FlowInv, OrderInv, Nodes
<1>1. CASE Opening
  <2>1. UNCHANGED <<sendSeq, expected, reorder, written, loop>>
    BY <1>1 DEF Opening, OpenCheck, OpenLocal, SendOpen, OpenAnswered, OpenTimesOut,
       OpenCancelled, recvVars, flowVars, nodeVars
  <2>2. NoNewData
    <3>1. CASE \E b \in BOOLEAN : CloseTCP("entry", b, net)
      BY <3>1, <1>t, CloseTCPQuiet DEF Quiet, Harmless, NoNewData
    <3>2. CASE net' = net \/ net' = net \cup {Msg("exit", "open", 0)}
      BY <3>2 DEF NoNewData, Msg
    <3> QED BY <3>1, <3>2, <1>1 DEF Opening, OpenCheck, OpenLocal, SendOpen, OpenAnswered,
       OpenTimesOut, OpenCancelled
  <2> QED BY <2>1, <2>2, <1>t, OrderStutter DEF OrderType
<1>2. CASE Answering
  <2>1. UNCHANGED <<sendSeq, expected, reorder, written, loop>>
    BY <1>2 DEF Answering, Refuse, DialOK, Register, SendStatus, recvVars, flowVars, nodeVars
  <2>2. NoNewData
    BY <1>2, SendOrNotAdds DEF Answering, Refuse, DialOK, Register, SendStatus, NoNewData, Msg
  <2> QED BY <2>1, <2>2, <1>t, OrderStutter DEF OrderType
<1>3. CASE \E n \in Nodes : PumpReads(n) \/ PumpEnds(n) \/ ReceiveClose(n)
  <2>1. UNCHANGED <<sendSeq, expected, reorder, written, loop>>
    BY <1>3 DEF PumpReads, PumpEnds, ReceiveClose, recvVars, flowVars, nodeVars
  <2>2. NoNewData
    <3>1. CASE \E n \in Nodes, b \in BOOLEAN, base \in SUBSET net : CloseTCP(n, b, base)
      BY <3>1, <1>t, CloseTCPQuiet DEF Quiet, Harmless, NoNewData
    <3>2. CASE net' = net
      BY <3>2 DEF NoNewData
    <3> QED BY <3>1, <3>2, <1>3 DEF PumpReads, PumpEnds, ReceiveClose
  <2> QED BY <2>1, <2>2, <1>t, OrderStutter DEF OrderType
<1>4. CASE \/ \E n \in Nodes : LoopExits(n) \/ CloseBegins(n) \/ Closing(n) \/ StopsReading(n)
           \/ ReceiveOpen \/ (\E type : ReceiveStatus(type)) \/ \E m \in net : Lose(m)
  <2>1. UNCHANGED <<sendSeq, expected, reorder, written>> /\ net' \subseteq net
    BY <1>4 DEF LoopExits, CloseBegins, Closing, CloseSweeps, CloseManager, CloseReturnsNow,
       StopsReading, ReceiveOpen, ReceiveStatus, Lose, recvVars, flowVars
  <2>2. loop' = loop \/ \E n \in Nodes : loop' = [loop EXCEPT ![n] = "exit"]
    BY <1>4 DEF LoopExits, CloseBegins, Closing, CloseSweeps, CloseManager, CloseReturnsNow,
       StopsReading, ReceiveOpen, ReceiveStatus, Lose, nodeVars
  <2>3. /\ loop' \in [Nodes -> {"select", "write", "exit"}]
        /\ \A n \in Nodes : loop'[n] = "write" => loop[n] = "write"
    BY <2>2, <1>t DEF OrderType
  <2>4. NoNewData
    BY <2>1 DEF NoNewData
  <2> QED BY <2>1, <2>3, <2>4, OrderStutter
<1> QED BY <1>1, <1>2, <1>3, <1>4

\* The order of both streams holds in every behaviour.
THEOREM OrderInvariance == Spec => []OrderInv
<1>1. Init => OrderInv
  BY DEF Init, OrderInv, OrderType, Counted, Numbered, DataNumbered, Nodes, Peer
<1>2. FlowInv /\ OrderInv /\ [Next]_vars => OrderInv'
  <2>1. SUFFICES ASSUME FlowInv, OrderInv, [Next]_vars PROVE OrderInv'
    OBVIOUS
  <2>2. CASE UNCHANGED vars
    BY <2>1, <2>2, OrderStutter DEF vars, flowVars, recvVars, nodeVars, NoNewData, OrderInv, OrderType
  <2>3. CASE \E n \in Nodes : PumpSends(n) \/ WriteReturns(n)
    BY <2>1, <2>3, PumpSendsOrder, WriteReturnsOrder
  <2>4. CASE \E m \in net : m.type = "data" /\ ReceiveData(m.to, m.seq)
    BY <2>1, <2>4, ReceiveDataOrder
  <2>5. CASE \E m \in net : m.type = "close" /\ ReceiveClose(m.to)
    BY <2>1, <2>5, OtherOrder DEF FlowInv, DataLast
  <2>6. CASE \/ Opening \/ Answering
             \/ \E n \in Nodes : PumpReads(n) \/ PumpEnds(n) \/ LoopExits(n)
             \/ \E n \in Nodes : CloseBegins(n) \/ Closing(n) \/ StopsReading(n)
             \/ ReceiveOpen \/ (\E type : ReceiveStatus(type)) \/ \E m \in net : Lose(m)
    BY <2>1, <2>6, OtherOrder
  <2> QED BY <2>1, <2>2, <2>3, <2>4, <2>5, <2>6 DEF Next, Pump, Receive
<1> QED BY <1>1, <1>2, FlowInvariance, PTL DEF Spec

\* "Stream byte order remains correct if the carrier changes during a flow":
\* writeOrdered gives the local connection what the peer numbered, in order.
THEOREM StreamsStayInOrder == Spec => []StreamsInOrder
<1>1. OrderInv => StreamsInOrder
  <2> SUFFICES ASSUME OrderInv, NEW n \in Nodes
               PROVE  /\ Len(written[n]) =< sendSeq[Peer(n)]
                      /\ \A i \in 1 .. Len(written[n]) : written[n][i] = i
    BY DEF StreamsInOrder
  <2>1. Len(written[n]) \in Nat /\ sendSeq[Peer(n)] \in Nat
    BY PeerIsNode DEF OrderInv, OrderType
  <2> QED BY <2>1 DEF OrderInv, Counted, Numbered
<1> QED BY <1>1, OrderInvariance, PTL

-----------------------------------------------------------------------------
(* The reorder map.                                                        *)

\* No chunk that is held back is further ahead than the reorder window.
HeldNear ==
  \A n \in Nodes : \A i \in reorder[n] : i - expected[n] =< MaxReorder

\* A step that leaves the receiving ends alone, and a step that holds back
\* one chunk more, keep what is held back near.
LEMMA HeldStutter ==
  ASSUME HeldNear, UNCHANGED <<expected, reorder>>
  PROVE  HeldNear'
BY DEF HeldNear

LEMMA ReceiveDataHolds ==
  ASSUME FlowInv, OrderInv, HeldNear, NEW m \in net, m.type = "data", ReceiveData(m.to, m.seq)
  PROVE  HeldNear'
<1> DEFINE n == m.to
<1>1. n \in Nodes /\ OrderType
  BY DEF FlowInv, DataLast, OrderInv
<1>2. PICK base : \/ DataUnknown(n, m.seq, base) \/ DataOld(n, m.seq, base)
                  \/ DataBeyond(n, m.seq, base)
                  \/ DataAhead(n, m.seq, base) \/ DataWrites(n, m.seq, base)
  BY DEF ReceiveData
<1>3. CASE DataAhead(n, m.seq, base)
  <2>1. /\ reorder' = [reorder EXCEPT ![n] = @ \cup {m.seq}] /\ expected' = expected
        /\ m.seq - expected[n] =< MaxReorder
    BY <1>3 DEF DataAhead
  <2> QED BY <2>1, <1>1 DEF HeldNear, OrderType
<1>4. CASE ~DataAhead(n, m.seq, base)
  <2>1. UNCHANGED <<expected, reorder>>
    BY <1>2, <1>4 DEF DataUnknown, DataOld, DataBeyond, DataWrites, recvVars
  <2> QED BY <2>1, HeldStutter
<1> QED BY <1>3, <1>4

\* Writing moves the window forward and takes chunks out of the map.
LEMMA WriteReturnsHolds ==
  ASSUME OrderInv, HeldNear, NEW n \in Nodes, WriteReturns(n)
  PROVE  HeldNear'
<1>1. OrderType /\ Cardinality(Run(n, expected[n])) \in Nat
  BY RunBounded DEF OrderInv, WriteReturns
<1>2. PICK k \in 0 .. Cardinality(Run(n, expected[n])) :
        /\ expected' = [expected EXCEPT ![n] = @ + k]
        /\ reorder' = [reorder EXCEPT ![n] = @ \ (expected[n] .. expected[n] + k)]
  BY DEF WriteReturns
<1>3. k \in Nat
  BY <1>1, <1>2
<1> SUFFICES ASSUME NEW p \in Nodes, NEW i \in reorder'[p]
             PROVE  i - expected'[p] =< MaxReorder
  BY DEF HeldNear
<1>4. /\ i \in reorder[p] /\ i \in Nat /\ expected[p] \in Nat
      /\ expected'[p] = expected[p] \/ expected'[p] = expected[p] + k
  BY <1>1, <1>2 DEF OrderType
<1>5. i - expected[p] =< MaxReorder
  BY <1>4 DEF HeldNear
<1> QED BY <1>3, <1>4, <1>5, FlowAssumption

\* writeOrdered keeps at most maxTCPReorder chunks of a stream in memory.
ReorderBounded ==
  \A n \in Nodes : IsFiniteSet(reorder[n]) /\ Cardinality(reorder[n]) =< MaxReorder

\* The reorder map of a flow is bounded whatever the carriers do: a chunk is
\* stored only while it is at most maxTCPReorder ahead, and the awaited chunk
\* moves on only together with the chunks that it takes out of the map.
THEOREM ReorderStaysBounded == Spec => []ReorderBounded
<1>1. Init => HeldNear
  BY DEF Init, HeldNear, Nodes
<1>2. FlowInv /\ OrderInv /\ HeldNear /\ [Next]_vars => HeldNear'
  <2>1. SUFFICES ASSUME FlowInv, OrderInv, HeldNear, [Next]_vars PROVE HeldNear'
    OBVIOUS
  <2>2. CASE UNCHANGED vars
    BY <2>1, <2>2, HeldStutter DEF vars, recvVars
  <2>3. CASE \E n \in Nodes : WriteReturns(n)
    BY <2>1, <2>3, WriteReturnsHolds
  <2>4. CASE \E m \in net : m.type = "data" /\ ReceiveData(m.to, m.seq)
    BY <2>1, <2>4, ReceiveDataHolds
  <2>5. CASE Opening \/ Answering
    <3>1. UNCHANGED <<expected, reorder>>
      BY <2>5 DEF Opening, OpenCheck, OpenLocal, SendOpen, OpenAnswered, OpenTimesOut,
         OpenCancelled, Answering, Refuse, DialOK, Register, SendStatus, recvVars
    <3> QED BY <2>1, <3>1, HeldStutter
  <2>6. CASE \E n \in Nodes : Pump(n) \/ LoopExits(n) \/ CloseBegins(n) \/ Closing(n) \/ StopsReading(n)
    <3>1. UNCHANGED <<expected, reorder>>
      BY <2>6 DEF Pump, PumpReads, PumpSends, PumpEnds, LoopExits, CloseBegins, Closing,
         CloseSweeps, CloseManager, CloseReturnsNow, StopsReading, recvVars
    <3> QED BY <2>1, <3>1, HeldStutter
  <2>7. CASE \/ ReceiveOpen \/ (\E type : ReceiveStatus(type)) \/ (\E n : ReceiveClose(n))
             \/ \E m \in net : Lose(m)
    <3>1. UNCHANGED <<expected, reorder>>
      BY <2>7 DEF ReceiveOpen, ReceiveStatus, ReceiveClose, Lose, recvVars
    <3> QED BY <2>1, <3>1, HeldStutter
  <2> QED BY <2>1, <2>2, <2>3, <2>4, <2>5, <2>6, <2>7 DEF Next, Receive
<1>3. OrderInv /\ HeldNear => ReorderBounded
  <2> SUFFICES ASSUME OrderInv, HeldNear, NEW n \in Nodes
               PROVE  IsFiniteSet(reorder[n]) /\ Cardinality(reorder[n]) =< MaxReorder
    BY DEF ReorderBounded
  <2> DEFINE e == expected[n]
  <2>1. e \in Nat /\ MaxReorder \in Nat /\ reorder[n] \subseteq Nat
    BY FlowAssumption DEF OrderInv, OrderType
  <2>2. \A i \in reorder[n] : e < i /\ i - e =< MaxReorder
    BY DEF OrderInv, Numbered, HeldNear
  <2> HIDE DEF e
  <2>3. reorder[n] \in SUBSET (e + 1 .. e + MaxReorder)
    BY <2>1, <2>2
  <2>4. /\ IsFiniteSet(e + 1 .. e + MaxReorder)
        /\ Cardinality(e + 1 .. e + MaxReorder) =< MaxReorder
    <3> DEFINE lo == e + 1
    <3> DEFINE hi == e + MaxReorder
    <3>1. lo \in Int /\ hi \in Int /\ hi - lo + 1 = MaxReorder
      BY <2>1
    <3> HIDE DEF lo, hi
    <3>2. IsFiniteSet(lo .. hi) /\ Cardinality(lo .. hi) = IF lo > hi THEN 0 ELSE hi - lo + 1
      BY <3>1, FS_Interval
    <3>3. Cardinality(lo .. hi) =< MaxReorder
      BY <2>1, <3>1, <3>2
    <3> QED BY <3>2, <3>3 DEF lo, hi
  <2>5. IsFiniteSet(reorder[n]) /\ Cardinality(reorder[n]) =< Cardinality(e + 1 .. e + MaxReorder)
    BY <2>3, <2>4, FS_Subset
  <2>6. Cardinality(reorder[n]) \in Nat /\ Cardinality(e + 1 .. e + MaxReorder) \in Nat
    BY <2>4, <2>5, FS_CardinalityType
  <2> DEFINE held == Cardinality(reorder[n])
  <2> DEFINE room == Cardinality(e + 1 .. e + MaxReorder)
  <2>7. held \in Nat /\ room \in Nat /\ held =< room /\ room =< MaxReorder
    BY <2>4, <2>5, <2>6
  <2> HIDE DEF held, room
  <2>8. held =< MaxReorder
    BY <2>1, <2>7
  <2> QED BY <2>5, <2>8 DEF held
<1> QED BY <1>1, <1>2, <1>3, FlowInvariance, OrderInvariance, PTL DEF Spec
=============================================================================
