------------------------------- MODULE TcpFlow -------------------------------
(***************************************************************************)
(* One forwarded TCP connection of internal/app/app.go, from the entry     *)
(* node, where a client connected, to the exit node, which dials the       *)
(* service: openLocalTCP and handleOpenTCP, handleTCPStatus, pumpTCP,      *)
(* handleTCPData with writeOrdered, and closeTCP; the incomingLoop of each *)
(* node, which writes to the local connection itself and waits when its    *)
(* peer does not read; and App.Close.                                      *)
(*                                                                         *)
(* Messages travel through two carriers: a later one may overtake, and a   *)
(* carrier that fails may lose what it held.  isDuplicate lets a message   *)
(* through once while its identifier is in the window (module L3Path); a   *)
(* copy that comes later is modelled for stream data, which is numbered.   *)
(* Chunk i of a stream is abstracted to the number i.                      *)
(***************************************************************************)
EXTENDS Integers, Sequences, FiniteSets

CONSTANTS Plans,      \* bound of the model: how many chunks are read at each
                      \* node, where App.Close may be called, and where the
                      \* local peer may stop reading
          MaxReorder  \* maxTCPReorder

Nodes == {"entry", "exit"}
Peer(n) == IF n = "entry" THEN "exit" ELSE "entry"

ASSUME FlowAssumption ==
  /\ \A p \in Plans : p.chunks \in [Nodes -> Nat] /\ p.closers \cup p.deaf \subseteq Nodes
  /\ MaxReorder \in Nat

VARIABLES
  plan,      \* the plan of this behaviour, fixed
  conn,      \* tcpConns[connID] of each node: "none", "open" or "closed"
  opener,    \* openLocalTCP: "start", "insert", "send", "wait" or "end"
  ready,     \* state.ready, a channel of capacity one
  handler,   \* handleOpenTCP: "none", "dial", "insert", "status" or "end"
  pump,      \* pumpTCP of each node: "off", "read", "have" or "end"
  sendSeq,   \* chunks that got a sequence number, per node
  expected,  \* next chunk to write to the local connection, per node
  reorder,   \* chunks held back, per node
  written,   \* history: chunks written to the local connection, per node
  net,       \* messages on their way
  lost,      \* some message was lost
  loop,      \* incomingLoop of each node: "select", "write" or "exit"
  app,       \* App.Close of each node: "up", "closing", "swept", "waiting", "down"
  silent     \* nodes whose local peer has stopped reading

openVars == <<opener, ready, handler>>
flowVars == <<pump, sendSeq>>
recvVars == <<expected, reorder, written>>
nodeVars == <<plan, loop, app, silent>>
vars == <<conn, openVars, flowVars, recvVars, net, lost, nodeVars>>

Msg(n, type, seq) == [to |-> n, type |-> type, seq |-> seq]
Messages ==
  [to : Nodes, type : {"open", "ok", "refused", "close"}, seq : {0}]
    \cup UNION {[to : {Peer(n)}, type : {"data"}, seq : 1 .. p.chunks[n]] : n \in Nodes, p \in Plans}

Init ==
  /\ plan \in Plans
  /\ conn = [n \in Nodes |-> "none"]
  /\ opener = "start" /\ ready = "empty" /\ handler = "none"
  /\ pump = [n \in Nodes |-> "off"] /\ sendSeq = [n \in Nodes |-> 0]
  /\ expected = [n \in Nodes |-> 1] /\ reorder = [n \in Nodes |-> {}]
  /\ written = [n \in Nodes |-> <<>>]
  /\ net = {} /\ lost = FALSE
  /\ loop = [n \in Nodes |-> "select"] /\ app = [n \in Nodes |-> "up"] /\ silent = {}

\* manager.Close has closed every session, and no send succeeds after it.
Sends(n) == app[n] \notin {"waiting", "down"}

\* a.send fails exactly when no carrier takes the message; the caller then
\* goes on without it, which for the peer is a lost message.
SendOrNot(base, m) ==
  \/ Sends(Peer(m.to)) /\ net' = base \cup {m} /\ UNCHANGED lost
  \/ net' = base /\ lost' = TRUE

\* closeTCP on a flow in the map closes the connection and, with notify,
\* tells the peer; without an entry it does nothing.
CloseTCP(n, notify, base) ==
  /\ conn' = [conn EXCEPT ![n] = IF @ = "open" THEN "closed" ELSE @]
  /\ IF notify /\ conn[n] = "open"
       THEN SendOrNot(base, Msg(Peer(n), "close", 0))
       ELSE net' = base /\ UNCHANGED lost

-----------------------------------------------------------------------------
(* Opening.                                                                *)

\* The closed check and uniqueTCPID, which fails at the connection limit.
OpenCheck ==
  /\ opener = "start"
  /\ \/ app["entry"] = "up" /\ opener' = "insert"
     \/ opener' = "end"
  /\ UNCHANGED <<conn, ready, handler, flowVars, recvVars, net, lost, nodeVars>>

\* The flow enters the map; closed is not checked again.
OpenLocal ==
  /\ opener = "insert"
  /\ conn' = [conn EXCEPT !["entry"] = "open"]
  /\ opener' = "send"
  /\ UNCHANGED <<ready, handler, flowVars, recvVars, net, lost, nodeVars>>

SendOpen ==
  /\ opener = "send"
  /\ \/ /\ Sends("entry")
        /\ net' = net \cup {Msg("exit", "open", 0)}
        /\ opener' = "wait"
        /\ UNCHANGED <<conn, lost>>
     \/ /\ CloseTCP("entry", FALSE, net)
        /\ opener' = "end"
  /\ UNCHANGED <<ready, handler, flowVars, recvVars, nodeVars>>

\* The exit answered: the pump starts, or the flow is closed.
OpenAnswered ==
  /\ opener = "wait" /\ ready # "empty"
  /\ \/ /\ ready = "ok"
        /\ pump' = [pump EXCEPT !["entry"] = "read"]
        /\ UNCHANGED <<conn, net, lost>>
     \/ /\ ready = "refused"
        /\ CloseTCP("entry", FALSE, net)
        /\ UNCHANGED pump
  /\ opener' = "end" /\ ready' = "empty"
  /\ UNCHANGED <<handler, sendSeq, recvVars, nodeVars>>

\* The twelve second timer fires first.
OpenTimesOut ==
  /\ opener = "wait"
  /\ CloseTCP("entry", TRUE, net)
  /\ opener' = "end"
  /\ UNCHANGED <<ready, handler, flowVars, recvVars, nodeVars>>

\* The context is cancelled.
OpenCancelled ==
  /\ opener = "wait" /\ app["entry"] # "up"
  /\ CloseTCP("entry", FALSE, net)
  /\ opener' = "end"
  /\ UNCHANGED <<ready, handler, flowVars, recvVars, nodeVars>>

\* The flow limit, the allowlist, or a failed dial: an error status.
Refuse ==
  /\ handler = "dial"
  /\ SendOrNot(net, Msg("entry", "refused", 0))
  /\ handler' = "end"
  /\ UNCHANGED <<conn, opener, ready, flowVars, recvVars, nodeVars>>

\* The dial succeeds; a node that is closing drops the connection, or has
\* not even dialled.
DialOK ==
  /\ handler = "dial"
  /\ handler' = IF app["exit"] = "up" THEN "insert" ELSE "end"
  /\ UNCHANGED <<conn, opener, ready, flowVars, recvVars, net, lost, nodeVars>>

\* Mutant: the status goes out before the flow is in the map.
RegisterLate ==
  /\ handler = "insert"
  /\ SendOrNot(net, Msg("entry", "ok", 0))
  /\ handler' = "status"
  /\ UNCHANGED <<conn, opener, ready, flowVars, recvVars, nodeVars>>

Register ==
  /\ handler = "insert"
  /\ conn' = [conn EXCEPT !["exit"] = "open"]
  /\ handler' = "status"
  /\ UNCHANGED <<opener, ready, flowVars, recvVars, net, lost, nodeVars>>

SendStatus ==
  /\ handler = "status"
  /\ \/ /\ Sends("exit")
        /\ net' = net \cup {Msg("entry", "ok", 0)}
        /\ pump' = [pump EXCEPT !["exit"] = "read"]
        /\ UNCHANGED <<conn, lost>>
     \/ /\ conn' = [conn EXCEPT !["exit"] = "closed"]
        /\ lost' = TRUE
        /\ UNCHANGED <<net, pump>>
  /\ handler' = "end"
  /\ UNCHANGED <<opener, ready, sendSeq, recvVars, nodeVars>>

-----------------------------------------------------------------------------
(* pumpTCP.                                                                *)

PumpTo(n, where) == pump' = [pump EXCEPT ![n] = where]

PumpReads(n) ==
  /\ pump[n] = "read" /\ conn[n] = "open" /\ sendSeq[n] < plan.chunks[n]
  /\ PumpTo(n, "have")
  /\ UNCHANGED <<conn, openVars, sendSeq, recvVars, net, lost, nodeVars>>

\* A chunk is numbered and sent; if that fails the pump ends.
PumpSends(n) ==
  /\ pump[n] = "have"
  /\ sendSeq' = [sendSeq EXCEPT ![n] = @ + 1]
  /\ \/ /\ Sends(n)
        /\ net' = net \cup {Msg(Peer(n), "data", sendSeq'[n])}
        /\ PumpTo(n, "read")
        /\ UNCHANGED <<conn, lost>>
     \/ /\ CloseTCP(n, TRUE, net)
        /\ PumpTo(n, "end")
  /\ UNCHANGED <<openVars, recvVars, nodeVars>>

\* Mutant: the peer is not told.
PumpEndsQuietly(n) ==
  /\ pump[n] = "read"
  /\ CloseTCP(n, FALSE, net)
  /\ PumpTo(n, "end")
  /\ UNCHANGED <<openVars, sendSeq, recvVars, nodeVars>>

\* Read returns EOF or an error; at the latest when the connection closed.
PumpEnds(n) ==
  /\ pump[n] = "read"
  /\ CloseTCP(n, TRUE, net)
  /\ PumpTo(n, "end")
  /\ UNCHANGED <<openVars, sendSeq, recvVars, nodeVars>>

Pump(n) == PumpReads(n) \/ PumpSends(n) \/ PumpEnds(n)

-----------------------------------------------------------------------------
(* handleMessage, run by the incomingLoop of each node: the next message   *)
(* waits while this one is handled.                                        *)

ReceiveOpen ==
  /\ loop["exit"] = "select" /\ Msg("exit", "open", 0) \in net
  /\ net' = net \ {Msg("exit", "open", 0)}
  /\ handler' = "dial"
  /\ UNCHANGED <<conn, opener, ready, flowVars, recvVars, lost, nodeVars>>

\* handleTCPStatus: ready takes one answer, and only while the flow is there.
ReceiveStatus(type) ==
  /\ loop["entry"] = "select" /\ Msg("entry", type, 0) \in net /\ type \in {"ok", "refused"}
  /\ net' = net \ {Msg("entry", type, 0)}
  /\ ready' = IF conn["entry"] = "open" /\ ready = "empty" THEN type ELSE ready
  /\ UNCHANGED <<conn, opener, handler, flowVars, recvVars, lost, nodeVars>>

ReceiveClose(n) ==
  /\ loop[n] = "select" /\ Msg(n, "close", 0) \in net
  /\ CloseTCP(n, FALSE, net \ {Msg(n, "close", 0)})
  /\ UNCHANGED <<openVars, flowVars, recvVars, nodeVars>>

\* The chunks writeOrdered can write once seq is there: seq itself and the
\* run that follows it in the reorder map.
Run(n, seq) ==
  {i \in {seq} \cup reorder[n] : i >= seq /\ \A j \in seq .. i : j \in {seq} \cup reorder[n]}

\* Data for a flow that is not in the map is answered with a close.
DataUnknown(n, seq, base) ==
  /\ conn[n] # "open"
  /\ SendOrNot(base, Msg(Peer(n), "close", 0))
  /\ UNCHANGED <<conn, recvVars, nodeVars>>

DataOld(n, seq, base) ==
  /\ conn[n] = "open" /\ seq < expected[n]
  /\ net' = base
  /\ UNCHANGED <<conn, recvVars, lost, nodeVars>>

DataBeyond(n, seq, base) ==
  /\ conn[n] = "open" /\ seq - expected[n] > MaxReorder
  /\ CloseTCP(n, TRUE, base)
  /\ UNCHANGED <<recvVars, nodeVars>>

\* Mutant: a chunk that is ahead is dropped.
DataAheadForgets(n, seq, base) ==
  /\ conn[n] = "open" /\ seq > expected[n] /\ seq - expected[n] =< MaxReorder
  /\ net' = base
  /\ UNCHANGED <<conn, recvVars, lost, nodeVars>>

DataAhead(n, seq, base) ==
  /\ conn[n] = "open" /\ seq > expected[n] /\ seq - expected[n] =< MaxReorder
  /\ reorder' = [reorder EXCEPT ![n] = @ \cup {seq}]
  /\ net' = base
  /\ UNCHANGED <<conn, expected, written, lost, nodeVars>>

\* Mutant: a chunk that is ahead is written as well.
DataWritesAny(n, seq, base) ==
  /\ conn[n] = "open" /\ seq >= expected[n]
  /\ expected' = [expected EXCEPT ![n] = seq]
  /\ loop' = [loop EXCEPT ![n] = "write"]
  /\ net' = base
  /\ UNCHANGED <<conn, reorder, written, lost, plan, app, silent>>

\* The awaited chunk goes to the local connection, which may take its time.
DataWrites(n, seq, base) ==
  /\ conn[n] = "open" /\ seq = expected[n]
  /\ loop' = [loop EXCEPT ![n] = "write"]
  /\ net' = base
  /\ UNCHANGED <<conn, recvVars, lost, plan, app, silent>>

\* The awaited chunk and the run after it are written; a write that fails,
\* as it does once the connection is closed, leaves the chunks before it
\* written and closes the flow.
WriteReturns(n) ==
  LET run == Run(n, expected[n]) IN
    /\ loop[n] = "write"
    /\ loop' = [loop EXCEPT ![n] = "select"]
    /\ \E k \in 0 .. Cardinality(run) :
         /\ written' = [written EXCEPT ![n] = @ \o [i \in 1 .. k |-> expected[n] + i - 1]]
         /\ expected' = [expected EXCEPT ![n] = @ + k]
         /\ reorder' = [reorder EXCEPT ![n] = @ \ (expected[n] .. expected[n] + k)]
         /\ IF k = Cardinality(run)
              THEN UNCHANGED <<conn, net, lost>>
              ELSE CloseTCP(n, TRUE, net)
    /\ UNCHANGED <<openVars, flowVars, plan, app, silent>>

\* handleTCPData; the copy that may stay behind is the late duplicate.
ReceiveData(n, seq) ==
  LET m == Msg(n, "data", seq) IN
    /\ loop[n] = "select" /\ m \in net
    /\ \E base \in {net, net \ {m}} :
         \/ DataUnknown(n, seq, base) \/ DataOld(n, seq, base) \/ DataBeyond(n, seq, base)
         \/ DataAhead(n, seq, base) \/ DataWrites(n, seq, base)
    /\ UNCHANGED <<openVars, flowVars>>

Receive(m) ==
  \/ ReceiveOpen /\ m.type = "open"
  \/ m.to = "entry" /\ ReceiveStatus(m.type)
  \/ m.type = "close" /\ ReceiveClose(m.to)
  \/ m.type = "data" /\ ReceiveData(m.to, m.seq)

\* A carrier fails with the message still in it.
Lose(m) ==
  /\ m \in net
  /\ net' = net \ {m} /\ lost' = TRUE
  /\ UNCHANGED <<conn, openVars, flowVars, recvVars, nodeVars>>

-----------------------------------------------------------------------------
(* App.Close, and the local peers.                                         *)

CloseTo(n, from, to) == app[n] = from /\ app' = [app EXCEPT ![n] = to]

\* closed is set and the context cancelled.
CloseBegins(n) ==
  /\ n \in plan.closers /\ CloseTo(n, "up", "closing")
  /\ UNCHANGED <<conn, openVars, flowVars, recvVars, net, lost, plan, loop, silent>>

\* Mutant: the loops are waited for before the connections are closed.
CloseSweepsLast(n) ==
  /\ loop[n] = "exit" /\ CloseTo(n, "closing", "swept")
  /\ conn' = [conn EXCEPT ![n] = IF @ = "open" THEN "closed" ELSE @]
  /\ UNCHANGED <<openVars, flowVars, recvVars, net, lost, plan, loop, silent>>

\* Every flow in the map is closed and deleted; the peer is not told.
CloseSweeps(n) ==
  /\ CloseTo(n, "closing", "swept")
  /\ conn' = [conn EXCEPT ![n] = IF @ = "open" THEN "closed" ELSE @]
  /\ UNCHANGED <<openVars, flowVars, recvVars, net, lost, plan, loop, silent>>

CloseManager(n) ==
  /\ CloseTo(n, "swept", "waiting")
  /\ UNCHANGED <<conn, openVars, flowVars, recvVars, net, lost, plan, loop, silent>>

\* incomingLoop's select may take any number of messages before ctx.Done.
LoopExits(n) ==
  /\ loop[n] = "select" /\ app[n] # "up"
  /\ loop' = [loop EXCEPT ![n] = "exit"]
  /\ UNCHANGED <<conn, openVars, flowVars, recvVars, net, lost, plan, app, silent>>

\* wg.Wait returns; the goroutines of single flows are not in the group.
CloseReturnsNow(n) ==
  /\ loop[n] = "exit" /\ CloseTo(n, "waiting", "down")
  /\ UNCHANGED <<conn, openVars, flowVars, recvVars, net, lost, plan, loop, silent>>

Closing(n) == CloseSweeps(n) \/ CloseManager(n) \/ CloseReturnsNow(n)

\* The client or the service stops reading.
StopsReading(n) ==
  /\ n \in plan.deaf \ silent /\ silent' = silent \cup {n}
  /\ UNCHANGED <<conn, openVars, flowVars, recvVars, net, lost, plan, loop, app>>

-----------------------------------------------------------------------------
Opening == OpenCheck \/ OpenLocal \/ SendOpen \/ OpenAnswered \/ OpenTimesOut \/ OpenCancelled
Answering == Refuse \/ DialOK \/ Register \/ SendStatus

Next ==
  \/ Opening \/ Answering
  \/ \E n \in Nodes : Pump(n) \/ WriteReturns(n) \/ LoopExits(n)
  \/ \E n \in Nodes : CloseBegins(n) \/ Closing(n) \/ StopsReading(n)
  \/ \E m \in net : Receive(m) \/ Lose(m)

Spec == Init /\ [][Next]_vars

\* Goroutines run, a pump whose connection is closed gets its read error, and
\* the carriers deliver what they do not lose.  A write returns once the
\* connection is closed, or if the local peer reads.
Fairness ==
  /\ WF_vars(Opening) /\ WF_vars(Answering)
  /\ \A n \in Nodes :
       /\ WF_vars(PumpSends(n)) /\ WF_vars(conn[n] = "closed" /\ PumpEnds(n))
       /\ WF_vars((conn[n] = "closed" \/ n \notin silent) /\ WriteReturns(n))
       /\ WF_vars(Closing(n)) /\ WF_vars(LoopExits(n))
       /\ WF_vars(\E m \in net : m.to = n /\ Receive(m) /\ m \notin net')

FairSpec == Spec /\ Fairness

-----------------------------------------------------------------------------
(* Properties.                                                             *)

\* "Stream byte order remains correct if the carrier changes during a flow":
\* in both directions the local connection is given the chunks the peer
\* numbered, in order, without gap or duplicate.
StreamsInOrder ==
  \A n \in Nodes :
    Len(written[n]) =< sendSeq[Peer(n)] /\ \A i \in 1 .. Len(written[n]) : written[n][i] = i

\* A chunk never overtakes the opening of its flow, so that handleTCPData
\* does not answer the first chunk of a healthy flow with a close.
DataFindsFlow ==
  \A m \in net : m.type = "data" => conn[m.to] # "none"

\* A node is closing, or the local peer of one does not read, and with that
\* its incomingLoop waits.
Hindered == silent # {} \/ \E n \in Nodes : app[n] # "up"

\* Once both ends were set up, the end of one ends the other, unless a
\* carrier lost a message or no carrier took it.
EndsTogether ==
  \A n \in Nodes :
    (conn[n] = "closed" /\ conn[Peer(n)] = "open" /\ pump["entry"] # "off" /\ ~lost)
      ~> (conn[Peer(n)] = "closed" \/ lost \/ Hindered)

\* A numbered chunk is written, unless the flow ends or a message is lost.
ChunksArrive ==
  \A m \in {q \in Messages : q.type = "data"} :
    (sendSeq[Peer(m.to)] >= m.seq)
      ~> (Len(written[m.to]) >= m.seq \/ lost \/ Hindered \/ \E n \in Nodes : conn[n] = "closed")

\* App.Close returns although a local peer has stopped reading and
\* incomingLoop is stuck in a write to it, unless a flow got into the map
\* after Close had emptied it.
CloseReturns ==
  \A n \in Nodes :
    app[n] = "closing" ~> (app[n] = "down" \/ (app[n] \in {"swept", "waiting"} /\ conn[n] = "open"))
=============================================================================
