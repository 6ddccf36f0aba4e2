---------------------------- MODULE ManagerProofs ----------------------------
(* The manager's map of sessions, for every number of sessions, senders and *)
(* handshakes and every configuration validateTransport accepts.            *)
EXTENDS Manager, FiniteSetTheorems, TLAPS

\* Where the callers of Send are.
SendType ==
  /\ turn \in [Senders -> 1 .. 2] /\ \A w \in Senders : turn[w] =< Len(Order)
  /\ held \in [Senders -> 0 .. MaxSess] /\ removing \subseteq Senders

\* The part of the type that the map's invariants rest on.
MapType ==
  /\ mode \in Kinds \cup {"both"} /\ prefer \in Kinds
  /\ made \in 0 .. MaxSess /\ kindOf \in [Ids -> Kinds] /\ open \subseteq Ids
  /\ sessions \in [Kinds -> 0 .. MaxSess] /\ old \in [Ids -> 0 .. MaxSess]
  /\ stage \in [Ids -> {"none", "new", "swap", "run", "hold", "end"}]
  /\ SendType

\* Sessions not made yet are nowhere.
Unmade ==
  /\ open \subseteq 1 .. made /\ \A k \in Kinds : sessions[k] =< made
  /\ \A id \in Ids : id > made => stage[id] = "none"

ManagerInv == MapType /\ Unmade /\ EmptyAfterClose /\ OpenIsReachable

\* A caller about to close a session stays so, until the session is closed.
StillRemoving == \A w \in removing : held[w] \in open' => w \in removing' /\ held'[w] = held[w]

\* Send's list of carriers: one, or the preferred one and the standby.
LEMMA OrderOfCarriers ==
  ASSUME mode \in Kinds \cup {"both"}, prefer \in Kinds
  PROVE  Len(Order) \in 1 .. 2 /\ \A i \in 1 .. Len(Order) : Order[i] \in Kinds
BY DEF Order, Other, Kinds

\* An empty map at the start.
LEMMA ManagerInit == Init => ManagerInv
<1> SUFFICES ASSUME Init PROVE ManagerInv
  OBVIOUS
<1>1. mode \in Kinds \cup {"both"} /\ prefer \in Kinds
  BY ManagerAssumption DEF Init, ValidTransport, Kinds
<1>2. Len(Order) \in 1 .. 2
  BY <1>1, OrderOfCarriers
<1>3. MapType
  <2>1. /\ kindOf \in [Ids -> Kinds]
        /\ stage \in [Ids -> {"none", "new", "swap", "run", "hold", "end"}]
    BY DEF Init, Kinds
  <2>2. made \in 0 .. MaxSess /\ sessions \in [Kinds -> 0 .. MaxSess] /\ old \in [Ids -> 0 .. MaxSess]
    BY ManagerAssumption DEF Init
  <2>3. SendType
    <3>1. turn = [w \in Senders |-> 1] /\ held = [w \in Senders |-> 0] /\ removing = {}
      BY DEF Init
    <3>2. 1 =< Len(Order) /\ 0 \in 0 .. MaxSess
      BY <1>2, ManagerAssumption
    <3> QED BY <3>1, <3>2 DEF SendType
  <2> QED BY <1>1, <2>1, <2>2, <2>3 DEF Init, MapType
<1>4. Unmade /\ EmptyAfterClose /\ OpenIsReachable
  BY ManagerAssumption DEF Init, Unmade, EmptyAfterClose, OpenIsReachable
<1> QED BY <1>3, <1>4 DEF ManagerInv

\* A new session is open and still to be added.
LEMMA MakeStep ==
  ASSUME ManagerInv, NEW k \in Kinds, MakeSession(k), UNCHANGED <<config, sendVars, closer>>
  PROVE  ManagerInv'
<1> USE DEF ManagerInv
<1>1. /\ UNCHANGED <<mode, prefer, sendVars, sessions, old, closer>>
      /\ made < MaxSess /\ made' = made + 1 /\ open' = open \cup {made'}
      /\ kindOf' = [kindOf EXCEPT ![made'] = k]
      /\ stage' = [stage EXCEPT ![made'] = "new"]
  BY DEF MakeSession, config
<1>2. made \in Nat /\ MaxSess \in Nat
  BY ManagerAssumption DEF MapType
<1>3. made' \in Ids /\ \A id \in Ids : id =< made => id # made'
  BY <1>1, <1>2 DEF Ids
<1>4. MapType'
  BY <1>1, <1>2, <1>3 DEF MapType, SendType, sendVars, Ids, Order, Other
<1>5. Unmade'
  <2>1. open' \subseteq 1 .. made'
    BY <1>1, <1>2 DEF Unmade
  <2>2. \A j \in Kinds : sessions'[j] =< made'
    BY <1>1, <1>2 DEF Unmade, MapType
  <2>3. \A id \in Ids : id > made' => stage'[id] = "none"
    BY <1>1, <1>2, <1>3 DEF Unmade, MapType, Ids
  <2> QED BY <2>1, <2>2, <2>3 DEF Unmade
<1>6. EmptyAfterClose'
  BY <1>1 DEF EmptyAfterClose
<1>7. OpenIsReachable'
  <2> SUFFICES ASSUME NEW id \in open'
               PROVE  \/ stage'[id] = "new" \/ sessions'[kindOf'[id]] = id
                      \/ \E j \in Ids : stage'[j] = "swap" /\ old'[j] = id
                      \/ \E w \in removing' : held'[w] = id
    BY DEF OpenIsReachable
  <2>1. CASE id = made'
    BY <1>1, <1>3, <2>1 DEF MapType
  <2>2. CASE id \in open /\ id # made'
    <3>1. stage'[id] = stage[id] /\ kindOf'[id] = kindOf[id]
      BY <1>1, <2>2 DEF MapType
    <3>2. stage[made'] = "none"
      BY <1>1, <1>2, <1>3 DEF Unmade
    <3>3. \A j \in Ids : stage[j] = "swap" => stage'[j] = "swap"
      BY <1>1, <3>2 DEF MapType
    <3> QED BY <1>1, <2>2, <3>1, <3>3 DEF OpenIsReachable, sendVars
  <2> QED BY <1>1, <2>1, <2>2
<1> QED BY <1>4, <1>5, <1>6, <1>7

\* addSession swaps the entry of the session's carrier.
LEMMA AddStep ==
  ASSUME ManagerInv, NEW i \in Ids, AddSession(i)
  PROVE  ManagerInv'
<1> USE DEF ManagerInv
<1>1. /\ UNCHANGED <<mode, prefer, sendVars, made, kindOf, closer>> /\ stage[i] = "new"
  BY DEF AddSession, config
<1>2. i =< made /\ i \in 0 .. MaxSess /\ made \in Nat
  BY <1>1, ManagerAssumption DEF Unmade, MapType, Ids
<1>3. CASE Cancelled
  <2>1. open' = open \ {i} /\ stage' = [stage EXCEPT ![i] = "end"] /\ UNCHANGED <<sessions, old>>
    BY <1>3 DEF AddSession
  <2>2. MapType' /\ Unmade' /\ EmptyAfterClose'
    BY <1>1, <1>2, <2>1 DEF MapType, SendType, sendVars, Unmade, EmptyAfterClose, Order, Other, Ids
  <2>3. OpenIsReachable'
    BY <1>1, <2>1 DEF OpenIsReachable, MapType, sendVars
  <2> QED BY <2>2, <2>3
<1>4. CASE ~Cancelled
  <2>1. /\ old' = [old EXCEPT ![i] = sessions[kindOf[i]]]
        /\ sessions' = [sessions EXCEPT ![kindOf[i]] = i]
        /\ stage' = [stage EXCEPT ![i] = "swap"] /\ open' = open
    BY <1>4 DEF AddSession
  <2>2. kindOf[i] \in Kinds
    BY DEF MapType
  <2>3. MapType'
    BY <1>1, <1>2, <2>1, <2>2 DEF MapType, SendType, sendVars, Order, Other
  <2>4. Unmade' /\ EmptyAfterClose'
    BY <1>1, <1>2, <1>4, <2>1, <2>2 DEF MapType, Unmade, EmptyAfterClose, Cancelled, Ids
  <2>5. OpenIsReachable'
    <3> SUFFICES ASSUME NEW id \in open
                 PROVE  \/ stage'[id] = "new" \/ sessions'[kindOf[id]] = id
                        \/ \E j \in Ids : stage'[j] = "swap" /\ old'[j] = id
                        \/ \E w \in removing : held[w] = id
      BY <1>1, <2>1 DEF OpenIsReachable, sendVars
    <3>1. CASE id = i
      BY <2>1, <2>2, <3>1 DEF MapType
    <3>2. CASE id # i /\ stage[id] = "new"
      BY <2>1, <3>2 DEF MapType
    <3>3. CASE id # i /\ sessions[kindOf[id]] = id
      <4>1. id \in Ids /\ kindOf[id] \in Kinds
        BY DEF MapType
      <4>2. CASE kindOf[id] = kindOf[i]
        BY <2>1, <3>3, <4>2 DEF MapType
      <4>3. CASE kindOf[id] # kindOf[i]
        BY <2>1, <3>3, <4>1, <4>3 DEF MapType
      <4> QED BY <4>2, <4>3
    <3>4. CASE \E j \in Ids : stage[j] = "swap" /\ old[j] = id
      BY <1>1, <2>1, <3>4 DEF MapType
    <3> QED BY <3>1, <3>2, <3>3, <3>4 DEF OpenIsReachable
  <2> QED BY <2>3, <2>4, <2>5
<1> QED BY <1>3, <1>4

\* A session's stage moves on past addSession.
Running ==
  \/ stage' = stage
  \/ \E i \in Ids : /\ stage[i] \in {"run", "hold"}
                    /\ \E s \in {"run", "hold", "end"} : stage' = [stage EXCEPT ![i] = s]

\* Sessions end and the goroutines around the map move on: the map stays.
LEMMA QuietStep ==
  ASSUME ManagerInv, Running, open' \subseteq open,
         UNCHANGED <<mode, prefer, made, kindOf, sessions, old>>, SendType', StillRemoving,
         closer' \in {"closers", "wait", "done"} => closer \in {"closers", "wait", "done"}
  PROVE  ManagerInv'
<1> USE DEF ManagerInv
<1>1. \A j \in Ids : /\ stage[j] \in {"none", "new", "swap"} => stage'[j] = stage[j]
                     /\ stage'[j] \in {"none", "new", "swap", "run", "hold", "end"}
  BY DEF Running, MapType
<1>2. stage' \in [Ids -> {"none", "new", "swap", "run", "hold", "end"}]
  BY DEF Running, MapType
<1>3. MapType'
  BY <1>2 DEF MapType
<1>4. Unmade' /\ EmptyAfterClose'
  BY <1>1 DEF Unmade, EmptyAfterClose
<1>5. OpenIsReachable'
  <2> SUFFICES ASSUME NEW id \in open'
               PROVE  \/ stage'[id] = "new" \/ sessions'[kindOf'[id]] = id
                      \/ \E j \in Ids : stage'[j] = "swap" /\ old'[j] = id
                      \/ \E w \in removing' : held'[w] = id
    BY DEF OpenIsReachable
  <2>1. CASE \E w \in removing : held[w] = id
    BY <2>1 DEF StillRemoving
  <2>2. CASE stage[id] = "new" \/ sessions[kindOf[id]] = id \/ \E j \in Ids : stage[j] = "swap" /\ old[j] = id
    BY <1>1, <2>2 DEF MapType
  <2> QED BY <2>1, <2>2 DEF OpenIsReachable
<1> QED BY <1>3, <1>4, <1>5

\* A session leaves its entry, closed or about to be closed by a caller of
\* Send.
LEMMA RemoveStep ==
  ASSUME ManagerInv, Running, NEW k \in Kinds, NEW s, RemoveSession(k, s),
         UNCHANGED <<mode, prefer, made, kindOf, open, old, closer>>, SendType', StillRemoving,
         s \in open => \E w \in removing' : held'[w] = s
  PROVE  ManagerInv'
<1> USE DEF ManagerInv
<1>1. \A j \in Ids : /\ stage[j] \in {"none", "new", "swap"} => stage'[j] = stage[j]
                     /\ stage'[j] \in {"none", "new", "swap", "run", "hold", "end"}
  BY DEF Running, MapType
<1>2. stage' \in [Ids -> {"none", "new", "swap", "run", "hold", "end"}]
  BY DEF Running, MapType
<1>3. sessions' = IF sessions[k] = s THEN [sessions EXCEPT ![k] = 0] ELSE sessions
  BY DEF RemoveSession
<1>4. /\ sessions' \in [Kinds -> 0 .. MaxSess]
      /\ \A j \in Kinds : sessions'[j] = sessions[j] \/ (sessions[j] = s /\ sessions'[j] = 0)
  BY <1>3, ManagerAssumption DEF MapType
<1>5. MapType'
  BY <1>2, <1>4 DEF MapType
<1>6. Unmade' /\ EmptyAfterClose'
  <2>1. made \in Nat /\ made' = made /\ open' = open
    BY ManagerAssumption DEF MapType
  <2>2. \A j \in Kinds : sessions'[j] =< made'
    BY <1>4, <2>1 DEF Unmade
  <2>3. \A id \in Ids : id > made' => stage'[id] = "none"
    BY <1>1, <2>1 DEF Unmade
  <2>4. EmptyAfterClose'
    BY <1>4 DEF EmptyAfterClose
  <2> QED BY <2>1, <2>2, <2>3, <2>4 DEF Unmade
<1>7. OpenIsReachable'
  <2> SUFFICES ASSUME NEW id \in open
               PROVE  \/ stage'[id] = "new" \/ sessions'[kindOf[id]] = id
                      \/ \E j \in Ids : stage'[j] = "swap" /\ old[j] = id
                      \/ \E w \in removing' : held'[w] = id
    BY DEF OpenIsReachable
  <2>1. CASE \E w \in removing : held[w] = id
    BY <2>1 DEF StillRemoving
  <2>2. CASE stage[id] = "new" \/ \E j \in Ids : stage[j] = "swap" /\ old[j] = id
    BY <1>1, <2>2 DEF MapType
  <2>3. CASE sessions[kindOf[id]] = id
    <3>1. kindOf[id] \in Kinds
      BY DEF MapType
    <3> QED BY <1>4, <2>3, <3>1
  <2> QED BY <2>1, <2>2, <2>3 DEF OpenIsReachable
<1> QED BY <1>5, <1>6, <1>7

\* The replaced session is closed, and nobody has to reach it any more.
LEMMA CloseOldStep ==
  ASSUME ManagerInv, NEW i \in Ids, CloseOld(i)
  PROVE  ManagerInv'
<1> USE DEF ManagerInv
<1>1. /\ UNCHANGED <<mode, prefer, sendVars, made, kindOf, sessions, closer>>
      /\ stage[i] = "swap" /\ open' = open \ {old[i]}
      /\ old' = [old EXCEPT ![i] = 0] /\ stage' = [stage EXCEPT ![i] = "run"]
  BY DEF CloseOld, config
<1>2. MapType'
  BY <1>1, ManagerAssumption DEF MapType, SendType, sendVars, Order, Other
<1>3. Unmade' /\ EmptyAfterClose'
  BY <1>1 DEF Unmade, EmptyAfterClose, MapType
<1>4. OpenIsReachable'
  BY <1>1 DEF OpenIsReachable, MapType, sendVars
<1> QED BY <1>2, <1>3, <1>4

\* Close empties the map and closes what was in it.
LEMMA CloseSessionsStep ==
  ASSUME ManagerInv, CloseSessions
  PROVE  ManagerInv'
<1> USE DEF ManagerInv
<1>1. /\ UNCHANGED <<mode, prefer, sendVars, made, kindOf, stage, old>>
      /\ open' = open \ {sessions[k] : k \in Kinds} /\ sessions' = [k \in Kinds |-> 0]
  BY DEF CloseSessions, config
<1>2. MapType'
  BY <1>1, ManagerAssumption DEF MapType, SendType, sendVars, Order, Other
<1>3. Unmade' /\ EmptyAfterClose'
  <2>1. made \in Nat
    BY ManagerAssumption DEF MapType
  <2>2. \A j \in Kinds : sessions'[j] = 0
    BY <1>1
  <2>3. open' \subseteq open /\ made' = made /\ stage' = stage
    BY <1>1
  <2>4. Unmade'
    BY <2>1, <2>2, <2>3 DEF Unmade
  <2>5. EmptyAfterClose'
    BY <2>2 DEF EmptyAfterClose
  <2> QED BY <2>4, <2>5
<1>4. OpenIsReachable'
  BY <1>1 DEF OpenIsReachable, MapType, sendVars
<1> QED BY <1>2, <1>3, <1>4

\* Send stays within its list of carriers.
LEMMA TurnInOrder ==
  ASSUME MapType, NEW w \in Senders, Return(w) \/ NextCarrier(w) \/ UNCHANGED turn
  PROVE  turn' \in [Senders -> 1 .. 2] /\ \A v \in Senders : turn'[v] =< Len(Order)
<1>1. Len(Order) \in 1 .. 2
  BY OrderOfCarriers DEF MapType
<1>2. turn[w] \in 1 .. 2
  BY DEF MapType, SendType
<1>3. (turn[w] % Len(Order)) + 1 \in 1 .. Len(Order)
  <2>1. CASE Len(Order) = 1
    BY <1>2, <2>1
  <2>2. CASE Len(Order) = 2
    BY <1>2, <2>2
  <2> QED BY <1>1, <2>1, <2>2
<1>4. PICK t \in 1 .. Len(Order) : turn' = [turn EXCEPT ![w] = t] \/ turn' = turn
  BY <1>1, <1>3 DEF Return, NextCarrier
<1>5. t \in 1 .. 2 /\ t =< Len(Order)
  <2>1. CASE Len(Order) = 1
    BY <2>1
  <2>2. CASE Len(Order) = 2
    BY <2>2
  <2> QED BY <1>1, <2>1, <2>2
<1>6. \A v \in Senders : turn'[v] = turn[v] \/ turn'[v] = t
  BY <1>4 DEF MapType, SendType
<1> QED BY <1>4, <1>5, <1>6 DEF MapType, SendType

\* Where a caller of Send is after each of its steps.
LEMMA SendMoves ==
  ASSUME MapType, open' \subseteq open, UNCHANGED <<mode, prefer>>, NEW w \in Senders, Send(w)
  PROVE  SendType' /\ StillRemoving
<1>0. /\ held \in [Senders -> 0 .. MaxSess] /\ removing \subseteq Senders /\ 0 \in 0 .. MaxSess
      /\ Order' = Order /\ turn[w] \in 1 .. 2 /\ turn[w] =< Len(Order)
  BY ManagerAssumption DEF MapType, SendType, Order, Other
<1>1. turn' \in [Senders -> 1 .. 2] /\ \A v \in Senders : turn'[v] =< Len(Order)
  BY TurnInOrder DEF Send, Lookup, TryOK, TryFails, CloseFailed
<1>2. PICK s \in 0 .. MaxSess : held' = [held EXCEPT ![w] = s] \/ held' = held
  <2>1. CASE Lookup(w)
    <3>1. turn[w] \in 1 .. Len(Order)
      <4>1. Len(Order) \in 1 .. 2
        BY OrderOfCarriers DEF MapType
      <4>2. CASE Len(Order) = 1
        BY <1>0, <4>2
      <4>3. CASE Len(Order) = 2
        BY <1>0, <4>3
      <4> QED BY <4>1, <4>2, <4>3
    <3>2. sessions[Order[turn[w]]] \in 0 .. MaxSess
      BY <3>1, OrderOfCarriers DEF MapType
    <3> QED BY <1>0, <2>1, <3>2 DEF Lookup, NextCarrier
  <2>2. CASE TryOK(w) \/ TryFails(w) \/ CloseFailed(w)
    BY <1>0, <2>2 DEF TryOK, TryFails, CloseFailed, Return, NextCarrier
  <2> QED BY <2>1, <2>2 DEF Send
<1>3. removing' \subseteq Senders
  BY <1>0 DEF Send, Lookup, TryOK, TryFails, CloseFailed, Return
<1>4. SendType'
  BY <1>0, <1>1, <1>2, <1>3 DEF SendType
<1>5. \A v \in Senders \ {w} : held'[v] = held[v] /\ (v \in removing => v \in removing')
  BY <1>0, <1>2 DEF Send, Lookup, TryOK, TryFails, CloseFailed, Return
<1>6. w \in removing => held[w] \notin open'
  <2>1. 0 \notin open'
    BY DEF MapType, Ids
  <2> QED BY <2>1 DEF Send, Lookup, TryOK, TryFails, CloseFailed
<1> QED BY <1>0, <1>4, <1>5, <1>6 DEF StillRemoving

-----------------------------------------------------------------------------
\* The steps of one session and of its forwarder.
LEMMA SessionStep ==
  ASSUME ManagerInv, NEW i \in Ids, SessionReceives(i) \/ SessionDies(i) \/ Forward(i)
  PROVE  ManagerInv'
<1>1. CASE AddSession(i)
  BY <1>1, AddStep
<1>2. CASE CloseOld(i)
  BY <1>2, CloseOldStep
<1>3. CASE ForwardSeesDone(i)
  <2>1. kindOf[i] \in Kinds
    BY DEF ManagerInv, MapType
  <2>2. Running
    BY <1>3 DEF ForwardSeesDone, Running
  <2>3. /\ RemoveSession(kindOf[i], i)
        /\ i \notin open /\ UNCHANGED <<mode, prefer, made, kindOf, open, old, closer, sendVars>>
    BY <1>3 DEF ForwardSeesDone, config
  <2>4. SendType' /\ StillRemoving
    BY <2>3 DEF ManagerInv, MapType, SendType, StillRemoving, sendVars, Order, Other
  <2> QED BY <2>1, <2>2, <2>3, <2>4, RemoveStep
<1>4. CASE SessionReceives(i) \/ SessionDies(i) \/ ForwardTakes(i) \/ ForwardPuts(i) \/ ForwardSeesCancel(i)
  <2>1. Running
    BY <1>4 DEF SessionReceives, SessionDies, ForwardTakes, ForwardPuts, ForwardSeesCancel, Running
  <2>2. open' \subseteq open /\ UNCHANGED <<mode, prefer, made, kindOf, sessions, old, closer, sendVars>>
    BY <1>4 DEF SessionReceives, SessionDies, ForwardTakes, ForwardPuts, ForwardSeesCancel, config
  <2>3. SendType' /\ StillRemoving
    BY <2>2 DEF ManagerInv, MapType, SendType, StillRemoving, sendVars, Order, Other
  <2> QED BY <2>1, <2>2, <2>3, QuietStep
<1> QED BY <1>1, <1>2, <1>3, <1>4 DEF Forward

\* The steps of the client loops and of the listeners.
LEMMA AcceptStep ==
  ASSUME ManagerInv,
         AcceptTCP \/ HandshakeOK \/ HandshakeFails \/ UdpConfirmed \/ \E k \in Kinds : ClientLoop(k)
  PROVE  ManagerInv'
<1>1. CASE HandshakeOK \/ UdpConfirmed \/ \E k \in Kinds : DialOK(k)
  <2>1. \E k \in Kinds : MakeSession(k) /\ UNCHANGED <<config, sendVars, closer>>
    BY <1>1 DEF HandshakeOK, UdpConfirmed, DialOK, Kinds
  <2> QED BY <2>1, MakeStep
<1>2. CASE AcceptTCP \/ HandshakeFails \/ \E k \in Kinds : DialFails(k) \/ LoopSeesDone(k) \/ LoopSeesCancel(k) \/ LoopAgain(k)
  <2>1. /\ open' \subseteq open
        /\ UNCHANGED <<mode, prefer, made, kindOf, sessions, old, closer, sendVars, stage>>
    BY <1>2 DEF AcceptTCP, HandshakeFails, DialFails, LoopSeesDone, LoopSeesCancel, LoopAgain, config,
       sessVars
  <2>2. SendType' /\ StillRemoving
    BY <2>1 DEF ManagerInv, MapType, SendType, StillRemoving, sendVars, Order, Other
  <2> QED BY <2>1, <2>2, QuietStep DEF Running
<1> QED BY <1>1, <1>2 DEF ClientLoop

\* The steps of a caller of Send.
LEMMA SendStep ==
  ASSUME ManagerInv, NEW w \in Senders, Send(w)
  PROVE  ManagerInv'
<1>1. UNCHANGED <<mode, prefer, made, kindOf, old, closer, stage>> /\ open' \subseteq open
  BY DEF Send, Lookup, TryOK, TryFails, CloseFailed, config, sessVars
<1>2. SendType' /\ StillRemoving
  BY <1>1, SendMoves DEF ManagerInv
<1>3. CASE Lookup(w) \/ TryOK(w) \/ CloseFailed(w)
  <2>1. sessions' = sessions
    BY <1>3 DEF Lookup, TryOK, CloseFailed, sessVars
  <2> QED BY <1>1, <1>2, <2>1, QuietStep DEF Running
<1>4. CASE TryFails(w)
  <2>1. Order[turn[w]] \in Kinds
    BY OrderOfCarriers DEF ManagerInv, MapType, SendType
  <2>2. w \in removing' /\ held'[w] = held[w] /\ open' = open /\ RemoveSession(Order[turn[w]], held[w])
    BY <1>4 DEF TryFails
  <2> QED BY <1>1, <1>2, <2>1, <2>2, RemoveStep DEF Running
<1> QED BY <1>3, <1>4 DEF Send

\* The steps of Close.
LEMMA CloseStep ==
  ASSUME ManagerInv, Cancel \/ Closing
  PROVE  ManagerInv'
<1>1. CASE CloseSessions
  BY <1>1, CloseSessionsStep
<1>2. CASE Cancel \/ CloseListeners \/ WaitDone
  <2>1. open' \subseteq open /\ UNCHANGED <<mode, prefer, made, kindOf, sessions, old, sendVars, stage>>
    BY <1>2 DEF Cancel, CloseListeners, WaitDone, config, sessVars
  <2>2. closer' \in {"closers", "wait", "done"} => closer \in {"closers", "wait", "done"}
    BY <1>2 DEF Cancel, CloseListeners, WaitDone
  <2>3. SendType' /\ StillRemoving
    BY <2>1 DEF ManagerInv, MapType, SendType, StillRemoving, sendVars, Order, Other
  <2> QED BY <2>1, <2>2, <2>3, QuietStep DEF Running
<1> QED BY <1>1, <1>2 DEF Closing

\* The invariant of the manager's map is inductive: addSession, removeSession
\* and Close each leave every open session within someone's reach.
THEOREM ManagerInvariance == Spec => []ManagerInv
<1>1. ManagerInv /\ [Next]_vars => ManagerInv'
  <2> SUFFICES ASSUME ManagerInv, [Next]_vars PROVE ManagerInv'
    OBVIOUS
  <2>1. CASE Next
    <3>1. CASE Consume
      <4>1. UNCHANGED <<mode, prefer, made, kindOf, sessions, old, closer, sendVars, stage, open>>
        BY <3>1 DEF Consume, config, sessVars
      <4>2. SendType' /\ StillRemoving
        BY <4>1 DEF ManagerInv, MapType, SendType, StillRemoving, sendVars, Order, Other
      <4> QED BY <4>1, <4>2, QuietStep DEF Running
    <3> QED BY <2>1, <3>1, SessionStep, AcceptStep, SendStep, CloseStep DEF Next
  <2>2. CASE UNCHANGED vars
    <3>1. UNCHANGED <<mode, prefer, made, kindOf, sessions, old, closer, sendVars, stage, open>>
      BY <2>2 DEF vars, config, sessVars
    <3>2. SendType' /\ StillRemoving
      BY <3>1 DEF ManagerInv, MapType, SendType, StillRemoving, sendVars, Order, Other
    <3> QED BY <3>1, <3>2, QuietStep DEF Running
  <2> QED BY <2>1, <2>2
<1> QED BY <1>1, ManagerInit, PTL DEF Spec

\* addSession racing Close: once Close has emptied the map it stays empty.
THEOREM MapStaysEmpty == Spec => []EmptyAfterClose
<1>1. ManagerInv => EmptyAfterClose
  BY DEF ManagerInv
<1> QED BY <1>1, ManagerInvariance, PTL

\* Every open session is new, in the map, or about to be closed, by the
\* addSession that replaced it or by the removeSession of a Send that failed.
THEOREM OpenStaysReachable == Spec => []OpenIsReachable
<1>1. ManagerInv => OpenIsReachable
  BY DEF ManagerInv
<1> QED BY <1>1, ManagerInvariance, PTL

\* An entry of a healthy session goes only for a successor, on Close, or after
\* a Send that failed on that very session.
THEOREM HealthyStays == Spec => HealthyEntryStays
<1> DEFINE Stays == \A k \in Kinds :
                      sessions[k] \in open /\ sessions'[k] = 0 =>
                        Cancelled \/ \E w \in Senders : held[w] = sessions[k]
<1>1. ManagerInv /\ [Next]_vars => [Stays]_vars
  <2> SUFFICES ASSUME ManagerInv, Next, NEW k \in Kinds, sessions[k] \in open, sessions'[k] = 0, ~Cancelled
               PROVE  \E w \in Senders : held[w] = sessions[k]
    OBVIOUS
  <2>1. sessions[k] \in Ids /\ sessions[k] # 0 /\ sessions' # sessions
    BY DEF ManagerInv, MapType, Ids
  <2>2. ASSUME NEW i \in Ids, Forward(i) PROVE FALSE
    <3>1. AddSession(i) \/ ForwardSeesDone(i)
      BY <2>1, <2>2 DEF Forward, CloseOld, ForwardTakes, ForwardPuts, ForwardSeesCancel
    <3>2. CASE AddSession(i)
      BY <2>1, <3>2 DEF AddSession, ManagerInv, MapType, Ids
    <3>3. CASE ForwardSeesDone(i)
      BY <2>1, <3>3 DEF ForwardSeesDone, RemoveSession, ManagerInv, MapType
    <3> QED BY <3>1, <3>2, <3>3
  <2>3. ASSUME NEW w \in Senders, Send(w) PROVE held[w] = sessions[k]
    <3>1. TryFails(w)
      BY <2>1, <2>3 DEF Send, Lookup, TryOK, CloseFailed, sessVars
    <3> QED BY <2>1, <3>1 DEF TryFails, RemoveSession, ManagerInv, MapType
  <2>4. ~CloseSessions
    BY DEF CloseSessions, Cancelled
  <2>5. ~(Consume \/ AcceptTCP \/ HandshakeOK \/ HandshakeFails \/ UdpConfirmed \/ Cancel \/ Closing)
    BY <2>1, <2>4 DEF Consume, AcceptTCP, HandshakeOK, HandshakeFails, UdpConfirmed, Cancel, Closing,
       CloseListeners, WaitDone, MakeSession, sessVars
  <2>6. ~\E j \in Kinds : ClientLoop(j)
    BY <2>1 DEF ClientLoop, DialOK, DialFails, LoopSeesDone, LoopSeesCancel, LoopAgain, MakeSession, sessVars
  <2>7. ~\E i \in Ids : SessionReceives(i) \/ SessionDies(i)
    BY <2>1 DEF SessionReceives, SessionDies
  <2> QED BY <2>2, <2>3, <2>5, <2>6, <2>7 DEF Next
<1> QED BY <1>1, ManagerInvariance, PTL DEF Spec, HealthyEntryStays

-----------------------------------------------------------------------------
(* The rest of the state, and the handshake slots.                          *)

\* The part of the type that MapType leaves out.
RestType ==
  /\ role \in {"client", "server"} /\ buffered \in [Ids -> 0 .. RecvCap]
  /\ incoming \in 0 .. IncomingCap
  /\ loop \in [Kinds -> {"dial", "wait", "sleep", "exit"}]
  /\ loopSess \in [Kinds -> 0 .. MaxSess] /\ handshakes \in Nat
  /\ closer \in {"no", "lock", "closers", "wait", "done"}

\* The sessions whose handshake goroutine has not returned from addSession.
Adding == {id \in 1 .. made : kindOf[id] = "tcp" /\ stage[id] \in {"new", "swap"}}

\* The slots of maxConcurrentTCPHandshakes, which only a server uses: no
\* client loop runs there, so each session being added came from a slot.
SlotInv ==
  /\ role = "server" => (SlotsUsed =< MaxHandshakes) /\ \A k \in Kinds : loop[k] = "exit"
  /\ role = "client" => handshakes = 0

\* The number of slots in use never exceeds maxConcurrentTCPHandshakes, the
\* goroutines that are still in addSession included.
SlotsBounded == role = "server" => SlotsUsed =< MaxHandshakes

StateInv == ManagerInv /\ RestType /\ SlotInv

\* The sessions being added are finitely many.
LEMMA AddingFinite ==
  ASSUME made \in Nat
  PROVE  /\ IsFiniteSet(Adding) /\ Cardinality(Adding) \in Nat
         /\ SlotsUsed = handshakes + Cardinality(Adding)
<1>1. IsFiniteSet(1 .. made)
  BY FS_Interval
<1>2. Adding \in SUBSET (1 .. made)
  BY DEF Adding
<1>3. IsFiniteSet(Adding)
  BY <1>1, <1>2, FS_Subset
<1> QED BY <1>3, FS_CardinalityType DEF SlotsUsed, Adding

\* The same set in the next state.
LEMMA AddingFiniteNext ==
  ASSUME made' \in Nat
  PROVE  /\ IsFiniteSet(Adding') /\ Cardinality(Adding') \in Nat
         /\ SlotsUsed' = handshakes' + Cardinality(Adding')
<1>1. IsFiniteSet(1 .. made')
  BY FS_Interval
<1>2. Adding' \in SUBSET (1 .. made')
  BY DEF Adding
<1>3. IsFiniteSet(Adding')
  BY <1>1, <1>2, FS_Subset
<1> QED BY <1>3, FS_CardinalityType DEF SlotsUsed, Adding

\* A step that takes no slot frees some or leaves them as they are.
LEMMA SlotsFreed ==
  ASSUME StateInv, ManagerInv', RestType', role' = role,
         Adding' \subseteq Adding, handshakes' =< handshakes,
         \A k \in Kinds : loop[k] = "exit" => loop'[k] = "exit"
  PROVE  SlotInv'
<1>1. made \in Nat /\ made' \in Nat /\ handshakes \in Nat /\ handshakes' \in Nat
  BY ManagerAssumption DEF StateInv, ManagerInv, MapType, RestType
<1>2. IsFiniteSet(Adding) /\ Cardinality(Adding) \in Nat /\ SlotsUsed = handshakes + Cardinality(Adding)
  BY <1>1, AddingFinite
<1>3. Cardinality(Adding') \in Nat /\ SlotsUsed' = handshakes' + Cardinality(Adding')
  BY <1>1, AddingFiniteNext
<1>4. Cardinality(Adding') =< Cardinality(Adding)
  BY <1>2, FS_Subset
<1>5. SlotsUsed' =< SlotsUsed /\ SlotsUsed \in Nat /\ SlotsUsed' \in Nat
  BY <1>1, <1>2, <1>3, <1>4
<1>6. role = "server" => SlotsUsed' =< MaxHandshakes
  BY <1>5, ManagerAssumption DEF StateInv, SlotInv
<1>7. role = "client" => handshakes' = 0
  BY <1>1 DEF StateInv, SlotInv
<1> QED BY <1>6, <1>7 DEF StateInv, SlotInv

\* A handshake that succeeds passes its slot on to the session it made.
LEMMA SlotPassedOn ==
  ASSUME StateInv, ManagerInv', RestType', HandshakeOK
  PROVE  SlotInv'
<1>1. made \in Nat /\ made' \in Nat /\ handshakes \in Nat /\ handshakes' \in Nat
  BY ManagerAssumption DEF StateInv, ManagerInv, MapType, RestType
<1>2. IsFiniteSet(Adding) /\ Cardinality(Adding) \in Nat /\ SlotsUsed = handshakes + Cardinality(Adding)
  BY <1>1, AddingFinite
<1>3. Cardinality(Adding') \in Nat /\ SlotsUsed' = handshakes' + Cardinality(Adding')
  BY <1>1, AddingFiniteNext
<1>4. /\ handshakes > 0 /\ handshakes' = handshakes - 1 /\ made' = made + 1
      /\ kindOf' = [kindOf EXCEPT ![made'] = "tcp"] /\ stage' = [stage EXCEPT ![made'] = "new"]
      /\ role' = role /\ loop' = loop
  BY DEF HandshakeOK, MakeSession, config
<1>5. Adding' \subseteq Adding \cup {made'}
  <2>1. kindOf \in [Ids -> Kinds] /\ DOMAIN stage = Ids /\ made' =< MaxSess /\ MaxSess \in Nat
    BY ManagerAssumption DEF StateInv, ManagerInv, MapType
  <2>2. ASSUME NEW id \in Adding', id # made' PROVE id \in Adding
    <3>1. id \in 1 .. made' /\ kindOf'[id] = "tcp" /\ stage'[id] \in {"new", "swap"}
      BY DEF Adding
    <3>2. id \in Ids /\ id \in 1 .. made
      BY <1>1, <1>4, <2>1, <2>2, <3>1 DEF Ids
    <3>3. kindOf'[id] = kindOf[id] /\ stage'[id] = stage[id]
      BY <1>4, <2>1, <2>2, <3>2
    <3> QED BY <3>1, <3>2, <3>3 DEF Adding
  <2> QED BY <2>2
<1>6. /\ IsFiniteSet(Adding \cup {made'}) /\ Cardinality(Adding \cup {made'}) \in Nat
      /\ Cardinality(Adding \cup {made'}) =< Cardinality(Adding) + 1
  BY <1>2, FS_AddElement, FS_CardinalityType
<1>7. Cardinality(Adding') =< Cardinality(Adding \cup {made'})
  BY <1>5, <1>6, FS_Subset
<1>8. SlotsUsed' =< SlotsUsed /\ SlotsUsed \in Nat /\ SlotsUsed' \in Nat
  BY <1>1, <1>2, <1>3, <1>4, <1>6, <1>7
<1>9. role = "server" => SlotsUsed' =< MaxHandshakes
  BY <1>8, ManagerAssumption DEF StateInv, SlotInv
<1>10. role # "client"
  BY <1>1, <1>4 DEF StateInv, SlotInv
<1> QED BY <1>4, <1>9, <1>10 DEF StateInv, SlotInv

\* A connection is accepted while a slot is free.
LEMMA SlotTaken ==
  ASSUME StateInv, ManagerInv', RestType', AcceptTCP
  PROVE  SlotInv'
<1>1. made \in Nat /\ handshakes \in Nat
  BY ManagerAssumption DEF StateInv, ManagerInv, MapType, RestType
<1>2. Cardinality(Adding) \in Nat /\ SlotsUsed = handshakes + Cardinality(Adding)
  BY <1>1, AddingFinite
<1>3. /\ role = "server" /\ SlotsUsed < MaxHandshakes /\ handshakes' = handshakes + 1
      /\ UNCHANGED <<role, made, kindOf, stage, loop>>
  BY DEF AcceptTCP, Listening, config, sessVars
<1>4. SlotsUsed' = SlotsUsed + 1
  BY <1>1, <1>2, <1>3 DEF SlotsUsed, Adding
<1>5. SlotsUsed' =< MaxHandshakes
  BY <1>1, <1>2, <1>3, <1>4, ManagerAssumption
<1> QED BY <1>3, <1>5 DEF StateInv, SlotInv

\* Every step keeps the counters and the goroutines' states within range.
LEMMA RestStep ==
  ASSUME StateInv, ManagerInv', Next
  PROVE  RestType'
<1> USE ManagerAssumption DEF StateInv, ManagerInv, MapType, RestType
<1>1. ASSUME NEW i \in Ids, SessionReceives(i) \/ ForwardTakes(i) \/ ForwardSeesDone(i) \/ ForwardSeesCancel(i)
      PROVE  RestType'
  <2>1. buffered' \in [Ids -> 0 .. RecvCap]
    <3>1. buffered[i] \in 0 .. RecvCap
      OBVIOUS
    <3>2. CASE SessionReceives(i)
      <4>1. buffered' = [buffered EXCEPT ![i] = buffered[i] + 1] /\ buffered[i] + 1 \in 0 .. RecvCap
        BY <3>1, <3>2 DEF SessionReceives
      <4> QED BY <4>1
    <3>3. CASE ForwardTakes(i)
      <4>1. buffered' = [buffered EXCEPT ![i] = buffered[i] - 1] /\ buffered[i] - 1 \in 0 .. RecvCap
        <5>1. buffered[i] > 0 /\ buffered' = [buffered EXCEPT ![i] = buffered[i] - 1]
          BY <3>3 DEF ForwardTakes
        <5>2. RecvCap \in Nat
          OBVIOUS
        <5> HIDE DEF StateInv
        <5> QED BY <3>1, <5>1, <5>2
      <4> QED BY <4>1
    <3>4. CASE ForwardSeesDone(i) \/ ForwardSeesCancel(i)
      <4>1. buffered' = [buffered EXCEPT ![i] = 0]
        BY <3>4 DEF ForwardSeesDone, ForwardSeesCancel
      <4>2. 0 \in 0 .. RecvCap
        OBVIOUS
      <4> QED BY <4>1, <4>2
    <3> QED BY <1>1, <3>2, <3>3, <3>4
  <2> QED BY <1>1, <2>1 DEF SessionReceives, ForwardTakes, ForwardSeesDone, ForwardSeesCancel, config,
             loopVars, sendVars
<1>2. ASSUME NEW i \in Ids, SessionDies(i) \/ AddSession(i) \/ CloseOld(i) PROVE RestType'
  BY <1>2 DEF SessionDies, AddSession, CloseOld, config, loopVars, sendVars
<1>3. ASSUME NEW i \in Ids, ForwardPuts(i) PROVE RestType'
  BY <1>3 DEF ForwardPuts, config, loopVars, sendVars
<1>4. ASSUME Consume PROVE RestType'
  BY <1>4 DEF Consume, config, sessVars, loopVars, sendVars
<1>5. ASSUME NEW k \in Kinds, ClientLoop(k) PROVE RestType'
  <2>1. loop' \in [Kinds -> {"dial", "wait", "sleep", "exit"}]
    BY <1>5 DEF ClientLoop, DialOK, DialFails, LoopSeesDone, LoopSeesCancel, LoopAgain, LoopTo
  <2>2. loopSess' \in [Kinds -> 0 .. MaxSess]
    <3>1. \E s \in {0, made'} : loopSess' = [loopSess EXCEPT ![k] = s] \/ loopSess' = loopSess
      BY <1>5 DEF ClientLoop, DialOK, DialFails, LoopSeesDone, LoopSeesCancel, LoopAgain
    <3>2. made' \in 0 .. MaxSess /\ 0 \in 0 .. MaxSess
      OBVIOUS
    <3>3. PICK s \in 0 .. MaxSess : loopSess' = [loopSess EXCEPT ![k] = s] \/ loopSess' = loopSess
      BY <3>1, <3>2
    <3> QED BY <3>3
  <2>3. UNCHANGED <<role, buffered, incoming, handshakes, closer>>
    BY <1>5 DEF ClientLoop, DialOK, DialFails, LoopSeesDone, LoopSeesCancel, LoopAgain, MakeSession,
       config, sessVars, sendVars
  <2> QED BY <2>1, <2>2, <2>3
<1>6. ASSUME AcceptTCP \/ HandshakeOK \/ HandshakeFails \/ UdpConfirmed PROVE RestType'
  <2>1. handshakes' \in Nat
    BY <1>6, SMTT(30) DEF AcceptTCP, HandshakeOK, HandshakeFails, UdpConfirmed, loopVars
  <2> QED BY <1>6, <2>1 DEF AcceptTCP, HandshakeOK, HandshakeFails, UdpConfirmed, MakeSession, config,
             sessVars, loopVars, sendVars
<1>7. ASSUME NEW w \in Senders, Send(w) PROVE RestType'
  BY <1>7 DEF Send, Lookup, TryOK, TryFails, CloseFailed, config, sessVars, loopVars
<1>8. ASSUME Cancel \/ Closing PROVE RestType'
  BY <1>8 DEF Cancel, Closing, CloseSessions, CloseListeners, WaitDone, config, sessVars, loopVars, sendVars
<1> HIDE DEF StateInv, ManagerInv, MapType, RestType
<1> QED BY <1>1, <1>2, <1>3, <1>4, <1>5, <1>6, <1>7, <1>8 DEF Next, Forward

\* A session leaves addSession and never goes back into it.
LEMMA AddingShrinks ==
  ASSUME StateInv, Next,
         ~(HandshakeOK \/ \E k \in Kinds : DialOK(k))
  PROVE  Adding' \subseteq Adding
<1> USE ManagerAssumption DEF StateInv, ManagerInv, MapType, Adding
<1>1. ASSUME NEW i \in Ids, SessionReceives(i) \/ SessionDies(i) \/ Forward(i)
      PROVE  Adding' \subseteq Adding
  <2>1. made' = made /\ kindOf' = kindOf
    BY <1>1 DEF SessionReceives, SessionDies, Forward, AddSession, CloseOld, ForwardTakes, ForwardPuts,
       ForwardSeesDone, ForwardSeesCancel
  <2>2. \A j \in Ids : stage'[j] \in {"new", "swap"} => stage[j] \in {"new", "swap"}
    BY <1>1 DEF SessionReceives, SessionDies, Forward, AddSession, CloseOld, ForwardTakes, ForwardPuts,
       ForwardSeesDone, ForwardSeesCancel
  <2> QED BY <2>1, <2>2 DEF Ids
<1>2. CASE UdpConfirmed
  <2>1. made' = made + 1 /\ kindOf' = [kindOf EXCEPT ![made'] = "udp"]
        /\ stage' = [stage EXCEPT ![made'] = "new"] /\ made < MaxSess
    BY <1>2 DEF UdpConfirmed, MakeSession
  <2>2. made \in Nat /\ made' \in Ids
    BY <2>1 DEF Ids
  <2>3. kindOf'[made'] = "udp"
    BY <2>1, <2>2
  <2>4. ASSUME NEW id \in Adding' PROVE id \in Adding
    <3>1. id # made' /\ id \in 1 .. made
      BY <2>1, <2>2, <2>3, <2>4
    <3>2. kindOf'[id] = kindOf[id] /\ stage'[id] = stage[id]
      BY <2>1, <2>2, <3>1 DEF Ids
    <3> QED BY <2>4, <3>1, <3>2
  <2> QED BY <2>4
<1>3. ASSUME NEW w \in Senders, Send(w) PROVE Adding' \subseteq Adding
  BY <1>3 DEF Send, Lookup, TryOK, TryFails, CloseFailed, sessVars
<1>4. ASSUME NEW k \in Kinds, ClientLoop(k), ~DialOK(k) PROVE Adding' \subseteq Adding
  BY <1>4 DEF ClientLoop, DialFails, LoopSeesDone, LoopSeesCancel, LoopAgain, sessVars
<1>5. CASE Consume \/ AcceptTCP \/ HandshakeFails \/ Cancel \/ Closing
  BY <1>5 DEF Consume, AcceptTCP, HandshakeFails, Cancel, Closing, CloseSessions, CloseListeners, WaitDone,
     sessVars
<1> HIDE DEF StateInv, ManagerInv, MapType, Adding
<1> QED BY <1>1, <1>2, <1>3, <1>4, <1>5 DEF Next

\* Every step keeps to the slots.
LEMMA SlotStep ==
  ASSUME StateInv, ManagerInv', RestType', Next
  PROVE  SlotInv'
<1>1. CASE HandshakeOK
  BY <1>1, SlotPassedOn
<1>2. CASE AcceptTCP
  BY <1>2, SlotTaken
<1>3. CASE \E k \in Kinds : DialOK(k)
  <2>1. role = "client" /\ role' = role /\ handshakes' = handshakes
    BY <1>3 DEF DialOK, StateInv, RestType, SlotInv, config
  <2> QED BY <2>1 DEF StateInv, SlotInv
<1>4. CASE ~(HandshakeOK \/ AcceptTCP \/ \E k \in Kinds : DialOK(k))
  <2>1. Adding' \subseteq Adding
    BY <1>4, AddingShrinks
  <2>2. role' = role
    BY DEF Next, SessionReceives, SessionDies, Forward, AddSession, CloseOld, ForwardTakes, ForwardPuts,
       ForwardSeesDone, ForwardSeesCancel, Consume, ClientLoop, DialOK, DialFails, LoopSeesDone, LoopSeesCancel,
       LoopAgain, AcceptTCP, HandshakeOK, HandshakeFails, UdpConfirmed, Send, Lookup, TryOK, TryFails,
       CloseFailed, Cancel, Closing, CloseSessions, CloseListeners, WaitDone, config
  <2>3. handshakes' = handshakes \/ handshakes' = handshakes - 1
    BY <1>4 DEF Next, SessionReceives, SessionDies, Forward, AddSession, CloseOld, ForwardTakes, ForwardPuts,
       ForwardSeesDone, ForwardSeesCancel, Consume, ClientLoop, DialOK, DialFails, LoopSeesDone, LoopSeesCancel,
       LoopAgain, HandshakeFails, UdpConfirmed, Send, Lookup, TryOK, TryFails,
       CloseFailed, Cancel, Closing, CloseSessions, CloseListeners, WaitDone, loopVars
  <2>4. \A k \in Kinds : loop[k] = "exit" => loop'[k] = "exit"
    <3>1. loop' = loop \/ \E k \in Kinds : loop[k] # "exit" /\ \E x : loop' = [loop EXCEPT ![k] = x]
      BY <1>4 DEF Next, SessionReceives, SessionDies, Forward, AddSession, CloseOld, ForwardTakes, ForwardPuts,
         ForwardSeesDone, ForwardSeesCancel, Consume, ClientLoop, DialOK, DialFails, LoopSeesDone, LoopSeesCancel,
         LoopAgain, HandshakeFails, UdpConfirmed, Send, Lookup, TryOK, TryFails,
         CloseFailed, Cancel, Closing, CloseSessions, CloseListeners, WaitDone, loopVars, LoopTo
    <3> QED BY <3>1 DEF StateInv, RestType
  <2>5. handshakes' =< handshakes
    BY <2>3 DEF StateInv, RestType
  <2> QED BY <2>1, <2>2, <2>4, <2>5, SlotsFreed
<1> QED BY <1>1, <1>2, <1>3, <1>4

\* The whole state of the manager: its type, and the handshake slots.
THEOREM StateInvariance == Spec => []StateInv
<1>1. Init => RestType /\ SlotInv
  <2> SUFFICES ASSUME Init PROVE RestType /\ SlotInv
    OBVIOUS
  <2>1. role \in {"client", "server"}
    BY ManagerAssumption DEF Init, ValidTransport
  <2>2. RestType
    BY <2>1, ManagerAssumption DEF Init, RestType, Kinds
  <2>3. Adding = {} /\ made = 0 /\ handshakes = 0
    BY DEF Init, Adding
  <2>4. SlotsUsed = 0
    BY <2>3, AddingFinite, FS_EmptySet
  <2> QED BY <2>2, <2>3, <2>4, ManagerAssumption DEF Init, SlotInv
<1>2. ManagerInv /\ ManagerInv' /\ RestType /\ SlotInv /\ [Next]_vars => RestType' /\ SlotInv'
  <2> SUFFICES ASSUME ManagerInv, ManagerInv', RestType, SlotInv, [Next]_vars PROVE RestType' /\ SlotInv'
    OBVIOUS
  <2>1. CASE Next
    BY <2>1, RestStep, SlotStep DEF StateInv
  <2>2. CASE UNCHANGED vars
    BY <2>2 DEF vars, config, sessVars, loopVars, sendVars, RestType, SlotInv, SlotsUsed
  <2> QED BY <2>1, <2>2
<1> QED BY <1>1, <1>2, ManagerInvariance, PTL DEF Spec, StateInv

\* Type correctness: the counters of sessions, messages and handshakes stay
\* within their capacities.
THEOREM ManagerTypeCorrect == Spec => []TypeOK
<1>1. StateInv => TypeOK
  <2> SUFFICES ASSUME StateInv PROVE TypeOK
    OBVIOUS
  <2>1. made \in Nat /\ handshakes \in Nat
    BY ManagerAssumption DEF StateInv, ManagerInv, MapType, RestType
  <2>2. Cardinality(Adding) \in Nat /\ SlotsUsed = handshakes + Cardinality(Adding)
    BY <2>1, AddingFinite
  <2>3. handshakes =< MaxHandshakes
    BY <2>1, <2>2, ManagerAssumption DEF StateInv, SlotInv, RestType
  <2> QED BY <2>1, <2>3, ManagerAssumption DEF StateInv, ManagerInv, MapType, SendType, RestType, TypeOK
<1> QED BY <1>1, StateInvariance, PTL

\* maxConcurrentTCPHandshakes bounds the handshakes and the goroutines that
\* have yet to return from addSession, taken together.
THEOREM SlotsStayBounded == Spec => []SlotsBounded
<1>1. StateInv => SlotsBounded
  BY DEF StateInv, SlotInv, SlotsBounded
<1> QED BY <1>1, StateInvariance, PTL
=============================================================================
