------------------------------- MODULE Manager -------------------------------
(***************************************************************************)
(* The transport manager of internal/transport/manager.go: the map of the  *)
(* session in use per carrier, Send with its failover order, addSession    *)
(* and the forwarding goroutine of every session, removeSession, the       *)
(* client's reconnect loops, the server's accept side, and Close.          *)
(*                                                                         *)
(* Sessions are numbered as they come into being; a session is open or     *)
(* closed (Done is readable exactly when it is closed).  The role, the     *)
(* mode and the preferred carrier are among those that                     *)
(* config.validateTransport lets pass.                                     *)
(***************************************************************************)
EXTENDS Integers, Sequences, FiniteSets

CONSTANTS Configs,       \* <<role, mode, prefer>> to start from
          Senders,       \* goroutines calling Send
          MaxSess,       \* bound of the model: sessions in a behaviour
          MaxHandshakes, \* maxConcurrentTCPHandshakes
          RecvCap,       \* messages a session buffers (recvCh)
          IncomingCap    \* capacity of incoming

Kinds == {"tcp", "udp"}
Ids == 1 .. MaxSess

\* What config.validateTransport accepts.
ValidTransport ==
  {c \in {"client", "server"} \X {"tcp", "udp", "both"} \X Kinds : c[2] \in {"both", c[3]}}

ASSUME ManagerAssumption ==
  /\ Configs \subseteq ValidTransport
  /\ MaxSess \in Nat /\ MaxHandshakes \in Nat
  /\ RecvCap \in Nat \ {0} /\ IncomingCap \in Nat \ {0}

VARIABLES
  role, mode, prefer,  \* configuration, fixed
  made,       \* sessions made so far are 1 .. made
  kindOf,     \* Kind() of each session
  open,       \* sessions not closed
  buffered,   \* messages in each session's recvCh
  sessions,   \* Manager.sessions: carrier -> session, 0 for none
  stage,      \* each session: "none", "new", "swap", "run", "hold" or "end"
  old,        \* the session addSession replaced and is about to close
  incoming,   \* messages in the incoming channel
  loop,       \* clientLoop per carrier
  loopSess,   \* the session clientLoop waits on
  handshakes, \* TCP handshakes in progress on the server
  turn,       \* each caller of Send: position in the carrier order
  held,       \* and the session it read from the map, 0 before it has one
  removing,   \* callers whose Send failed, before removeSession closes the session
  closer      \* where Close is

config   == <<role, mode, prefer>>
sessVars == <<made, kindOf, open, buffered, sessions, stage, old>>
loopVars == <<loop, loopSess, handshakes>>
sendVars == <<turn, held, removing>>
vars == <<config, sessVars, incoming, loopVars, sendVars, closer>>

Uses(k) == mode = k \/ mode = "both"
Other(k) == IF k = "udp" THEN "tcp" ELSE "udp"
Order == IF mode = "both" THEN <<prefer, Other(prefer)>> ELSE <<prefer>>

\* The manager's context is cancelled.
Cancelled == closer # "no"

Init ==
  /\ \E c \in Configs : role = c[1] /\ mode = c[2] /\ prefer = c[3]
  /\ made = 0 /\ kindOf = [id \in Ids |-> "tcp"]
  /\ open = {} /\ buffered = [id \in Ids |-> 0]
  /\ sessions = [k \in Kinds |-> 0]
  /\ stage = [id \in Ids |-> "none"] /\ old = [id \in Ids |-> 0]
  /\ incoming = 0
  /\ loop = [k \in Kinds |-> IF role = "client" /\ Uses(k) THEN "dial" ELSE "exit"]
  /\ loopSess = [k \in Kinds |-> 0] /\ handshakes = 0
  /\ turn = [w \in Senders |-> 1]
  /\ held = [w \in Senders |-> 0] /\ removing = {}
  /\ closer = "no"

\* A dial or an accepted handshake yields an authenticated session.
MakeSession(k) ==
  /\ made < MaxSess
  /\ made' = made + 1
  /\ kindOf' = [kindOf EXCEPT ![made'] = k]
  /\ open' = open \cup {made'}
  /\ stage' = [stage EXCEPT ![made'] = "new"]
  /\ UNCHANGED <<buffered, sessions, old>>

-----------------------------------------------------------------------------
(* Sessions and their forwarding goroutines.                               *)

\* The session receives a message, or ends by itself.
SessionReceives(id) ==
  /\ id \in open /\ buffered[id] < RecvCap
  /\ buffered' = [buffered EXCEPT ![id] = @ + 1]
  /\ UNCHANGED <<config, made, kindOf, open, sessions, stage, old, incoming>>
  /\ UNCHANGED <<loopVars, sendVars, closer>>

SessionDies(id) ==
  /\ id \in open
  /\ open' = open \ {id}
  /\ UNCHANGED <<config, made, kindOf, buffered, sessions, stage, old, incoming>>
  /\ UNCHANGED <<loopVars, sendVars, closer>>

\* Mutant: addSession does not look at the context.
AddSessionAlways(id) ==
  /\ stage[id] = "new"
  /\ old' = [old EXCEPT ![id] = sessions[kindOf[id]]]
  /\ sessions' = [sessions EXCEPT ![kindOf[id]] = id]
  /\ stage' = [stage EXCEPT ![id] = "swap"]
  /\ UNCHANGED <<config, made, kindOf, open, buffered, incoming, loopVars, sendVars, closer>>

\* addSession's critical section, and its early return after Close.
AddSession(id) ==
  /\ stage[id] = "new"
  /\ \/ /\ Cancelled
        /\ open' = open \ {id}
        /\ stage' = [stage EXCEPT ![id] = "end"]
        /\ UNCHANGED <<sessions, old>>
     \/ /\ ~Cancelled
        /\ old' = [old EXCEPT ![id] = sessions[kindOf[id]]]
        /\ sessions' = [sessions EXCEPT ![kindOf[id]] = id]
        /\ stage' = [stage EXCEPT ![id] = "swap"]
        /\ UNCHANGED open
  /\ UNCHANGED <<config, made, kindOf, buffered, incoming, loopVars, sendVars, closer>>

\* Mutant: the replaced session is forgotten.
CloseOldForgets(id) ==
  /\ stage[id] = "swap"
  /\ old' = [old EXCEPT ![id] = 0]
  /\ stage' = [stage EXCEPT ![id] = "run"]
  /\ UNCHANGED <<config, made, kindOf, open, buffered, sessions, incoming>>
  /\ UNCHANGED <<loopVars, sendVars, closer>>

\* After the unlock: the replaced session is closed, the forwarder starts.
CloseOld(id) ==
  /\ stage[id] = "swap"
  /\ open' = open \ {old[id]}
  /\ old' = [old EXCEPT ![id] = 0]
  /\ stage' = [stage EXCEPT ![id] = "run"]
  /\ UNCHANGED <<config, made, kindOf, buffered, sessions, incoming, loopVars, sendVars, closer>>

\* Mutant: the entry goes, whichever session it is.
RemoveSessionAny(k, id) == sessions' = [sessions EXCEPT ![k] = 0]

\* removeSession's critical section: the map entry goes only if it still is
\* this session.  The session is closed after the unlock.
RemoveSession(k, id) ==
  sessions' = IF sessions[k] = id THEN [sessions EXCEPT ![k] = 0] ELSE sessions

\* The forwarder's select: a message, the end of the session, or Close.
ForwardTakes(id) ==
  /\ stage[id] = "run" /\ buffered[id] > 0
  /\ buffered' = [buffered EXCEPT ![id] = @ - 1]
  /\ stage' = [stage EXCEPT ![id] = "hold"]
  /\ UNCHANGED <<config, made, kindOf, open, sessions, old, incoming, loopVars, sendVars, closer>>

ForwardPuts(id) ==
  /\ stage[id] = "hold" /\ incoming < IncomingCap
  /\ incoming' = incoming + 1
  /\ stage' = [stage EXCEPT ![id] = "run"]
  /\ UNCHANGED <<config, made, kindOf, open, buffered, sessions, old, loopVars, sendVars, closer>>

\* Mutant: the forwarder ends without removing the session.
ForwardJustEnds(id) ==
  /\ stage[id] = "run" /\ id \notin open
  /\ buffered' = [buffered EXCEPT ![id] = 0]
  /\ stage' = [stage EXCEPT ![id] = "end"]
  /\ UNCHANGED <<config, made, kindOf, open, sessions, old, incoming, loopVars, sendVars, closer>>

\* Done wins the select: whatever recvCh still holds is dropped.  The session
\* has ended, so the Close in removeSession does nothing.
ForwardSeesDone(id) ==
  /\ stage[id] = "run" /\ id \notin open
  /\ RemoveSession(kindOf[id], id)
  /\ buffered' = [buffered EXCEPT ![id] = 0]
  /\ stage' = [stage EXCEPT ![id] = "end"]
  /\ UNCHANGED <<config, made, kindOf, open, old, incoming, loopVars, sendVars, closer>>

\* ctx.Done in the outer select closes the session; in the inner one it does
\* not.
ForwardSeesCancel(id) ==
  /\ stage[id] \in {"run", "hold"} /\ Cancelled
  /\ open' = IF stage[id] = "run" THEN open \ {id} ELSE open
  /\ buffered' = [buffered EXCEPT ![id] = 0]
  /\ stage' = [stage EXCEPT ![id] = "end"]
  /\ UNCHANGED <<config, made, kindOf, sessions, old, incoming, loopVars, sendVars, closer>>

\* The application reads Incoming().
Consume ==
  /\ incoming > 0
  /\ incoming' = incoming - 1
  /\ UNCHANGED <<config, sessVars, loopVars, sendVars, closer>>

Forward(id) ==
  AddSession(id) \/ CloseOld(id) \/ ForwardTakes(id) \/ ForwardPuts(id)
    \/ ForwardSeesDone(id) \/ ForwardSeesCancel(id)

-----------------------------------------------------------------------------
(* clientLoop, one per carrier the mode uses.                              *)

LoopTo(k, where) == loop' = [loop EXCEPT ![k] = where]

DialOK(k) ==
  /\ loop[k] = "dial" /\ MakeSession(k)
  /\ LoopTo(k, "wait")
  /\ loopSess' = [loopSess EXCEPT ![k] = made']
  /\ UNCHANGED <<config, incoming, handshakes, sendVars, closer>>

DialFails(k) ==
  /\ loop[k] = "dial"
  /\ LoopTo(k, "sleep")
  /\ UNCHANGED <<config, sessVars, incoming, loopSess, handshakes, sendVars, closer>>

\* After addSession has returned: Done ends the wait.
LoopSeesDone(k) ==
  /\ loop[k] = "wait" /\ stage[loopSess[k]] \notin {"new", "swap"}
  /\ loopSess[k] \notin open
  /\ LoopTo(k, "sleep")
  /\ loopSess' = [loopSess EXCEPT ![k] = 0]
  /\ UNCHANGED <<config, sessVars, incoming, handshakes, sendVars, closer>>

LoopSeesCancel(k) ==
  /\ loop[k] = "wait" /\ stage[loopSess[k]] \notin {"new", "swap"}
  /\ Cancelled
  /\ open' = open \ {loopSess[k]}
  /\ LoopTo(k, "exit")
  /\ loopSess' = [loopSess EXCEPT ![k] = 0]
  /\ UNCHANGED <<config, made, kindOf, buffered, sessions, stage, old, incoming>>
  /\ UNCHANGED <<handshakes, sendVars, closer>>

\* Mutant: the loop does not look at the context.
LoopAgainAlways(k) ==
  /\ loop[k] = "sleep"
  /\ LoopTo(k, "dial")
  /\ UNCHANGED <<config, sessVars, incoming, loopSess, handshakes, sendVars, closer>>

\* sleepContext and the check at the top of the loop.
LoopAgain(k) ==
  /\ loop[k] = "sleep"
  /\ LoopTo(k, IF Cancelled THEN "exit" ELSE "dial")
  /\ UNCHANGED <<config, sessVars, incoming, loopSess, handshakes, sendVars, closer>>

ClientLoop(k) ==
  DialOK(k) \/ DialFails(k) \/ LoopSeesDone(k) \/ LoopSeesCancel(k) \/ LoopAgain(k)

-----------------------------------------------------------------------------
(* The server's listeners.                                                 *)

Listening(k) == role = "server" /\ Uses(k) /\ closer \notin {"wait", "done"}

\* A handshake goroutine keeps its slot until addSession has returned.
SlotsUsed ==
  handshakes + Cardinality({id \in 1 .. made : kindOf[id] = "tcp" /\ stage[id] \in {"new", "swap"}})

\* Mutant: one handshake too many.
AcceptTCPLate ==
  /\ Listening("tcp") /\ SlotsUsed =< MaxHandshakes
  /\ handshakes' = handshakes + 1
  /\ UNCHANGED <<config, sessVars, incoming, loop, loopSess, sendVars, closer>>

\* A TCP connection gets a handshake slot; without a free one it is closed.
AcceptTCP ==
  /\ Listening("tcp") /\ SlotsUsed < MaxHandshakes
  /\ handshakes' = handshakes + 1
  /\ UNCHANGED <<config, sessVars, incoming, loop, loopSess, sendVars, closer>>

HandshakeOK ==
  /\ handshakes > 0 /\ MakeSession("tcp")
  /\ handshakes' = handshakes - 1
  /\ UNCHANGED <<config, incoming, loop, loopSess, sendVars, closer>>

HandshakeFails ==
  /\ handshakes > 0
  /\ handshakes' = handshakes - 1
  /\ UNCHANGED <<config, sessVars, incoming, loop, loopSess, sendVars, closer>>

\* The UDP server confirmed a session and is about to call addSession.
UdpConfirmed ==
  /\ Listening("udp") /\ MakeSession("udp")
  /\ UNCHANGED <<config, incoming, loopVars, sendVars, closer>>

-----------------------------------------------------------------------------
(* Send.                                                                   *)

Return(w) ==
  /\ turn' = [turn EXCEPT ![w] = 1]
  /\ held' = [held EXCEPT ![w] = 0]
  /\ UNCHANGED removing

\* The next carrier of the order; after the last one Send returns lastErr or
\* ErrNoSession.
NextCarrier(w) ==
  /\ held' = [held EXCEPT ![w] = 0]
  /\ turn' = [turn EXCEPT ![w] = (@ % Len(Order)) + 1]

\* The carrier's entry, read under RLock; an empty one is skipped.
Lookup(w) ==
  /\ held[w] = 0
  /\ LET s == sessions[Order[turn[w]]] IN
       \/ s = 0 /\ NextCarrier(w)
       \/ s # 0 /\ held' = [held EXCEPT ![w] = s] /\ UNCHANGED turn
  /\ UNCHANGED <<config, sessVars, incoming, loopVars, removing, closer>>

\* session.Send returns nil.
TryOK(w) ==
  /\ held[w] \in open /\ w \notin removing
  /\ Return(w)
  /\ UNCHANGED <<config, sessVars, incoming, loopVars, closer>>

\* session.Send returns an error: removeSession takes the session out of the
\* map.
TryFails(w) ==
  /\ held[w] # 0 /\ w \notin removing
  /\ RemoveSession(Order[turn[w]], held[w])
  /\ removing' = removing \cup {w}
  /\ UNCHANGED <<config, made, kindOf, open, buffered, stage, old, incoming, loopVars>>
  /\ UNCHANGED <<turn, held, closer>>

\* removeSession closes it, and the standby carrier gets its turn.
CloseFailed(w) ==
  /\ w \in removing
  /\ open' = open \ {held[w]}
  /\ removing' = removing \ {w}
  /\ NextCarrier(w)
  /\ UNCHANGED <<config, made, kindOf, buffered, sessions, stage, old, incoming, loopVars, closer>>

Send(w) == Lookup(w) \/ TryOK(w) \/ TryFails(w) \/ CloseFailed(w)

-----------------------------------------------------------------------------
(* Close.                                                                  *)

Cancel ==
  /\ closer = "no"
  /\ closer' = "lock"
  /\ UNCHANGED <<config, sessVars, incoming, loopVars, sendVars>>

\* Under mu: every session of the map is closed and the map emptied.
CloseSessions ==
  /\ closer = "lock"
  /\ open' = open \ {sessions[k] : k \in Kinds}
  /\ sessions' = [k \in Kinds |-> 0]
  /\ closer' = "closers"
  /\ UNCHANGED <<config, made, kindOf, buffered, stage, old, incoming, loopVars, sendVars>>

\* The listeners; udpServer.Close closes the sessions it still has.
CloseListeners ==
  /\ closer = "closers"
  /\ open' = IF role = "server" THEN {id \in open : kindOf[id] # "udp"} ELSE open
  /\ closer' = "wait"
  /\ UNCHANGED <<config, made, kindOf, buffered, sessions, stage, old, incoming, loopVars, sendVars>>

\* wg.Wait: the client loops, and on the server the TCP handshake goroutines,
\* which end with addSession.
WaitDone ==
  /\ closer = "wait"
  /\ \A k \in Kinds : loop[k] = "exit"
  /\ SlotsUsed = 0
  /\ closer' = "done"
  /\ UNCHANGED <<config, sessVars, incoming, loopVars, sendVars>>

Closing == CloseSessions \/ CloseListeners \/ WaitDone

-----------------------------------------------------------------------------
Next ==
  \/ \E id \in Ids : SessionReceives(id) \/ SessionDies(id) \/ Forward(id)
  \/ Consume
  \/ \E k \in Kinds : ClientLoop(k)
  \/ AcceptTCP \/ HandshakeOK \/ HandshakeFails \/ UdpConfirmed
  \/ \E w \in Senders : Send(w)
  \/ Cancel \/ Closing

Spec == Init /\ [][Next]_vars

\* Goroutines run; dials, handshakes and sleeps end (each has a deadline), and
\* Go serves the goroutines blocked on one channel in order.  A caller whose
\* Send failed goes on to close the session.  Nothing is assumed about when
\* sessions die, about how long a session's Send takes, about who calls Close,
\* or about the application: it may stop reading Incoming().
Fairness ==
  /\ \A id \in Ids : WF_vars(Forward(id)) /\ SF_vars(ForwardPuts(id))
  /\ \A k \in Kinds : WF_vars(ClientLoop(k))
  /\ WF_vars(HandshakeOK \/ HandshakeFails)
  /\ \A w \in Senders : WF_vars(CloseFailed(w))
  /\ WF_vars(Closing)

FairSpec == Spec /\ Fairness

-----------------------------------------------------------------------------
(* Properties.                                                             *)

TypeOK ==
  /\ role \in {"client", "server"} /\ mode \in Kinds \cup {"both"} /\ prefer \in Kinds
  /\ made \in 0 .. MaxSess /\ kindOf \in [Ids -> Kinds] /\ open \subseteq Ids
  /\ buffered \in [Ids -> 0 .. RecvCap]
  /\ sessions \in [Kinds -> 0 .. MaxSess]
  /\ stage \in [Ids -> {"none", "new", "swap", "run", "hold", "end"}]
  /\ old \in [Ids -> 0 .. MaxSess]
  /\ incoming \in 0 .. IncomingCap
  /\ loop \in [Kinds -> {"dial", "wait", "sleep", "exit"}]
  /\ loopSess \in [Kinds -> 0 .. MaxSess]
  /\ handshakes \in 0 .. MaxHandshakes
  /\ turn \in [Senders -> 1 .. 2] /\ held \in [Senders -> 0 .. MaxSess]
  /\ removing \subseteq Senders
  /\ closer \in {"no", "lock", "closers", "wait", "done"}

\* addSession racing Close: once Close has emptied the map, no session gets
\* into it any more.
EmptyAfterClose == closer \in {"closers", "wait", "done"} => \A k \in Kinds : sessions[k] = 0

\* No open session is forgotten: it is still to be added, in the map, about to
\* be closed by the session that replaced it, or about to be closed by a caller
\* whose Send on it failed.
OpenIsReachable ==
  \A id \in open :
    \/ stage[id] = "new"
    \/ sessions[kindOf[id]] = id
    \/ \E j \in Ids : stage[j] = "swap" /\ old[j] = id
    \/ \E w \in removing : held[w] = id

\* A healthy session leaves the map only when another one replaces it, when
\* the manager closes, or when a Send on this very session failed: an error
\* on a session that was already replaced does not disconnect its successor.
HealthyEntryStays ==
  [][\A k \in Kinds :
       sessions[k] \in open /\ sessions'[k] = 0 =>
         Cancelled \/ \E w \in Senders : held[w] = sessions[k]]_vars

\* A dead session does not stay in the map, so Send does not keep trying it,
\* unless its forwarder has a message in hand that the application never again
\* makes room for: only then does the forwarder not see the end of its session.
DeadEntryLeaves ==
  \A id \in Ids :
    (sessions[kindOf[id]] = id /\ id \notin open)
      ~> (sessions[kindOf[id]] # id \/ [](stage[id] = "hold" /\ incoming = IncomingCap))

\* Close returns, and every session is closed then or soon after.
CloseReturns == Cancelled ~> (closer = "done" /\ open = {})
=============================================================================
