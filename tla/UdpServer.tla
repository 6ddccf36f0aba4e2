------------------------------ MODULE UdpServer ------------------------------
(***************************************************************************)
(* How UDP sessions come into being and go away: the udpServer of          *)
(* internal/transport/udp.go (its readLoop, and the cleanup and            *)
(* confirmation goroutines of every session), the client's dialUDPSession, *)
(* the key confirmation of handshake.go, and the entry of the server's     *)
(* manager that onSession = addSession fills.                              *)
(*                                                                         *)
(* The network may lose, delay and repeat a hello, so one dial can give    *)
(* rise to several server sessions; a welcome is bound to the nonce of its *)
(* dial.  A session is only known here by being open or closed: what flows *)
(* through it is the subject of UdpSession.                                *)
(***************************************************************************)
EXTENDS Integers, FiniteSets

CONSTANTS MaxDials,     \* bound of the model: dials of the client
          MaxAttempts,  \* hellos of one dial (10 in the code)
          MaxIds,       \* bound of the model: sessions the server creates
          MaxSessions   \* maxUDPSessions

ASSUME ServerAssumption ==
  MaxDials \in Nat /\ MaxAttempts \in Nat /\ MaxIds \in Nat /\ MaxSessions \in Nat \ {0}

VARIABLES
  \* the server
  srvClosed,   \* udpServer.Close has run: the socket is closed
  readLoop,    \* "read", "register" or "welcome"
  readDial,    \* the dial whose hello readLoop is handling
  ids,         \* session ids handed out so far are 1 .. ids
  helloOf,     \* the dial whose hello made the session
  sessions,    \* keys of udpServer.sessions (and of sessionRemote)
  byRemote,    \* udpServer.byRemote, 0 for no entry
  open,        \* sessions not closed
  cleaners,    \* sessions whose cleanup goroutine waits for Done
  confirm,     \* where the confirmation goroutine of each session is
  \* the server's manager
  mgrClosed,   \* the manager's context is cancelled
  current,     \* Manager.sessions["udp"], 0 for none
  forwarders,  \* sessions whose forwarding goroutine runs
  \* the client
  dial,        \* number of the current or last dial
  remote,      \* source address of each dial, named after the first dial from it
  client,      \* "idle", "hello", "confirm" or "up"
  attempts,    \* hellos sent by the current dial
  cid,         \* session id of the client's session, 0 for none
  \* the network
  hellos,      \* dials whose hello was sent
  welcomes,    \* sessions whose welcome was sent
  cconfirms,   \* sessions on which clientConfirm was sent
  sconfirms    \* sessions on which serverConfirm was sent

tableVars   == <<sessions, byRemote>>
readVars    == <<readLoop, readDial, ids, helloOf>>
managerVars == <<mgrClosed, current, forwarders>>
clientVars  == <<dial, remote, client, attempts, cid>>
netVars     == <<hellos, welcomes, cconfirms, sconfirms>>
vars == <<srvClosed, readVars, tableVars, open, cleaners, confirm, managerVars,
          clientVars, netVars>>

Ids == 1 .. MaxIds
Dials == 1 .. MaxDials
Remotes == Dials
RemoteOf(id) == remote[helloOf[id]]

Init ==
  /\ srvClosed = FALSE /\ readLoop = "read" /\ readDial = 0
  /\ ids = 0 /\ helloOf = [id \in Ids |-> 0]
  /\ sessions = {} /\ byRemote = [r \in Remotes |-> 0]
  /\ open = {} /\ cleaners = {} /\ confirm = [id \in Ids |-> "none"]
  /\ mgrClosed = FALSE /\ current = 0 /\ forwarders = {}
  /\ dial = 0
  /\ remote \in {f \in [Dials -> Remotes] : \A d \in Dials : f[d] =< d /\ f[f[d]] = f[d]}
  /\ client = "idle" /\ attempts = 0 /\ cid = 0
  /\ hellos = {} /\ welcomes = {} /\ cconfirms = {} /\ sconfirms = {}

-----------------------------------------------------------------------------
(* The client: dialUDPSession, called in a loop by clientLoop.             *)

DialBegin ==
  /\ client = "idle" /\ dial < MaxDials
  /\ dial' = dial + 1
  /\ client' = "hello" /\ attempts' = 0
  /\ UNCHANGED <<srvClosed, readVars, tableVars, open, cleaners, confirm, managerVars>>
  /\ UNCHANGED <<remote, cid, netVars>>

SendHello ==
  /\ client = "hello" /\ attempts < MaxAttempts
  /\ hellos' = hellos \cup {dial}
  /\ attempts' = attempts + 1
  /\ UNCHANGED <<srvClosed, readVars, tableVars, open, cleaners, confirm, managerVars>>
  /\ UNCHANGED <<dial, remote, client, cid, welcomes, cconfirms, sconfirms>>

\* The first welcome of this dial that arrives; the client's session is made
\* and clientConfirm sent on it.
GetWelcome(id) ==
  /\ client = "hello" /\ attempts > 0
  /\ id \in welcomes /\ helloOf[id] = dial
  /\ cid' = id /\ client' = "confirm" /\ attempts' = 0
  /\ cconfirms' = cconfirms \cup {id}
  /\ UNCHANGED <<srvClosed, readVars, tableVars, open, cleaners, confirm, managerVars>>
  /\ UNCHANGED <<dial, remote, hellos, welcomes, sconfirms>>

\* confirmSessionClient receives serverConfirm: dialUDPSession returns the
\* session and the client's manager exposes it.
ClientConfirmed ==
  /\ client = "confirm" /\ cid \in sconfirms
  /\ client' = "up"
  /\ UNCHANGED <<srvClosed, readVars, tableVars, open, cleaners, confirm, managerVars>>
  /\ UNCHANGED <<dial, remote, attempts, cid, netVars>>

\* Timeouts, socket errors, and the end of the client's session.  The server
\* is not told.
ClientFails ==
  /\ client # "idle"
  /\ client' = "idle" /\ attempts' = 0 /\ cid' = 0
  /\ UNCHANGED <<srvClosed, readVars, tableVars, open, cleaners, confirm, managerVars>>
  /\ UNCHANGED <<dial, remote, netVars>>

-----------------------------------------------------------------------------
(* handleHello, run by the server's readLoop.                              *)

\* Mutant: the capacity check is off by one.
BelowCapacityLate == Cardinality(sessions) =< MaxSessions
BelowCapacity == Cardinality(sessions) < MaxSessions

\* The hello verifies and the capacity check, under its own lock, passes.
HelloArrives(d) ==
  /\ readLoop = "read" /\ ~srvClosed /\ ids < MaxIds
  /\ d \in hellos
  /\ BelowCapacity
  /\ readLoop' = "register" /\ readDial' = d
  /\ UNCHANGED <<srvClosed, ids, helloOf, tableVars, open, cleaners, confirm>>
  /\ UNCHANGED <<managerVars, clientVars, netVars>>

\* A session with a fresh random id enters the table.
Register ==
  /\ readLoop = "register"
  /\ ids' = ids + 1
  /\ helloOf' = [helloOf EXCEPT ![ids'] = readDial]
  /\ sessions' = sessions \cup {ids'}
  /\ open' = open \cup {ids'}
  /\ readLoop' = "welcome"
  /\ UNCHANGED <<srvClosed, readDial, byRemote, cleaners, confirm, managerVars>>
  /\ UNCHANGED <<clientVars, netVars>>

\* The welcome is written, then the two goroutines of the session start.
WelcomeOK ==
  /\ readLoop = "welcome" /\ ~srvClosed
  /\ welcomes' = welcomes \cup {ids}
  /\ cleaners' = cleaners \cup {ids}
  /\ confirm' = [confirm EXCEPT ![ids] = "wait"]
  /\ readLoop' = "read" /\ readDial' = 0
  /\ UNCHANGED <<srvClosed, ids, helloOf, tableVars, open, managerVars, clientVars>>
  /\ UNCHANGED <<hellos, cconfirms, sconfirms>>

\* WriteToUDP fails: the session is closed and handleHello returns.
WelcomeFails ==
  /\ readLoop = "welcome"
  /\ open' = open \ {ids}
  /\ readLoop' = "read" /\ readDial' = 0
  /\ UNCHANGED <<srvClosed, ids, helloOf, tableVars, cleaners, confirm>>
  /\ UNCHANGED <<managerVars, clientVars, netVars>>

-----------------------------------------------------------------------------
(* The goroutines of a server session.                                     *)

\* Mutant: the server does not wait for clientConfirm.
ConfirmUnheard(id) ==
  /\ confirm[id] = "wait"
  /\ id \in open /\ ~srvClosed
  /\ sconfirms' = sconfirms \cup {id}
  /\ confirm' = [confirm EXCEPT ![id] = "install"]
  /\ UNCHANGED <<srvClosed, readVars, tableVars, open, cleaners, managerVars, clientVars>>
  /\ UNCHANGED <<hellos, welcomes, cconfirms>>

\* confirmSessionServer: clientConfirm is received and serverConfirm sent.
ConfirmOK(id) ==
  /\ confirm[id] = "wait"
  /\ id \in cconfirms /\ id \in open /\ ~srvClosed
  /\ sconfirms' = sconfirms \cup {id}
  /\ confirm' = [confirm EXCEPT ![id] = "install"]
  /\ UNCHANGED <<srvClosed, readVars, tableVars, open, cleaners, managerVars, clientVars>>
  /\ UNCHANGED <<hellos, welcomes, cconfirms>>

\* The five second timer, the end of the session, or a failed Send.
ConfirmFails(id) ==
  /\ confirm[id] = "wait"
  /\ open' = open \ {id}
  /\ confirm' = [confirm EXCEPT ![id] = "done"]
  /\ UNCHANGED <<srvClosed, readVars, tableVars, cleaners, managerVars, clientVars, netVars>>

\* Mutant: the confirmed session is indexed without looking whether it is
\* still in the table.
InstallUnchecked(id) ==
  /\ confirm[id] = "install"
  /\ LET r == RemoteOf(id)
         old == {byRemote[r]} \ {0, id} IN
       /\ open' = open \ old
       /\ byRemote' = [byRemote EXCEPT ![r] = id]
       /\ confirm' = [confirm EXCEPT ![id] = "expose"]
  /\ UNCHANGED <<srvClosed, readVars, sessions, cleaners, managerVars, clientVars, netVars>>

\* Under mu: a session no longer registered is closed; otherwise it becomes
\* its remote's session and the previous one is closed after the unlock.
Install(id) ==
  /\ confirm[id] = "install"
  /\ \/ /\ id \notin sessions
        /\ open' = open \ {id}
        /\ confirm' = [confirm EXCEPT ![id] = "done"]
        /\ UNCHANGED byRemote
     \/ LET r == RemoteOf(id)
            old == {byRemote[r]} \cap (sessions \ {id}) IN
          /\ id \in sessions
          /\ open' = open \ old
          /\ byRemote' = [byRemote EXCEPT ![r] = id]
          /\ confirm' = [confirm EXCEPT ![id] = "expose"]
  /\ UNCHANGED <<srvClosed, readVars, sessions, cleaners, managerVars, clientVars, netVars>>

\* Mutant: the replaced session is left open.
ExposeKeepsOld(id) ==
  /\ confirm[id] = "expose" /\ ~mgrClosed
  /\ current' = id
  /\ forwarders' = forwarders \cup {id}
  /\ confirm' = [confirm EXCEPT ![id] = "done"]
  /\ UNCHANGED <<srvClosed, readVars, tableVars, open, cleaners, mgrClosed, clientVars, netVars>>

\* onSession, that is Manager.addSession.
Expose(id) ==
  /\ confirm[id] = "expose"
  /\ confirm' = [confirm EXCEPT ![id] = "done"]
  /\ \/ /\ mgrClosed
        /\ open' = open \ {id}
        /\ UNCHANGED <<current, forwarders>>
     \/ /\ ~mgrClosed
        /\ open' = open \ ({current} \ {id})
        /\ current' = id
        /\ forwarders' = forwarders \cup {id}
  /\ UNCHANGED <<srvClosed, readVars, tableVars, cleaners, mgrClosed, clientVars, netVars>>

\* The cleanup goroutine: Done, then the table under mu.
Cleanup(id) ==
  /\ id \in cleaners /\ id \notin open
  /\ cleaners' = cleaners \ {id}
  /\ sessions' = sessions \ {id}
  /\ byRemote' = [r \in Remotes |->
                    IF id \in sessions /\ byRemote[r] = id /\ r = RemoteOf(id)
                      THEN 0 ELSE byRemote[r]]
  /\ UNCHANGED <<srvClosed, readVars, open, confirm, managerVars, clientVars, netVars>>

\* The session ends by itself: missing ACKs, a full queue, a failed write.
SessionDies(id) ==
  /\ id \in open /\ confirm[id] # "none"
  /\ open' = open \ {id}
  /\ UNCHANGED <<srvClosed, readVars, tableVars, cleaners, confirm, managerVars, clientVars, netVars>>

\* Mutant: the forwarder ends without removing the session.
ForwarderJustEnds(id) ==
  /\ id \in forwarders /\ (id \notin open \/ mgrClosed)
  /\ forwarders' = forwarders \ {id}
  /\ UNCHANGED <<srvClosed, readVars, tableVars, open, cleaners, confirm, mgrClosed, current>>
  /\ UNCHANGED <<clientVars, netVars>>

\* The manager's forwarding goroutine sees Done (removeSession) or ctx.Done.
ForwarderEnds(id) ==
  /\ id \in forwarders /\ (id \notin open \/ mgrClosed)
  /\ forwarders' = forwarders \ {id}
  /\ current' = IF current = id THEN 0 ELSE current
  /\ open' = open \ {id}
  /\ UNCHANGED <<srvClosed, readVars, tableVars, cleaners, confirm, mgrClosed, clientVars, netVars>>

-----------------------------------------------------------------------------
(* Manager.Close: cancel and close the manager's session, then the server. *)

ManagerClose ==
  /\ ~mgrClosed
  /\ mgrClosed' = TRUE
  /\ open' = open \ {current}
  /\ current' = 0
  /\ UNCHANGED <<srvClosed, readVars, tableVars, cleaners, confirm, forwarders, clientVars, netVars>>

\* Mutant: the table is emptied and its sessions left open.
ServerCloseForgets ==
  /\ mgrClosed /\ ~srvClosed
  /\ srvClosed' = TRUE
  /\ sessions' = {}
  /\ byRemote' = [r \in Remotes |-> 0]
  /\ UNCHANGED <<readVars, open, cleaners, confirm, managerVars, clientVars, netVars>>

ServerClose ==
  /\ mgrClosed /\ ~srvClosed
  /\ srvClosed' = TRUE
  /\ open' = open \ sessions
  /\ sessions' = {}
  /\ byRemote' = [r \in Remotes |-> 0]
  /\ UNCHANGED <<readVars, cleaners, confirm, managerVars, clientVars, netVars>>

-----------------------------------------------------------------------------
Handling == Register \/ WelcomeOK \/ WelcomeFails
Confirming(id) == ConfirmOK(id) \/ ConfirmFails(id) \/ Install(id) \/ Expose(id)

Next ==
  \/ DialBegin \/ SendHello \/ ClientConfirmed \/ ClientFails
  \/ \E id \in Ids : GetWelcome(id)
  \/ \E d \in Dials : HelloArrives(d)
  \/ Handling
  \/ \E id \in Ids : Confirming(id) \/ Cleanup(id) \/ SessionDies(id) \/ ForwarderEnds(id)
  \/ ManagerClose \/ ServerClose

Spec == Init /\ [][Next]_vars

\* The server's goroutines run when they can and their timers fire.  Nothing
\* is assumed of the network or of the client.
Fairness ==
  /\ WF_vars(Handling)
  /\ \A id \in Ids : /\ WF_vars(Confirming(id)) /\ WF_vars(Cleanup(id))
                     /\ WF_vars(ForwarderEnds(id))

FairSpec == Spec /\ Fairness

-----------------------------------------------------------------------------
(* Properties.                                                             *)

\* handleHello drops the lock between its capacity check and the insertion,
\* and still never lets the table grow past maxUDPSessions.
CapacityRespected == Cardinality(sessions) =< MaxSessions

\* byRemote never points at a session that has left the table, so the session
\* a newer one replaces is the one of that remote.
ByRemoteRegistered ==
  \A r \in Remotes :
    byRemote[r] # 0 => byRemote[r] \in sessions /\ RemoteOf(byRemote[r]) = r

\* Close reaches every open session: it is in the table, or readLoop is about
\* to find out that its welcome cannot be written.
OpenIsRegistered ==
  open \subseteq sessions \cup (IF readLoop = "welcome" THEN {ids} ELSE {})

\* "A transport is not exposed to the application until both confirmations
\* succeed": a hello alone, repeated or late, never changes the manager's
\* session, and a client is up only on a session the server confirmed.
ExposedIsConfirmed ==
  /\ current # 0 => current \in cconfirms \cap sconfirms
  /\ client = "up" => cid \in sconfirms

\* A session that was closed does not stay the manager's session, even when
\* a slow confirmation goroutine puts it there after a newer one.
DeadCurrentLeaves ==
  \A id \in Ids : (current = id /\ id \notin open) ~> current # id

\* A welcome that could not be written leaves a closed session behind.
Unwelcomed(id) == id \notin welcomes /\ id \notin open

\* Only the manager's session stays in the table: unconfirmed, replaced and
\* dead sessions leave it.
OthersLeaveTable ==
  \A id \in Ids : id \in sessions ~> (id \notin sessions \/ current = id \/ Unwelcomed(id))

\* "Automatic reconnect": a table full of dead sessions does not keep the
\* server from accepting new ones for ever.
DeadTableDrains ==
  (~BelowCapacity /\ sessions \cap open = {}) ~> (BelowCapacity \/ mgrClosed)
=============================================================================
