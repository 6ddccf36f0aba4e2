--------------------------- MODULE UdpServerProofs ---------------------------
(* The tables of the UDP server stay consistent for every number of dials    *)
(* and sessions and every table size.                                       *)
EXTENDS UdpServer, FiniteSetTheorems, TLAPS

\* Identifiers are handed out in order, and a session's hello is known.
ServerType ==
  /\ ids \in 0 .. MaxIds /\ helloOf \in [Ids -> 0 .. MaxDials]
  /\ remote \in [Dials -> Remotes] /\ byRemote \in [Remotes -> 0 .. MaxIds]
  /\ confirm \in [Ids -> {"none", "wait", "install", "expose", "done"}]
  /\ readLoop \in {"read", "register", "welcome"}
  /\ srvClosed \in BOOLEAN /\ hellos \subseteq Dials /\ dial \in 0 .. MaxDials

Numbered ==
  /\ sessions \subseteq 1 .. ids /\ cleaners \subseteq 1 .. ids
  /\ \A id \in 1 .. ids : helloOf[id] \in Dials
  /\ client = "hello" => dial \in Dials

\* What readLoop knows between two of its steps.
Handled ==
  /\ readLoop = "register" => readDial \in Dials /\ ids < MaxIds /\ Cardinality(sessions) < MaxSessions
  /\ readLoop = "welcome" => ids > 0 /\ ids \notin cleaners
  /\ readLoop = "welcome" /\ ~srvClosed => ids \in sessions

\* A confirmation goroutine goes on only after both confirmations.
Confirmed ==
  \A id \in Ids : confirm[id] \in {"install", "expose"} => id \in cconfirms \cap sconfirms

ServerInv ==
  /\ ServerType /\ Numbered /\ Handled /\ Confirmed
  /\ CapacityRespected /\ ByRemoteRegistered /\ OpenIsRegistered /\ ExposedIsConfirmed

\* The table is finite.
LEMMA SessionsFinite ==
  ASSUME ServerType, Numbered
  PROVE  IsFiniteSet(sessions) /\ Cardinality(sessions) \in Nat
<1>1. IsFiniteSet(1 .. ids)
  BY FS_Interval DEF ServerType
<1>2. IsFiniteSet(sessions)
  BY <1>1, FS_Subset DEF Numbered
<1> QED BY <1>2, FS_CardinalityType

\* A table that loses entries stays within its size.
LEMMA Shrinks ==
  ASSUME ServerType, Numbered, CapacityRespected, sessions' \subseteq sessions
  PROVE  /\ CapacityRespected'
         /\ Cardinality(sessions) < MaxSessions => Cardinality(sessions') < MaxSessions
<1>1. IsFiniteSet(sessions) /\ Cardinality(sessions) \in Nat
  BY SessionsFinite
<1>2. IsFiniteSet(sessions') /\ Cardinality(sessions') =< Cardinality(sessions)
  BY <1>1, FS_Subset
<1>3. Cardinality(sessions') \in Nat
  BY <1>2, FS_CardinalityType
<1> QED BY <1>1, <1>2, <1>3, ServerAssumption DEF CapacityRespected

\* No session at the start.
LEMMA ServerInit == Init => ServerInv
<1> SUFFICES ASSUME Init PROVE ServerInv
  OBVIOUS
<1>1. Cardinality(sessions) = 0
  BY FS_EmptySet DEF Init
<1>2. ServerType
  <2>1. remote \in [Dials -> Remotes]
    BY DEF Init
  <2>2. /\ ids \in 0 .. MaxIds /\ helloOf \in [Ids -> 0 .. MaxDials]
        /\ byRemote \in [Remotes -> 0 .. MaxIds] /\ dial \in 0 .. MaxDials
    BY ServerAssumption DEF Init
  <2>3. /\ confirm \in [Ids -> {"none", "wait", "install", "expose", "done"}]
        /\ readLoop \in {"read", "register", "welcome"}
        /\ srvClosed \in BOOLEAN /\ hellos \subseteq Dials
    BY DEF Init
  <2> QED BY <2>1, <2>2, <2>3 DEF ServerType
<1>3. Numbered /\ Handled /\ Confirmed
  BY DEF Init, Numbered, Handled, Confirmed
<1>4. CapacityRespected
  BY <1>1, ServerAssumption DEF CapacityRespected
<1>5. ByRemoteRegistered /\ OpenIsRegistered /\ ExposedIsConfirmed
  BY DEF Init, ByRemoteRegistered, OpenIsRegistered, ExposedIsConfirmed
<1> QED BY <1>2, <1>3, <1>4, <1>5 DEF ServerInv

-----------------------------------------------------------------------------
\* The client touches nothing of the server but the network.
LEMMA ClientStep ==
  ASSUME ServerInv, DialBegin \/ SendHello \/ ClientConfirmed \/ ClientFails \/ \E id \in Ids : GetWelcome(id)
  PROVE  ServerInv'
<1> USE DEF ServerInv
<1>1. /\ UNCHANGED <<srvClosed, readVars, tableVars, open, cleaners, confirm, managerVars, remote, sconfirms>>
      /\ cconfirms \subseteq cconfirms'
  BY DEF DialBegin, SendHello, ClientConfirmed, ClientFails, GetWelcome, netVars
<1>2. /\ hellos' \subseteq Dials /\ dial' \in 0 .. MaxDials
      /\ client' = "hello" => dial' \in Dials
  <2>1. CASE DialBegin
    BY <2>1, ServerAssumption DEF DialBegin, netVars, ServerType, Numbered, Dials
  <2>2. CASE SendHello
    BY <2>2 DEF SendHello, ServerType, Numbered
  <2>3. CASE ClientConfirmed \/ ClientFails
    BY <2>3 DEF ClientConfirmed, ClientFails, netVars, ServerType
  <2>4. CASE \E id \in Ids : GetWelcome(id)
    BY <2>4 DEF GetWelcome, ServerType
  <2> QED BY <2>1, <2>2, <2>3, <2>4
<1>3. ServerType' /\ Numbered'
  BY <1>1, <1>2 DEF ServerType, Numbered, readVars, tableVars
<1>4. Handled' /\ Confirmed' /\ CapacityRespected'
  BY <1>1 DEF Handled, Confirmed, CapacityRespected, readVars, tableVars
<1>5. ByRemoteRegistered' /\ OpenIsRegistered'
  BY <1>1 DEF ByRemoteRegistered, OpenIsRegistered, RemoteOf, readVars, tableVars
<1>6. client' = "up" => cid' \in sconfirms'
  BY <1>1 DEF DialBegin, SendHello, ClientConfirmed, ClientFails, GetWelcome, ExposedIsConfirmed
<1>7. ExposedIsConfirmed'
  BY <1>1, <1>6 DEF ExposedIsConfirmed, managerVars
<1> QED BY <1>3, <1>4, <1>5, <1>7

\* readLoop accepts a hello.
LEMMA HelloStep ==
  ASSUME ServerInv, NEW d \in Dials, HelloArrives(d)
  PROVE  ServerInv'
<1> USE DEF ServerInv
<1>1. /\ UNCHANGED <<srvClosed, ids, helloOf, tableVars, open, cleaners, confirm, managerVars,
                     clientVars, netVars>>
      /\ readLoop = "read" /\ readLoop' = "register" /\ readDial' = d
      /\ ids < MaxIds /\ Cardinality(sessions) < MaxSessions
  BY DEF HelloArrives, BelowCapacity
<1>2. ServerType' /\ Numbered'
  BY <1>1 DEF ServerType, Numbered, tableVars, clientVars, netVars
<1>3. Handled' /\ Confirmed' /\ CapacityRespected'
  BY <1>1 DEF Handled, Confirmed, CapacityRespected, tableVars, netVars
<1>4. ByRemoteRegistered' /\ OpenIsRegistered' /\ ExposedIsConfirmed'
  BY <1>1 DEF ByRemoteRegistered, OpenIsRegistered, ExposedIsConfirmed, RemoteOf, tableVars,
     clientVars, managerVars, netVars
<1> QED BY <1>2, <1>3, <1>4

\* The session enters the table under the next identifier.
LEMMA RegisterStep ==
  ASSUME ServerInv, Register
  PROVE  ServerInv'
<1> USE DEF ServerInv
<1>1. /\ readLoop = "register" /\ readLoop' = "welcome" /\ ids' = ids + 1
      /\ helloOf' = [helloOf EXCEPT ![ids'] = readDial]
      /\ sessions' = sessions \cup {ids'} /\ open' = open \cup {ids'}
      /\ UNCHANGED <<srvClosed, readDial, byRemote, cleaners, confirm, managerVars, clientVars, netVars>>
  BY DEF Register
<1>2. ids \in Nat /\ ids < MaxIds /\ readDial \in Dials /\ MaxIds \in Nat
  BY <1>1, ServerAssumption DEF Handled, ServerType
<1>3. ids' \in Ids /\ ids' \notin sessions /\ ids' \notin cleaners
  BY <1>1, <1>2 DEF Numbered, Ids
<1>4. \A id \in 1 .. ids : helloOf'[id] = helloOf[id]
  BY <1>1, <1>2 DEF ServerType, Ids
<1>5. helloOf'[ids'] = readDial
  BY <1>1, <1>3 DEF ServerType
<1>6. ServerType'
  BY <1>1, <1>2, <1>3 DEF ServerType, clientVars, netVars, Ids, Dials
<1>7. Numbered'
  <2>1. \A id \in 1 .. ids' : id \in 1 .. ids \/ id = ids'
    BY <1>1, <1>2
  <2>2. sessions' \subseteq 1 .. ids' /\ cleaners' \subseteq 1 .. ids'
    BY <1>1, <1>2 DEF Numbered
  <2> QED BY <1>1, <1>2, <1>4, <1>5, <2>1, <2>2 DEF Numbered, clientVars
<1>8. Handled' /\ Confirmed'
  BY <1>1, <1>2, <1>3 DEF Handled, Confirmed, netVars
<1>9. CapacityRespected'
  <2>1. IsFiniteSet(sessions) /\ Cardinality(sessions) \in Nat
    BY SessionsFinite
  <2>2. Cardinality(sessions') = Cardinality(sessions) + 1
    BY <1>1, <1>3, <2>1, FS_AddElement
  <2> QED BY <1>1, <2>1, <2>2, ServerAssumption DEF Handled, CapacityRespected
<1>10. ByRemoteRegistered'
  <2>1. \A id \in sessions : id \in 1 .. ids
    BY DEF Numbered
  <2> QED BY <1>1, <1>4, <2>1 DEF ByRemoteRegistered, RemoteOf, clientVars
<1>11. OpenIsRegistered' /\ ExposedIsConfirmed'
  BY <1>1 DEF OpenIsRegistered, ExposedIsConfirmed, clientVars, managerVars, netVars
<1> QED BY <1>6, <1>7, <1>8, <1>9, <1>10, <1>11

\* The welcome is written, or cannot be.
LEMMA WelcomeStep ==
  ASSUME ServerInv, WelcomeOK \/ WelcomeFails
  PROVE  ServerInv'
<1> USE DEF ServerInv
<1>1. /\ readLoop = "welcome" /\ readLoop' = "read"
      /\ UNCHANGED <<srvClosed, ids, helloOf, tableVars, managerVars, clientVars>>
      /\ UNCHANGED <<hellos, cconfirms, sconfirms>>
  BY DEF WelcomeOK, WelcomeFails, netVars
<1>2. ids \in Ids /\ ids \in 1 .. ids
  BY <1>1, ServerAssumption DEF Handled, ServerType, Ids
<1>3. cleaners' \subseteq cleaners \cup {ids} /\ (confirm' = confirm \/ confirm' = [confirm EXCEPT ![ids] = "wait"])
  BY DEF WelcomeOK, WelcomeFails
<1>4. ServerType' /\ Numbered'
  BY <1>1, <1>2, <1>3 DEF ServerType, Numbered, tableVars, clientVars
<1>5. Handled' /\ CapacityRespected' /\ ByRemoteRegistered'
  BY <1>1 DEF Handled, CapacityRespected, ByRemoteRegistered, RemoteOf, tableVars, clientVars
<1>6. Confirmed' /\ ExposedIsConfirmed'
  BY <1>1, <1>3 DEF Confirmed, ExposedIsConfirmed, ServerType, clientVars, managerVars
<1>7. OpenIsRegistered'
  BY <1>1 DEF WelcomeOK, WelcomeFails, OpenIsRegistered, Handled, tableVars
<1> QED BY <1>4, <1>5, <1>6, <1>7
-----------------------------------------------------------------------------
\* A confirmation goroutine takes a step that leaves the tables alone.
LEMMA ConfirmStep ==
  ASSUME ServerInv, NEW i \in Ids, ConfirmOK(i) \/ ConfirmFails(i) \/ Expose(i)
  PROVE  ServerInv'
<1> USE DEF ServerInv
<1>1. /\ UNCHANGED <<srvClosed, readVars, tableVars, cleaners, clientVars, hellos, cconfirms>>
      /\ open' \subseteq open
  BY DEF ConfirmOK, ConfirmFails, Expose, netVars
<1>2. \/ confirm' = [confirm EXCEPT ![i] = "install"] /\ i \in cconfirms /\ sconfirms' = sconfirms \cup {i}
      \/ confirm' = [confirm EXCEPT ![i] = "done"] /\ sconfirms' = sconfirms
  BY DEF ConfirmOK, ConfirmFails, Expose, netVars
<1>3. ServerType' /\ Numbered'
  BY <1>1, <1>2 DEF ServerType, Numbered, readVars, tableVars, clientVars
<1>4. Handled' /\ CapacityRespected' /\ ByRemoteRegistered' /\ OpenIsRegistered'
  BY <1>1 DEF Handled, CapacityRespected, ByRemoteRegistered, OpenIsRegistered, RemoteOf, readVars,
     tableVars, clientVars
<1>5. Confirmed'
  BY <1>1, <1>2 DEF Confirmed, ServerType
<1>6. sconfirms \subseteq sconfirms'
  BY <1>2
<1>7. current' = current \/ (current' = i /\ confirm[i] = "expose")
  BY DEF ConfirmOK, ConfirmFails, Expose, managerVars
<1>8. ExposedIsConfirmed'
  BY <1>1, <1>6, <1>7 DEF ExposedIsConfirmed, Confirmed, clientVars
<1> QED BY <1>3, <1>4, <1>5, <1>8

\* A confirmed session becomes the one of its remote.
LEMMA InstallStep ==
  ASSUME ServerInv, NEW i \in Ids, Install(i)
  PROVE  ServerInv'
<1> USE DEF ServerInv
<1>1. /\ UNCHANGED <<srvClosed, readVars, sessions, cleaners, managerVars, clientVars, netVars>>
      /\ open' \subseteq open /\ confirm[i] = "install"
      /\ confirm' \in {[confirm EXCEPT ![i] = "done"], [confirm EXCEPT ![i] = "expose"]}
      /\ \/ byRemote' = byRemote
         \/ i \in sessions /\ byRemote' = [byRemote EXCEPT ![RemoteOf(i)] = i]
  BY DEF Install
<1>2. i \in 0 .. MaxIds
  BY ServerAssumption DEF Ids
<1>3. ServerType'
  BY <1>1, <1>2 DEF ServerType, readVars, clientVars, netVars
<1>4. Numbered' /\ Handled' /\ CapacityRespected' /\ OpenIsRegistered'
  BY <1>1 DEF Numbered, Handled, CapacityRespected, OpenIsRegistered, readVars, clientVars
<1>5. Confirmed' /\ ExposedIsConfirmed'
  BY <1>1 DEF Confirmed, ExposedIsConfirmed, ServerType, managerVars, clientVars, netVars
<1>6. ByRemoteRegistered'
  BY <1>1 DEF ByRemoteRegistered, RemoteOf, ServerType, readVars, clientVars
<1> QED BY <1>3, <1>4, <1>5, <1>6

\* The cleanup goroutine takes the session out of both tables.
LEMMA CleanupStep ==
  ASSUME ServerInv, NEW i \in Ids, Cleanup(i)
  PROVE  ServerInv'
<1> USE DEF ServerInv
<1>1. /\ UNCHANGED <<srvClosed, readVars, open, confirm, managerVars, clientVars, netVars>>
      /\ i \in cleaners /\ i \notin open
      /\ cleaners' = cleaners \ {i} /\ sessions' = sessions \ {i}
      /\ byRemote' = [r \in Remotes |->
                        IF i \in sessions /\ byRemote[r] = i /\ r = RemoteOf(i) THEN 0 ELSE byRemote[r]]
  BY DEF Cleanup
<1>2. ServerType' /\ Numbered'
  BY <1>1, ServerAssumption DEF ServerType, Numbered, readVars, clientVars, netVars
<1>3. /\ CapacityRespected'
      /\ Cardinality(sessions) < MaxSessions => Cardinality(sessions') < MaxSessions
  BY <1>1, Shrinks
<1>4. Handled'
  BY <1>1, <1>3 DEF Handled, readVars
<1>5. Confirmed' /\ ExposedIsConfirmed' /\ OpenIsRegistered'
  BY <1>1 DEF Confirmed, ExposedIsConfirmed, OpenIsRegistered, readVars, managerVars, clientVars, netVars
<1>6. ByRemoteRegistered'
  BY <1>1 DEF ByRemoteRegistered, RemoteOf, readVars, clientVars
<1> QED BY <1>2, <1>3, <1>4, <1>5, <1>6

\* Sessions end, forwarders end and the manager closes its entry: the tables
\* wait for the cleanup goroutines.
LEMMA EndStep ==
  ASSUME ServerInv, ManagerClose \/ \E id \in Ids : SessionDies(id) \/ ForwarderEnds(id)
  PROVE  ServerInv'
<1> USE DEF ServerInv
<1>1. /\ UNCHANGED <<srvClosed, readVars, tableVars, cleaners, confirm, clientVars, netVars>>
      /\ open' \subseteq open /\ current' \in {0, current}
  BY DEF ManagerClose, SessionDies, ForwarderEnds, managerVars
<1>2. ServerType' /\ Numbered'
  BY <1>1 DEF ServerType, Numbered, readVars, tableVars, clientVars, netVars
<1>3. Handled' /\ CapacityRespected' /\ ByRemoteRegistered' /\ OpenIsRegistered'
  BY <1>1 DEF Handled, CapacityRespected, ByRemoteRegistered, OpenIsRegistered, RemoteOf, readVars,
     tableVars, clientVars
<1>4. Confirmed' /\ ExposedIsConfirmed'
  BY <1>1 DEF Confirmed, ExposedIsConfirmed, clientVars, netVars
<1> QED BY <1>2, <1>3, <1>4

\* The server closes: the tables are emptied and what was in them is closed.
LEMMA ServerCloseStep ==
  ASSUME ServerInv, ServerClose
  PROVE  ServerInv'
<1> USE DEF ServerInv
<1>1. /\ UNCHANGED <<readVars, cleaners, confirm, managerVars, clientVars, netVars>>
      /\ srvClosed' = TRUE /\ open' = open \ sessions /\ sessions' = {}
      /\ byRemote' = [r \in Remotes |-> 0]
  BY DEF ServerClose
<1>2. ServerType' /\ Numbered'
  BY <1>1, ServerAssumption DEF ServerType, Numbered, readVars, clientVars, netVars
<1>3. /\ CapacityRespected'
      /\ Cardinality(sessions) < MaxSessions => Cardinality(sessions') < MaxSessions
  BY <1>1, Shrinks
<1>4. Handled'
  BY <1>1, <1>3 DEF Handled, readVars
<1>5. ByRemoteRegistered' /\ OpenIsRegistered' /\ Confirmed' /\ ExposedIsConfirmed'
  BY <1>1 DEF ByRemoteRegistered, OpenIsRegistered, Confirmed, ExposedIsConfirmed, readVars,
     managerVars, clientVars, netVars
<1> QED BY <1>2, <1>3, <1>4, <1>5

\* Steps that change nothing.
LEMMA ServerStutter ==
  ASSUME ServerInv, UNCHANGED vars
  PROVE  ServerInv'
<1> USE DEF ServerInv, vars, readVars, tableVars, managerVars, clientVars, netVars
<1>1. ServerType' /\ Numbered' /\ Handled' /\ Confirmed'
  BY DEF ServerType, Numbered, Handled, Confirmed
<1>2. CapacityRespected' /\ ByRemoteRegistered' /\ OpenIsRegistered' /\ ExposedIsConfirmed'
  BY DEF CapacityRespected, ByRemoteRegistered, OpenIsRegistered, ExposedIsConfirmed, RemoteOf
<1> QED BY <1>1, <1>2

-----------------------------------------------------------------------------
\* The invariant of udpServer's tables, and of what its goroutines know of
\* them between two critical sections, is inductive.
THEOREM ServerInvariance == Spec => []ServerInv
<1>1. ServerInv /\ [Next]_vars => ServerInv'
  <2> SUFFICES ASSUME ServerInv, [Next]_vars PROVE ServerInv'
    OBVIOUS
  <2>1. CASE DialBegin \/ SendHello \/ ClientConfirmed \/ ClientFails \/ \E id \in Ids : GetWelcome(id)
    BY <2>1, ClientStep
  <2>2. CASE \E d \in Dials : HelloArrives(d)
    BY <2>2, HelloStep
  <2>3. CASE Handling
    BY <2>3, RegisterStep, WelcomeStep DEF Handling
  <2>4. CASE \E id \in Ids : Confirming(id)
    BY <2>4, ConfirmStep, InstallStep DEF Confirming
  <2>5. CASE \E id \in Ids : Cleanup(id)
    BY <2>5, CleanupStep
  <2>6. CASE ManagerClose \/ \E id \in Ids : SessionDies(id) \/ ForwarderEnds(id)
    BY <2>6, EndStep
  <2>7. CASE ServerClose
    BY <2>7, ServerCloseStep
  <2>8. CASE UNCHANGED vars
    BY <2>8, ServerStutter
  <2> QED BY <2>1, <2>2, <2>3, <2>4, <2>5, <2>6, <2>7, <2>8 DEF Next
<1> QED BY <1>1, ServerInit, PTL DEF Spec

\* The capacity check and the insertion are two critical sections, and still
\* the table never holds more than maxUDPSessions sessions.
THEOREM TableWithinCapacity == Spec => []CapacityRespected
<1>1. ServerInv => CapacityRespected
  BY DEF ServerInv
<1> QED BY <1>1, ServerInvariance, PTL

\* byRemote never points at a session that has left the table.
THEOREM RemotesRegistered == Spec => []ByRemoteRegistered
<1>1. ServerInv => ByRemoteRegistered
  BY DEF ServerInv
<1> QED BY <1>1, ServerInvariance, PTL

\* udpServer.Close reaches every open session but the one readLoop holds.
THEOREM OpenStaysRegistered == Spec => []OpenIsRegistered
<1>1. ServerInv => OpenIsRegistered
  BY DEF ServerInv
<1> QED BY <1>1, ServerInvariance, PTL

\* No session carries traffic before the key confirmation of both ends.
THEOREM ExposedAfterConfirmation == Spec => []ExposedIsConfirmed
<1>1. ServerInv => ExposedIsConfirmed
  BY DEF ServerInv
<1> QED BY <1>1, ServerInvariance, PTL
=============================================================================
