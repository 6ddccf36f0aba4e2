------------------------------- MODULE UdpFlow -------------------------------
(***************************************************************************)
(* Forwarded UDP datagrams of internal/app/app.go: the flow tables of the  *)
(* entry node (entryUDP and entryUDPKeys, for one client) and of the exit  *)
(* node (remoteUDP), sendUDPDatagram, reassembly in handleUDPChunk,        *)
(* delivery in handleUDPDatagram, the reply loop of the exit, and cleanup. *)
(*                                                                         *)
(* Messages may overtake each other and may be lost with a carrier; each   *)
(* is taken at most once (isDuplicate).  A fragment is known by the flow,  *)
(* the socket it was read from (its source), the datagram number, its      *)
(* index and the number of fragments.  The reassembly map is the set of    *)
(* the fragments it holds: an assembly always holds at least one, and all  *)
(* of them agree on the total.  Its created is told by the number of       *)
(* cleanups since.                                                         *)
(***************************************************************************)
EXTENDS Integers, FiniteSets

CONSTANTS MaxFlows,      \* bound of the model: flow identifiers the entry makes
          MaxSockets,    \* bound of the model: sockets the exit opens for a flow
          MaxRequests,   \* bound of the model: datagrams of the client
          MaxReplies,    \* bound of the model: datagrams of the service
          MaxTotal,      \* fragments of the largest datagram
          MaxAssemblies  \* maxUDPAssemblies

ASSUME UdpFlowAssumption ==
  /\ MaxFlows \in Nat /\ MaxSockets \in Nat /\ MaxRequests \in Nat /\ MaxReplies \in Nat
  /\ MaxTotal \in Nat \ {0} /\ MaxAssemblies \in Nat \ {0}

Nodes == {"entry", "exit"}
Flows == 1 .. MaxFlows

\* udpAssemblyLifetime is as long as the time between two cleanups: an assembly
\* is too young for the first that follows its creation, and for one more when
\* the tick of the first was read late, from before the creation.
Survived == 2

VARIABLES
  made,      \* flow identifiers made so far are 1 .. made
  keyed,     \* entryUDPKeys of the client: its flow, 0 for none
  entryUDP,  \* flows in entryUDP
  seq,       \* last datagram number of each entry flow
  sockets,   \* sockets opened so far for each flow at the exit
  remoteUDP, \* flows in remoteUDP; the socket is the last one opened
  replySeq,  \* last datagram number of each remote flow's socket
  net,       \* fragments on their way
  held,      \* assemblies of each node, as the fragments they hold
  age,       \* cleanups since created, for each assembly of each node
  waited,    \* history: cleanups since each fragment held arrived
  delivered, \* history: the fragments each delivered datagram was made of
  budget     \* datagrams each node may still send, a bound of the model

entryVars == <<made, keyed, entryUDP, seq>>
exitVars  == <<sockets, remoteUDP, replySeq>>
heldVars  == <<held, age, waited>>
vars == <<entryVars, exitVars, net, heldVars, delivered, budget>>

Init ==
  /\ made = 0 /\ keyed = 0 /\ entryUDP = {} /\ seq = [id \in Flows |-> 0]
  /\ sockets = [id \in Flows |-> 0] /\ remoteUDP = {} /\ replySeq = [id \in Flows |-> 0]
  /\ net = {} /\ held = [n \in Nodes |-> {}] /\ delivered = {}
  /\ age = [n \in Nodes |-> <<>>] /\ waited = [n \in Nodes |-> <<>>]
  /\ budget = [entry |-> MaxRequests, exit |-> MaxReplies]

\* sendUDPDatagram: the fragments in order, up to the one a.send refuses.
SendUDPDatagram(from, to, flow, source, number) ==
  /\ budget[from] > 0
  /\ budget' = [budget EXCEPT ![from] = @ - 1]
  /\ \E total \in 1 .. MaxTotal : \E n \in 0 .. total :
       net' = net \cup [to : {to}, flow : {flow}, source : {source}, number : {number},
                        part : 1 .. n, total : {total}]

-----------------------------------------------------------------------------
(* The entry node.                                                         *)

\* getEntryUDPFlow: the client's flow if it is still there, else a new one
\* under a fresh random identifier.
GetEntryUDPFlow(id) ==
  \/ /\ keyed = id /\ id \in entryUDP
     /\ UNCHANGED <<made, keyed, entryUDP>>
  \/ /\ keyed \notin entryUDP /\ id = made + 1
     /\ made' = id /\ keyed' = id
     /\ entryUDP' = entryUDP \cup {id}

ClientDatagram(id) ==
  /\ GetEntryUDPFlow(id)
  /\ seq' = [seq EXCEPT ![id] = @ + 1]
  /\ SendUDPDatagram("entry", "exit", id, 0, seq'[id])
  /\ UNCHANGED <<exitVars, heldVars, delivered>>

\* handleUDPDatagram at the entry: written to the client of the flow, or, if
\* the flow is gone, dropped (a reply names no service).
ToClient(id, parts) ==
  /\ delivered' = IF id \in entryUDP THEN delivered \cup {parts} ELSE delivered
  /\ UNCHANGED exitVars

-----------------------------------------------------------------------------
(* The exit node.                                                          *)

\* A socket for the flow; its replies are numbered from one.
OpenSocket(id) ==
  /\ sockets[id] < MaxSockets
  /\ sockets' = [sockets EXCEPT ![id] = @ + 1]
  /\ replySeq' = [replySeq EXCEPT ![id] = 0]

\* handleUDPDatagram at the exit: the socket is opened if need be (or the
\* datagram dropped: limit, allowlist, dial error); a failing write deletes
\* the flow.
ToService(id, parts) ==
  \/ /\ id \notin remoteUDP
     /\ UNCHANGED <<exitVars, delivered>>
  \/ /\ IF id \in remoteUDP THEN UNCHANGED <<sockets, replySeq>> ELSE OpenSocket(id)
     /\ \/ remoteUDP' = remoteUDP \cup {id} /\ delivered' = delivered \cup {parts}
        \/ remoteUDP' = remoteUDP \ {id} /\ UNCHANGED delivered

\* remoteUDPReadLoop: a reply of the service, or a read error.  (A reply that
\* was read just before its flow is deleted is one sent just before.)
ServiceReplies(id) ==
  /\ id \in remoteUDP
  /\ replySeq' = [replySeq EXCEPT ![id] = @ + 1]
  /\ SendUDPDatagram("exit", "entry", id, sockets[id], replySeq'[id])
  /\ UNCHANGED <<entryVars, sockets, remoteUDP, heldVars, delivered>>

DeleteRemoteUDP(id) ==
  /\ id \in remoteUDP
  /\ remoteUDP' = remoteUDP \ {id}
  /\ UNCHANGED <<entryVars, sockets, replySeq, net, heldVars, delivered, budget>>

-----------------------------------------------------------------------------
(* handleUDPChunk.                                                         *)

\* Mutant: datagrams of different flows share a key.
KeyNumber(f) == <<f.number>>

\* udpAssemblyKey.
Key(f) == <<f.flow, f.number>>

KeysIn(h) == {Key(g) : g \in h}

Assembly(n, f) == {g \in held[n] : Key(g) = Key(f)}

\* Mutant: the limit is off by one.
RoomLate(n) == Cardinality(KeysIn(held[n])) =< MaxAssemblies

\* The limit on assemblies, checked before a new one is made.
Room(n) == Cardinality(KeysIn(held[n])) < MaxAssemblies

\* The assembly after f: nothing is added without room, a different total
\* deletes it, and a fragment that is already there stays.
Added(n, f) ==
  LET a == Assembly(n, f) IN
    IF a = {} THEN (IF Room(n) THEN {f} ELSE {})
    ELSE IF \E g \in a : g.total # f.total THEN {}
    ELSE IF \E g \in a : g.part = f.part THEN a ELSE a \cup {f}

Complete(f, parts) == Cardinality(parts) = f.total

\* Mutant: created is set anew by every fragment.
CreatedAnew(n, f, h) ==
  [k \in KeysIn(h) |-> IF k \in DOMAIN age[n] /\ k # Key(f) THEN age[n][k] ELSE 0]

\* created of the assemblies once f has led to h: a new one is created now.
Created(n, f, h) == [k \in KeysIn(h) |-> IF k \in DOMAIN age[n] THEN age[n][k] ELSE 0]

\* f has changed what n holds to h.
Hold(n, f, h) ==
  /\ held' = [held EXCEPT ![n] = h]
  /\ age' = [age EXCEPT ![n] = Created(n, f, h)]
  /\ waited' = [waited EXCEPT ![n] = [g \in h |-> IF g \in held[n] THEN waited[n][g] ELSE 0]]

\* A fragment arrives; the one that completes its datagram delivers it.
HandleUDPChunk(f) ==
  LET n == f.to
      parts == Added(n, f)
      rest == held[n] \ Assembly(n, f) IN
    /\ f \in net
    /\ net' = net \ {f}
    /\ \/ /\ ~Complete(f, parts)
          /\ Hold(n, f, rest \cup parts)
          /\ UNCHANGED <<exitVars, delivered>>
       \/ /\ Complete(f, parts)
          /\ Hold(n, f, rest)
          /\ IF n = "entry" THEN ToClient(f.flow, parts) ELSE ToService(f.flow, parts)
    /\ UNCHANGED <<entryVars, budget>>

\* A carrier fails with the message still in it.
Lose(f) ==
  /\ f \in net
  /\ net' = net \ {f}
  /\ UNCHANGED <<entryVars, exitVars, heldVars, delivered, budget>>

-----------------------------------------------------------------------------
(* cleanup, every thirty seconds.                                          *)

\* The assemblies K past their lifetime are deleted, the others grow older.  One
\* that has survived as often as it can is past it, and any other may be: the
\* ticks are not exactly as far apart as its lifetime is long.
Expire(n) ==
  \E K \in SUBSET KeysIn(held[n]) :
    LET h == {g \in held[n] : Key(g) \notin K} IN
      /\ \A k \in KeysIn(held[n]) : age[n][k] >= Survived => k \in K
      /\ held' = [held EXCEPT ![n] = h]
      /\ age' = [age EXCEPT ![n] = [k \in KeysIn(h) |-> age[n][k] + 1]]
      /\ waited' = [waited EXCEPT ![n] = [g \in h |-> waited[n][g] + 1]]

\* Mutant: entryUDPKeys keeps its entry.
CleanupEntryOnly ==
  /\ Expire("entry")
  /\ \E idle \in SUBSET entryUDP : entryUDP' = entryUDP \ idle
  /\ UNCHANGED <<made, keyed, seq, exitVars, net, delivered, budget>>

CleanupEntry ==
  /\ Expire("entry")
  /\ \E idle \in SUBSET entryUDP :
       /\ entryUDP' = entryUDP \ idle
       /\ keyed' = IF keyed \in idle THEN 0 ELSE keyed
  /\ UNCHANGED <<made, seq, exitVars, net, delivered, budget>>

\* udpFlowIdle is four times udpAssemblyLifetime: when a remote flow is found
\* idle, no fragment of its replies is left on the way or in an assembly.
Quiet(id) == \A f \in net \cup held["entry"] : ~(f.to = "entry" /\ f.flow = id)

CleanupExit ==
  /\ Expire("exit")
  /\ \E idle \in SUBSET {id \in remoteUDP : Quiet(id)} : remoteUDP' = remoteUDP \ idle
  /\ UNCHANGED <<entryVars, sockets, replySeq, net, delivered, budget>>

-----------------------------------------------------------------------------
Next ==
  \/ \E id \in Flows : ClientDatagram(id) \/ ServiceReplies(id) \/ DeleteRemoteUDP(id)
  \/ \E f \in net : HandleUDPChunk(f) \/ Lose(f)
  \/ CleanupEntry \/ CleanupExit

Spec == Init /\ [][Next]_vars

-----------------------------------------------------------------------------
(* Properties.                                                             *)

\* The parts of one datagram, all of them.
Whole(parts) ==
  \A f \in parts :
    /\ {g.part : g \in parts} = 1 .. f.total
    /\ \A g \in parts : [g EXCEPT !.part = f.part] = f

\* "UDP datagrams have a datagram ID and fragment index and are reassembled
\* before delivery": what the service is given is a datagram of the client,
\* although flows expire and new ones number their datagrams from one again.
RequestsIntact == \A parts \in delivered : (\A f \in parts : f.to = "exit") => Whole(parts)

\* The same of the replies that the client is given.
RepliesIntact == \A parts \in delivered : (\A f \in parts : f.to = "entry") => Whole(parts)

\* "Partial UDP datagrams are bounded", and each holds a fragment per index.
AssembliesBounded ==
  \A n \in Nodes :
    /\ Cardinality(KeysIn(held[n])) =< MaxAssemblies
    /\ \A f, g \in held[n] : Key(f) = Key(g) /\ f.part = g.part => f = g

\* The client's key and its flow expire together: cleanup finds a key only
\* through its flow, so one left behind would stay as long as the client keeps
\* silent, and entryUDPKeys has no limit of its own.
KeyLeadsToFlow == keyed # 0 => keyed \in entryUDP

\* A partial datagram whose rest was lost gives up its place after a bounded
\* number of cleanups, although fragments with its key keep coming: created is
\* when the first fragment came, and later ones do not prolong it.
AssembliesExpire == \A n \in Nodes : \A f \in held[n] : waited[n][f] =< Survived
=============================================================================
