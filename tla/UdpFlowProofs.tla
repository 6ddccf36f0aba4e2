---------------------------- MODULE UdpFlowProofs ----------------------------
(* Proofs about UdpFlow, for any number of flows, sockets, datagrams and     *)
(* fragments: requests, and replies of one socket, are delivered whole, the  *)
(* reassembly maps are bounded, what waits in them goes in time, and the two *)
(* tables of the entry agree.                                                *)
EXTENDS UdpFlow, FiniteSetTheorems, TLAPS

Fragments ==
  {f \in [to : Nodes, flow : Flows, source : Nat, number : Nat, part : Nat, total : Nat] :
     f.part \in 1 .. f.total}

FragmentsType ==
  /\ net \subseteq Fragments /\ seq \in [Flows -> Nat]
  /\ replySeq \in [Flows -> Nat] /\ sockets \in [Flows -> Nat]
  /\ held \in [Nodes -> SUBSET Fragments]
  /\ \A n \in Nodes : \A f \in held[n] : f.to = n

\* Requests on their way or waiting.
Requests == {f \in net \cup held["exit"] : f.to = "exit"}

\* The requests there are have numbers their flows have given out, and the
\* ones with one number belong to one datagram: an identifier is never used
\* for a second flow, and its counter never goes back.
RequestsNumbered ==
  /\ \A f \in Requests : f.source = 0 /\ f.number =< seq[f.flow]
  /\ \A f, g \in Requests : Key(f) = Key(g) => f.total = g.total

KeysOf(n) == KeysIn(held[n])
KeysFinite == \A n \in Nodes : IsFiniteSet(KeysOf(n))

FragmentInv ==
  FragmentsType /\ RequestsNumbered /\ RequestsIntact /\ KeysFinite /\ AssembliesBounded

\* Nothing has been sent.
LEMMA FragmentInit == Init => FragmentInv
<1> SUFFICES ASSUME Init PROVE FragmentInv
  OBVIOUS
<1> USE UdpFlowAssumption DEF Init
<1>1. FragmentsType
  BY DEF FragmentsType
<1>2. RequestsNumbered /\ RequestsIntact
  BY DEF RequestsNumbered, Requests, RequestsIntact, Nodes
<1>3. \A n \in Nodes : KeysOf(n) = {} /\ held[n] = {}
  BY DEF KeysOf, KeysIn
<1>4. KeysFinite /\ AssembliesBounded
  <2>1. MaxAssemblies >= 0
    OBVIOUS
  <2> USE <1>3, <2>1, FS_EmptySet
  <2>2. KeysFinite
    BY DEF KeysFinite
  <2>3. AssembliesBounded
    BY DEF AssembliesBounded, KeysOf
  <2> QED BY <2>2, <2>3
<1> QED BY <1>1, <1>2, <1>4 DEF FragmentInv

\* sendUDPDatagram adds fragments of one datagram.
LEMMA SendAdds ==
  ASSUME NEW from, NEW to \in Nodes, NEW flow \in Flows, NEW source \in Nat, NEW number \in Nat,
         SendUDPDatagram(from, to, flow, source, number)
  PROVE  \E total \in Nat : \A f \in net' :
           f \in net \/ (f \in Fragments /\ f.to = to /\ f.flow = flow /\ f.source = source
                         /\ f.number = number /\ f.total = total)
<1>0. PICK total \in 1 .. MaxTotal : \E n \in 0 .. total :
        net' = net \cup [to : {to}, flow : {flow}, source : {source}, number : {number},
                         part : 1 .. n, total : {total}]
  BY DEF SendUDPDatagram
<1>1. PICK n \in 0 .. total :
        net' = net \cup [to : {to}, flow : {flow}, source : {source}, number : {number},
                         part : 1 .. n, total : {total}]
  BY <1>0
<1>2. total \in Nat /\ \A i \in 1 .. n : i \in Nat /\ i \in 1 .. total
  BY UdpFlowAssumption
<1>3. ASSUME NEW f \in [to : {to}, flow : {flow}, source : {source}, number : {number},
                        part : 1 .. n, total : {total}]
      PROVE  f \in Fragments /\ f.to = to /\ f.flow = flow /\ f.source = source
             /\ f.number = number /\ f.total = total
  BY <1>2 DEF Fragments
<1> QED BY <1>1, <1>2, <1>3

\* The maps do not change, or lose whole assemblies.
LEMMA HeldShrinks ==
  ASSUME FragmentInv, held' \in [Nodes -> SUBSET Fragments],
         \A n \in Nodes : held'[n] \subseteq held[n]
  PROVE  KeysFinite' /\ AssembliesBounded'
<1> USE DEF FragmentInv, FragmentsType
<1>1. ASSUME NEW n \in Nodes
      PROVE  IsFiniteSet(KeysOf(n)') /\ Cardinality(KeysOf(n)') =< MaxAssemblies
  <2>1. KeysOf(n)' \subseteq KeysOf(n)
    BY DEF KeysOf, KeysIn, Key
  <2>2. IsFiniteSet(KeysOf(n)) /\ Cardinality(KeysOf(n)) =< MaxAssemblies
    BY DEF KeysFinite, AssembliesBounded, KeysOf, KeysIn
  <2>3. IsFiniteSet(KeysOf(n)') /\ Cardinality(KeysOf(n)') =< Cardinality(KeysOf(n))
    BY <2>1, <2>2, FS_Subset
  <2>4. Cardinality(KeysOf(n)') \in Nat /\ Cardinality(KeysOf(n)) \in Nat
    BY <2>2, <2>3, FS_CardinalityType
  <2> QED BY <2>2, <2>3, <2>4, UdpFlowAssumption
<1>2. \A n \in Nodes : \A f, g \in held'[n] : Key(f) = Key(g) /\ f.part = g.part => f = g
  BY DEF AssembliesBounded
<1>3. KeysFinite'
  BY <1>1 DEF KeysFinite
<1>4. AssembliesBounded'
  BY <1>1, <1>2 DEF AssembliesBounded, KeysOf, KeysIn, Key
<1> QED BY <1>3, <1>4

\* cleanup takes whole assemblies away, of one node.
LEMMA ExpireShrinks ==
  ASSUME FragmentsType, NEW n \in Nodes, Expire(n)
  PROVE  /\ held' \in [Nodes -> SUBSET Fragments]
         /\ \A m \in Nodes : held'[m] \subseteq held[m] /\ (m # n => held'[m] = held[m])
<1>1. PICK h \in SUBSET held[n] : held' = [held EXCEPT ![n] = h]
  BY DEF Expire
<1> QED BY <1>1 DEF FragmentsType

\* Steps that add no request and join nothing.
LEMMA RequestsStay ==
  ASSUME FragmentInv, FragmentsType', UNCHANGED <<seq, delivered>>,
         \A f \in Requests' : f \in Requests
  PROVE  RequestsNumbered' /\ RequestsIntact'
<1>1. RequestsNumbered'
  BY DEF FragmentInv, RequestsNumbered, Key
<1>2. RequestsIntact'
  BY DEF FragmentInv, RequestsIntact, Whole
<1> QED BY <1>1, <1>2

\* A datagram of the client gets a number its flow has not used.
LEMMA ClientStep ==
  ASSUME FragmentInv, NEW id \in Flows, ClientDatagram(id)
  PROVE  FragmentInv'
<1> USE DEF FragmentInv
<1>1. /\ UNCHANGED <<held, delivered, replySeq, sockets>>
      /\ seq' = [seq EXCEPT ![id] = @ + 1] /\ seq' \in [Flows -> Nat] /\ seq'[id] = seq[id] + 1
  BY DEF ClientDatagram, exitVars, heldVars, FragmentsType
<1>2. PICK total \in Nat : \A f \in net' :
        f \in net \/ (f \in Fragments /\ f.to = "exit" /\ f.flow = id /\ f.source = 0
                      /\ f.number = seq'[id] /\ f.total = total)
  <2>1. SendUDPDatagram("entry", "exit", id, 0, seq'[id])
    BY DEF ClientDatagram
  <2>2. "exit" \in Nodes /\ 0 \in Nat /\ seq'[id] \in Nat
    BY <1>1 DEF Nodes
  <2> HIDE DEF FragmentInv
  <2> QED BY <2>1, <2>2, SendAdds
<1>3. FragmentsType'
  BY <1>1, <1>2 DEF FragmentsType
<1>4. \A f \in Requests' : f \in Requests
        \/ (f.flow = id /\ f.source = 0 /\ f.number = seq'[id] /\ f.total = total)
  BY <1>1, <1>2 DEF Requests
<1>5. \A f \in Requests : f.flow \in Flows /\ f.number \in Nat /\ f.number =< seq[f.flow] /\ f.source = 0
  BY DEF Requests, RequestsNumbered, FragmentsType, Fragments, Nodes
<1>6. \A f \in Requests' : f.source = 0 /\ f.number =< seq'[f.flow]
  BY <1>1, <1>4, <1>5 DEF FragmentsType
<1>7. ASSUME NEW f \in Requests', NEW g \in Requests', Key(f) = Key(g) PROVE f.total = g.total
  <2>1. f.flow = g.flow /\ f.number = g.number
    BY <1>7 DEF Key
  <2>2. CASE f \in Requests /\ g \in Requests
    BY <1>7, <2>2 DEF RequestsNumbered
  <2>3. CASE f \notin Requests
    <3>1. g \notin Requests
      BY <2>1, <2>3, <1>1, <1>4, <1>5 DEF FragmentsType
    <3> QED BY <3>1, <2>3, <1>4
  <2>4. CASE g \notin Requests
    <3>1. f \notin Requests
      BY <2>1, <2>4, <1>1, <1>4, <1>5 DEF FragmentsType
    <3> QED BY <3>1, <2>4, <1>4
  <2> QED BY <2>2, <2>3, <2>4
<1>8. RequestsNumbered'
  BY <1>6, <1>7 DEF RequestsNumbered, Key
<1>9. RequestsIntact'
  BY <1>1 DEF RequestsIntact, Whole
<1>10. KeysFinite' /\ AssembliesBounded'
  BY <1>1, HeldShrinks DEF FragmentsType
<1> QED BY <1>3, <1>8, <1>9, <1>10

\* A reply of the service.
LEMMA ReplyStep ==
  ASSUME FragmentInv, NEW id \in Flows, ServiceReplies(id)
  PROVE  FragmentInv'
<1> USE DEF FragmentInv
<1>1. /\ UNCHANGED <<held, delivered, seq, sockets>>
      /\ replySeq' \in [Flows -> Nat] /\ sockets[id] \in Nat
  BY DEF ServiceReplies, entryVars, heldVars, FragmentsType
<1>2. PICK total \in Nat : \A f \in net' :
        f \in net \/ (f \in Fragments /\ f.to = "entry" /\ f.flow = id /\ f.source = sockets[id]
                      /\ f.number = replySeq'[id] /\ f.total = total)
  <2>1. SendUDPDatagram("exit", "entry", id, sockets[id], replySeq'[id])
    BY DEF ServiceReplies
  <2>2. "entry" \in Nodes /\ replySeq'[id] \in Nat
    BY <1>1 DEF Nodes
  <2> HIDE DEF FragmentInv
  <2> QED BY <2>1, <2>2, <1>1, SendAdds
<1>3. FragmentsType'
  BY <1>1, <1>2 DEF FragmentsType
<1>4. \A f \in Requests' : f \in Requests
  BY <1>1, <1>2 DEF Requests
<1>5. KeysFinite' /\ AssembliesBounded'
  BY <1>1, HeldShrinks DEF FragmentsType
<1> QED BY <1>1, <1>3, <1>4, <1>5, RequestsStay

\* Losses, expiry and failing sockets only take fragments away.
LEMMA FragmentsLeave ==
  ASSUME FragmentInv, UNCHANGED <<seq, replySeq, sockets, delivered>>, net' \subseteq net,
         held' \in [Nodes -> SUBSET Fragments], \A n \in Nodes : held'[n] \subseteq held[n]
  PROVE  FragmentInv'
<1>1. FragmentsType'
  BY DEF FragmentInv, FragmentsType
<1>2. \A f \in Requests' : f \in Requests
  BY DEF Requests, Nodes
<1> QED BY <1>1, <1>2, RequestsStay, HeldShrinks DEF FragmentInv

\* As many fragments as the datagram has, with different indices, are all.
LEMMA AllParts ==
  ASSUME NEW parts \in SUBSET Fragments, NEW total \in Nat, \A g \in parts : g.total = total,
         \A g, h \in parts : g.part = h.part => g = h, Cardinality(parts) = total
  PROVE  {g.part : g \in parts} = 1 .. total
<1> DEFINE index == [g \in parts |-> g.part]
<1>1. \A g \in parts : g.part \in 1 .. total
  BY DEF Fragments
<1>2. index \in Injection(parts, 1 .. total)
  BY <1>1 DEF Injection, IsInjective
<1>3. IsFiniteSet(1 .. total) /\ Cardinality(1 .. total) = total
  BY FS_Interval
<1> HIDE DEF index
<1>4. index \in Surjection(parts, 1 .. total)
  BY <1>2, <1>3, FS_Injection
<1>5. \A i \in 1 .. total : \E g \in parts : index[g] = i
  BY <1>4 DEF Surjection
<1> QED BY <1>1, <1>5 DEF index

\* What handleUDPChunk has after it looked at a fragment: fragments of one
\* key and one direction, one per index.
LEMMA AddedParts ==
  ASSUME FragmentInv, NEW f \in net
  PROVE  /\ f.to \in Nodes /\ f \in Fragments
         /\ Added(f.to, f) \subseteq Fragments
         /\ Added(f.to, f) \subseteq Assembly(f.to, f) \cup {f}
         /\ \A g \in Added(f.to, f) : Key(g) = Key(f) /\ g.to = f.to
         /\ \A g, h \in Added(f.to, f) : g.part = h.part => g = h
<1> DEFINE a == Assembly(f.to, f)
<1>1. f.to \in Nodes /\ f \in Fragments
  BY DEF FragmentInv, FragmentsType, Fragments
<1>2. a \subseteq Fragments /\ \A g \in a : Key(g) = Key(f) /\ g.to = f.to
  BY <1>1 DEF FragmentInv, FragmentsType, Assembly
<1>3. \A g, h \in a : g.part = h.part => g = h
  BY <1>1 DEF FragmentInv, AssembliesBounded, Assembly
<1>4. \/ Added(f.to, f) \in {{}, {f}, a}
      \/ Added(f.to, f) = a \cup {f} /\ \A g \in a : g.part # f.part
  BY DEF Added
<1> HIDE DEF a
<1>5. Added(f.to, f) \subseteq a \cup {f}
  BY <1>4
<1>6. \A g, h \in Added(f.to, f) : g.part = h.part => g = h
  BY <1>3, <1>4
<1> QED BY <1>1, <1>2, <1>5, <1>6 DEF a

\* Fragments that differ in nothing but their index, as many as the datagram
\* has, are the datagram.
LEMMA WholeDatagram ==
  ASSUME NEW f \in Fragments, NEW parts \in SUBSET Fragments,
         \A g \in parts : Key(g) = Key(f) /\ g.to = f.to /\ g.source = f.source /\ g.total = f.total,
         \A g, h \in parts : g.part = h.part => g = h, Complete(f, parts)
  PROVE  Whole(parts)
<1>1. Cardinality(parts) = f.total /\ f.total \in Nat
  BY DEF Complete, Fragments
<1>2. {g.part : g \in parts} = 1 .. f.total
  BY <1>1, AllParts
<1>3. ASSUME NEW g \in parts, NEW h \in parts PROVE [g EXCEPT !.part = h.part] = h
  <2>1. g.flow = h.flow /\ g.number = h.number
    BY DEF Key
  <2>2. g.to = h.to /\ g.source = h.source /\ g.total = h.total
    OBVIOUS
  <2>3. /\ g \in [to : Nodes, flow : Flows, source : Nat, number : Nat, part : Nat, total : Nat]
        /\ h \in [to : Nodes, flow : Flows, source : Nat, number : Nat, part : Nat, total : Nat]
    BY DEF Fragments
  <2> QED BY <2>1, <2>2, <2>3
<1> QED BY <1>2, <1>3 DEF Whole

\* A request that is delivered is one datagram of the client.
LEMMA RequestWhole ==
  ASSUME FragmentInv, NEW f \in net, f.to = "exit", Complete(f, Added("exit", f))
  PROVE  Whole(Added("exit", f))
<1> DEFINE parts == Added("exit", f)
<1>1. parts \subseteq Fragments /\ parts \subseteq Requests /\ f \in Requests /\ f \in Fragments
  BY AddedParts DEF Requests, Assembly
<1>2. \A g \in parts : Key(g) = Key(f) /\ g.to = f.to /\ g.source = f.source /\ g.total = f.total
  BY <1>1, AddedParts DEF FragmentInv, RequestsNumbered
<1>3. \A g, h \in parts : g.part = h.part => g = h
  BY AddedParts
<1> HIDE DEF parts
<1>4. Whole(parts)
  BY <1>1, <1>2, <1>3, WholeDatagram DEF parts
<1> QED BY <1>4 DEF parts

\* The assembly of a fragment keeps its key, and a new one needs room.
LEMMA KeysGrow ==
  ASSUME FragmentInv, NEW f \in net, NEW H \in SUBSET (held[f.to] \cup Added(f.to, f))
  PROVE  IsFiniteSet({Key(g) : g \in H}) /\ Cardinality({Key(g) : g \in H}) =< MaxAssemblies
<1> DEFINE n == f.to
           K == KeysOf(n)
           L == {Key(g) : g \in H}
<1>0. n \in Nodes /\ \A g \in Added(n, f) : Key(g) = Key(f)
  BY AddedParts
<1>1. IsFiniteSet(K) /\ Cardinality(K) =< MaxAssemblies /\ Cardinality(K) \in Nat
  BY <1>0, FS_CardinalityType DEF FragmentInv, KeysFinite, AssembliesBounded, KeysOf, KeysIn
<1>2. L \subseteq K \/ (L \subseteq K \cup {Key(f)} /\ Room(n))
  <2>1. CASE Added(n, f) = {}
    BY <2>1 DEF KeysOf, KeysIn
  <2>2. CASE Assembly(n, f) # {}
    <3>1. Key(f) \in K
      BY <2>2 DEF Assembly, KeysOf, KeysIn
    <3> QED BY <3>1, <1>0 DEF KeysOf, KeysIn
  <2>3. CASE Assembly(n, f) = {} /\ Added(n, f) # {}
    <3>1. Room(n)
      BY <2>3 DEF Added
    <3>2. L \subseteq K \cup {Key(f)}
      BY <1>0 DEF KeysOf, KeysIn
    <3> QED BY <3>1, <3>2
  <2> QED BY <2>1, <2>2, <2>3
<1>3. Room(n) => Cardinality(K) < MaxAssemblies
  BY DEF Room, KeysOf, KeysIn
<1> HIDE DEF n, K, L
<1>4. CASE L \subseteq K
  <2>1. IsFiniteSet(L) /\ Cardinality(L) =< Cardinality(K) /\ Cardinality(L) \in Nat
    BY <1>1, <1>4, FS_Subset, FS_CardinalityType
  <2> QED BY <2>1, <1>1, UdpFlowAssumption DEF L
<1>5. CASE L \subseteq K \cup {Key(f)} /\ Room(n)
  <2> DEFINE M == K \cup {Key(f)}
  <2>1. IsFiniteSet(M) /\ Cardinality(M) =< Cardinality(K) + 1 /\ Cardinality(M) \in Nat
    <3>1. IsFiniteSet(M) /\ (Cardinality(M) = Cardinality(K) \/ Cardinality(M) = Cardinality(K) + 1)
      BY <1>1, FS_AddElement
    <3> HIDE DEF M
    <3> QED BY <1>1, <3>1
  <2> HIDE DEF M
  <2>2. IsFiniteSet(L) /\ Cardinality(L) =< Cardinality(M) /\ Cardinality(L) \in Nat
    <3>1. L \subseteq M
      BY <1>5 DEF M
    <3> QED BY <2>1, <3>1, FS_Subset, FS_CardinalityType
  <2> QED BY <2>1, <2>2, <1>1, <1>3, <1>5, UdpFlowAssumption DEF L
<1> QED BY <1>2, <1>4, <1>5

\* A fragment arrives.
LEMMA ChunkStep ==
  ASSUME FragmentInv, NEW f \in net, HandleUDPChunk(f)
  PROVE  FragmentInv'
<1> DEFINE n == f.to
           parts == Added(n, f)
           rest == held[n] \ Assembly(n, f)
<1>1. /\ n \in Nodes /\ f \in Fragments /\ parts \subseteq Fragments
      /\ parts \subseteq held[n] \cup {f}
      /\ \A g \in parts : Key(g) = Key(f) /\ g.to = n
      /\ \A g, h \in parts : g.part = h.part => g = h
  BY AddedParts DEF Assembly
<1>2. PICK H \in {rest \cup parts, rest} : held' = [held EXCEPT ![n] = H]
  BY DEF HandleUDPChunk, Hold
<1>3. net' \subseteq net /\ UNCHANGED seq
  BY DEF HandleUDPChunk, entryVars
<1>4. replySeq' \in [Flows -> Nat] /\ sockets' \in [Flows -> Nat]
  BY <1>1 DEF HandleUDPChunk, ToClient, ToService, OpenSocket, exitVars, FragmentInv, FragmentsType, Fragments
<1>5. /\ delivered' \subseteq delivered \cup {parts}
      /\ delivered' # delivered => Complete(f, parts)
  BY DEF HandleUDPChunk, ToClient, ToService
<1>h. rest \subseteq held[n] /\ \A g \in rest : Key(g) # Key(f)
  BY DEF Assembly
<1> HIDE DEF rest, parts
<1>6. /\ held' \in [Nodes -> SUBSET Fragments] /\ held'[n] = H
      /\ \A m \in Nodes : m # n => held'[m] = held[m]
      /\ H \subseteq held[n] \cup parts
  BY <1>1, <1>2, <1>h DEF FragmentInv, FragmentsType
<1>7. FragmentsType'
  BY <1>1, <1>3, <1>4, <1>6 DEF FragmentInv, FragmentsType
<1>8. \A g \in Requests' : g \in Requests
  BY <1>1, <1>3, <1>6 DEF Requests, Nodes
<1>9. RequestsNumbered'
  BY <1>3, <1>8 DEF FragmentInv, RequestsNumbered, Key
<1>10. RequestsIntact'
  <2> SUFFICES ASSUME NEW p \in delivered', \A g \in p : g.to = "exit" PROVE Whole(p)
    BY DEF RequestsIntact, Whole
  <2>1. CASE p \in delivered
    BY <2>1 DEF FragmentInv, RequestsIntact
  <2>2. CASE p \notin delivered
    <3>1. p = parts /\ Complete(f, parts)
      BY <2>2, <1>5
    <3>2. CASE n = "exit"
      BY <3>1, <3>2, RequestWhole DEF parts
    <3>3. CASE n # "exit"
      BY <3>1, <3>3, <1>1 DEF Whole
    <3> QED BY <3>2, <3>3
  <2> QED BY <2>1, <2>2
<1>11. ASSUME NEW m \in Nodes
       PROVE  /\ IsFiniteSet({Key(g) : g \in held'[m]})
              /\ Cardinality({Key(g) : g \in held'[m]}) =< MaxAssemblies
  <2>1. CASE m = n
    BY <2>1, <1>6, KeysGrow DEF parts
  <2>2. CASE m # n
    BY <2>2, <1>6 DEF FragmentInv, KeysFinite, AssembliesBounded, KeysOf, KeysIn
  <2> QED BY <2>1, <2>2
<1>12. ASSUME NEW m \in Nodes, NEW g \in held'[m], NEW h \in held'[m], Key(g) = Key(h), g.part = h.part
       PROVE  g = h
  <2>1. CASE m # n
    BY <2>1, <1>6, <1>12 DEF FragmentInv, AssembliesBounded
  <2>2. CASE m = n
    <3>1. CASE g \in rest /\ h \in rest
      BY <3>1, <1>1, <1>12, <1>h DEF FragmentInv, AssembliesBounded
    <3>2. CASE g \in parts /\ h \in parts
      BY <3>2, <1>1, <1>12
    <3> QED BY <2>2, <3>1, <3>2, <1>1, <1>2, <1>6, <1>12, <1>h
  <2> QED BY <2>1, <2>2
<1>13. KeysFinite' /\ AssembliesBounded'
  BY <1>11, <1>12 DEF KeysFinite, KeysOf, KeysIn, AssembliesBounded, Key
<1> QED BY <1>7, <1>9, <1>10, <1>13 DEF FragmentInv

\* The invariant is inductive.
THEOREM FragmentInvariance == Spec => []FragmentInv
<1>1. ASSUME FragmentInv, [Next]_vars PROVE FragmentInv'
  <2>1. ASSUME NEW id \in Flows, DeleteRemoteUDP(id) PROVE FragmentInv'
    BY <1>1, <2>1, FragmentsLeave DEF DeleteRemoteUDP, entryVars, heldVars, FragmentInv, FragmentsType
  <2>2. ASSUME NEW f \in net, Lose(f) PROVE FragmentInv'
    BY <1>1, <2>2, FragmentsLeave DEF Lose, entryVars, exitVars, heldVars, FragmentInv, FragmentsType
  <2>3. CASE CleanupEntry
    <3>1. /\ held' \in [Nodes -> SUBSET Fragments] /\ \A n \in Nodes : held'[n] \subseteq held[n]
          /\ UNCHANGED <<net, seq, replySeq, sockets, delivered>>
      BY <1>1, <2>3, ExpireShrinks DEF CleanupEntry, exitVars, FragmentInv, Nodes
    <3> QED BY <1>1, <3>1, FragmentsLeave
  <2>4. CASE CleanupExit
    <3>1. /\ held' \in [Nodes -> SUBSET Fragments] /\ \A n \in Nodes : held'[n] \subseteq held[n]
          /\ UNCHANGED <<net, seq, replySeq, sockets, delivered>>
      BY <1>1, <2>4, ExpireShrinks DEF CleanupExit, entryVars, FragmentInv, Nodes
    <3> QED BY <1>1, <3>1, FragmentsLeave
  <2>5. CASE UNCHANGED vars
    BY <1>1, <2>5, FragmentsLeave DEF vars, entryVars, exitVars, heldVars, FragmentInv, FragmentsType
  <2> QED BY <1>1, <2>1, <2>2, <2>3, <2>4, <2>5, ClientStep, ReplyStep, ChunkStep DEF Next
<1> QED BY FragmentInit, <1>1, PTL DEF Spec

\* What the service is given is a datagram of the client, for any number of
\* flows, datagrams and fragments, however they overtake and get lost.
THEOREM RequestsStayIntact == Spec => []RequestsIntact
<1>1. FragmentInv => RequestsIntact
  BY DEF FragmentInv
<1> QED BY FragmentInvariance, <1>1, PTL

\* handleUDPChunk keeps at most maxUDPAssemblies partial datagrams, each with
\* one fragment per index.
THEOREM AssembliesStayBounded == Spec => []AssembliesBounded
<1>1. FragmentInv => AssembliesBounded
  BY DEF FragmentInv
<1> QED BY FragmentInvariance, <1>1, PTL

\* cleanup takes a flow and the client's key to it away together.
THEOREM KeyStaysWithFlow == Spec => []KeyLeadsToFlow
<1>1. Init => KeyLeadsToFlow
  BY DEF Init, KeyLeadsToFlow
<1>2. ASSUME KeyLeadsToFlow, [Next]_vars PROVE KeyLeadsToFlow'
  <2>1. ASSUME NEW id \in Flows, ClientDatagram(id) PROVE KeyLeadsToFlow'
    BY <1>2, <2>1 DEF ClientDatagram, GetEntryUDPFlow, KeyLeadsToFlow
  <2>2. CASE CleanupEntry
    BY <1>2, <2>2 DEF CleanupEntry, KeyLeadsToFlow
  <2>3. CASE UNCHANGED entryVars
    BY <1>2, <2>3 DEF entryVars, KeyLeadsToFlow
  <2> QED
    BY <1>2, <2>1, <2>2, <2>3
    DEF Next, ServiceReplies, DeleteRemoteUDP, HandleUDPChunk, Lose, CleanupExit, vars
<1> QED BY <1>1, <1>2, PTL DEF Spec

-----------------------------------------------------------------------------
(* How long a partial datagram stays.  No fragment has waited longer than    *)
(* its assembly has been there, and the assembly goes in time.               *)

AgeInv ==
  /\ DOMAIN age = Nodes /\ DOMAIN waited = Nodes
  /\ \A n \in Nodes : DOMAIN age[n] = KeysIn(held[n])
  /\ \A n \in Nodes : \A f \in held[n] :
       /\ age[n][Key(f)] \in 0 .. Survived
       /\ waited[n][f] \in 0 .. age[n][Key(f)]

\* A fragment that arrives starts with an assembly of its own, or waits
\* with one that has waited already.
LEMMA HoldAges ==
  ASSUME FragmentsType, AgeInv, NEW n \in Nodes, NEW f, NEW h, Hold(n, f, h)
  PROVE  AgeInv'
<1>1. /\ held'[n] = h /\ DOMAIN age' = Nodes /\ DOMAIN waited' = Nodes
      /\ age'[n] = Created(n, f, h)
      /\ waited'[n] = [g \in h |-> IF g \in held[n] THEN waited[n][g] ELSE 0]
      /\ \A m \in Nodes : m # n =>
           held'[m] = held[m] /\ age'[m] = age[m] /\ waited'[m] = waited[m]
  BY DEF Hold, AgeInv, FragmentsType
<1>2. DOMAIN Created(n, f, h) = KeysIn(h)
  BY DEF Created
<1>3. \A m \in Nodes : DOMAIN age'[m] = KeysIn(held'[m])
  BY <1>1, <1>2 DEF AgeInv
<1>4. ASSUME NEW g \in h
      PROVE  age'[n][Key(g)] \in 0 .. Survived /\ waited'[n][g] \in 0 .. age'[n][Key(g)]
  <2>1. Key(g) \in KeysIn(h) /\ (g \in held[n] => Key(g) \in DOMAIN age[n])
    BY DEF KeysIn, AgeInv
  <2>2. age'[n][Key(g)] = IF Key(g) \in DOMAIN age[n] THEN age[n][Key(g)] ELSE 0
    BY <1>1, <2>1 DEF Created
  <2>3. Key(g) \in DOMAIN age[n] => age[n][Key(g)] \in 0 .. Survived
    BY DEF KeysIn, AgeInv
  <2>4. CASE g \in held[n]
    BY <1>1, <2>1, <2>2, <2>4 DEF AgeInv
  <2>5. CASE g \notin held[n]
    <3>1. waited'[n][g] = 0
      BY <1>1, <2>5
    <3>2. age'[n][Key(g)] \in 0 .. Survived
      BY <2>2, <2>3 DEF Survived
    <3> QED BY <3>1, <3>2 DEF Survived
  <2> QED BY <2>4, <2>5
<1>5. \A m \in Nodes : \A g \in held'[m] :
        age'[m][Key(g)] \in 0 .. Survived /\ waited'[m][g] \in 0 .. age'[m][Key(g)]
  BY <1>1, <1>4 DEF AgeInv
<1> QED BY <1>1, <1>3, <1>5 DEF AgeInv, KeysIn, Key

\* An assembly that stays was young enough to grow older.
LEMMA ExpireAges ==
  ASSUME FragmentsType, AgeInv, NEW n \in Nodes, Expire(n)
  PROVE  AgeInv'
<1>1. PICK K \in SUBSET KeysIn(held[n]) :
        LET h == {g \in held[n] : Key(g) \notin K} IN
          /\ \A k \in KeysIn(held[n]) : age[n][k] >= Survived => k \in K
          /\ held' = [held EXCEPT ![n] = h]
          /\ age' = [age EXCEPT ![n] = [k \in KeysIn(h) |-> age[n][k] + 1]]
          /\ waited' = [waited EXCEPT ![n] = [g \in h |-> waited[n][g] + 1]]
  BY DEF Expire
<1> DEFINE h == {g \in held[n] : Key(g) \notin K}
<1>2. /\ held'[n] = h /\ DOMAIN age' = Nodes /\ DOMAIN waited' = Nodes
      /\ age'[n] = [k \in KeysIn(h) |-> age[n][k] + 1]
      /\ waited'[n] = [g \in h |-> waited[n][g] + 1]
      /\ \A m \in Nodes : m # n =>
           held'[m] = held[m] /\ age'[m] = age[m] /\ waited'[m] = waited[m]
  BY <1>1 DEF AgeInv, FragmentsType
<1>3. \A m \in Nodes : DOMAIN age'[m] = KeysIn(held'[m])
  BY <1>2 DEF AgeInv
<1>4. ASSUME NEW g \in h
      PROVE  age'[n][Key(g)] \in 0 .. Survived /\ waited'[n][g] \in 0 .. age'[n][Key(g)]
  <2>1. g \in held[n] /\ Key(g) \in KeysIn(held[n]) /\ Key(g) \in KeysIn(h) /\ Key(g) \notin K
    BY DEF KeysIn
  <2>2. age[n][Key(g)] \in 0 .. Survived /\ waited[n][g] \in 0 .. age[n][Key(g)]
    BY <2>1 DEF AgeInv
  <2>3. ~(age[n][Key(g)] >= Survived)
    BY <1>1, <2>1
  <2>4. age'[n][Key(g)] = age[n][Key(g)] + 1 /\ waited'[n][g] = waited[n][g] + 1
    BY <1>2, <2>1
  <2> QED BY <2>2, <2>3, <2>4 DEF Survived
<1> HIDE DEF h
<1>5. \A m \in Nodes : \A g \in held'[m] :
        age'[m][Key(g)] \in 0 .. Survived /\ waited'[m][g] \in 0 .. age'[m][Key(g)]
  BY <1>2, <1>4 DEF AgeInv
<1> QED BY <1>2, <1>3, <1>5 DEF AgeInv, KeysIn, Key

\* A partial datagram goes after a bounded number of cleanups, whatever its
\* key goes on receiving: created is set once, and cleanup goes by it.
THEOREM AssembliesDoExpire == Spec => []AssembliesExpire
<1>1. Init => AgeInv
  BY DEF Init, AgeInv, KeysIn
<1>2. ASSUME FragmentInv, AgeInv, [Next]_vars PROVE AgeInv'
  <2>0. FragmentsType
    BY <1>2 DEF FragmentInv
  <2>1. CASE UNCHANGED heldVars
    BY <1>2, <2>1 DEF heldVars, AgeInv, KeysIn, Key
  <2>2. ASSUME NEW f \in net, HandleUDPChunk(f) PROVE AgeInv'
    <3>1. f.to \in Nodes
      BY <2>0 DEF FragmentsType, Fragments
    <3>2. \E h : Hold(f.to, f, h)
      BY <2>2 DEF HandleUDPChunk
    <3> QED BY <1>2, <2>0, <3>1, <3>2, HoldAges
  <2>3. CASE CleanupEntry \/ CleanupExit
    BY <1>2, <2>0, <2>3, ExpireAges DEF CleanupEntry, CleanupExit, Nodes
  <2>4. CASE \/ \E id \in Flows : ClientDatagram(id) \/ ServiceReplies(id) \/ DeleteRemoteUDP(id)
             \/ \E f \in net : Lose(f)
             \/ UNCHANGED vars
    BY <2>1, <2>4 DEF ClientDatagram, ServiceReplies, DeleteRemoteUDP, Lose, vars
  <2> QED BY <1>2, <2>2, <2>3, <2>4 DEF Next
<1>3. AgeInv => AssembliesExpire
  <2>1. ASSUME AgeInv, NEW n \in Nodes, NEW f \in held[n] PROVE waited[n][f] =< Survived
    <3>1. age[n][Key(f)] \in 0 .. Survived /\ waited[n][f] \in 0 .. age[n][Key(f)]
      BY <2>1 DEF AgeInv
    <3> QED BY <3>1 DEF Survived
  <2> QED BY <2>1 DEF AssembliesExpire
<1> QED BY FragmentInvariance, <1>1, <1>2, <1>3, PTL DEF Spec

-----------------------------------------------------------------------------
(* Replies.  RepliesIntact itself fails when the exit opens a second socket  *)
(* for a flow and numbers its replies from one again; of a flow with one     *)
(* socket it holds.                                                          *)

\* Replies on their way or waiting.
Replies == {f \in net \cup held["entry"] : f.to = "entry"}

\* The replies of a flow with one socket have numbers that its counter has
\* given out, and the ones with one number belong to one datagram.
RepliesNumbered ==
  /\ remoteUDP \subseteq {id \in Flows : sockets[id] >= 1}
  /\ \A f \in Replies : f.source \in 1 .. sockets[f.flow]
  /\ \A f \in Replies : sockets[f.flow] =< 1 => f.number =< replySeq[f.flow]
  /\ \A f, g \in Replies : Key(f) = Key(g) /\ sockets[f.flow] =< 1 => f.total = g.total

\* A reply that the client is given is one datagram of the service, if its
\* flow has had one socket.
OneSocketIntact ==
  \A parts \in delivered :
    (\A f \in parts : f.to = "entry" /\ sockets[f.flow] =< 1) => Whole(parts)

ReplyInv ==
  (\A parts \in delivered : parts \subseteq Fragments) /\ RepliesNumbered /\ OneSocketIntact

\* No reply has been sent.
LEMMA ReplyInit == Init => ReplyInv
  BY DEF Init, ReplyInv, RepliesNumbered, OneSocketIntact, Replies, Nodes

\* Steps that bring up no reply, count nothing and deliver nothing to the
\* client, but may open sockets and delete flows.
LEMMA RepliesStay ==
  ASSUME FragmentInv, ReplyInv, FragmentsType', Replies' \subseteq Replies,
         remoteUDP' \subseteq {id \in Flows : sockets'[id] >= 1},
         \A id \in Flows : \/ sockets'[id] = sockets[id] /\ replySeq'[id] = replySeq[id]
                          \/ sockets'[id] = sockets[id] + 1,
         \A parts \in delivered' \ delivered :
           /\ parts \subseteq Fragments
           /\ (\A f \in parts : f.to = "entry" /\ sockets'[f.flow] =< 1) => Whole(parts)
  PROVE  ReplyInv'
<1>1. /\ \A f \in Replies : f.flow \in Flows /\ f.source \in 1 .. sockets[f.flow]
      /\ \A id \in Flows : sockets[id] \in Nat /\ replySeq[id] \in Nat
  BY DEF FragmentInv, FragmentsType, Fragments, Replies, ReplyInv, RepliesNumbered, Nodes
<1>2. ASSUME NEW f \in Replies, sockets'[f.flow] =< 1
      PROVE  sockets[f.flow] =< 1 /\ replySeq'[f.flow] = replySeq[f.flow]
  <2>1. sockets[f.flow] >= 1 /\ sockets[f.flow] \in Nat /\ f.flow \in Flows
    BY <1>1
  <2>2. \/ sockets'[f.flow] = sockets[f.flow] /\ replySeq'[f.flow] = replySeq[f.flow]
        \/ sockets'[f.flow] = sockets[f.flow] + 1
    BY <2>1
  <2>3. CASE sockets'[f.flow] = sockets[f.flow] + 1
    BY <1>2, <2>1, <2>3
  <2> QED BY <1>2, <2>2, <2>3
<1>3. \A f \in Replies' : f.source \in 1 .. sockets'[f.flow]
  <2>1. ASSUME NEW f \in Replies' PROVE f.source \in 1 .. sockets'[f.flow]
    <3>1. f.flow \in Flows /\ f.source \in 1 .. sockets[f.flow] /\ sockets[f.flow] \in Nat
      BY <1>1
    <3>2. sockets'[f.flow] = sockets[f.flow] \/ sockets'[f.flow] = sockets[f.flow] + 1
      BY <3>1
    <3> QED BY <3>1, <3>2
  <2> QED BY <2>1
<1>4. \A f \in Replies' : sockets'[f.flow] =< 1 => f.number =< replySeq'[f.flow]
  BY <1>2 DEF ReplyInv, RepliesNumbered
<1>5. \A f, g \in Replies' : Key(f) = Key(g) /\ sockets'[f.flow] =< 1 => f.total = g.total
  BY <1>2 DEF ReplyInv, RepliesNumbered
<1>6. RepliesNumbered'
  BY <1>3, <1>4, <1>5 DEF RepliesNumbered, Key
<1>7. OneSocketIntact'
  <2>1. SUFFICES ASSUME NEW parts \in delivered,
                        \A f \in parts : f.to = "entry" /\ sockets'[f.flow] =< 1
                 PROVE  Whole(parts)
    BY DEF OneSocketIntact, Whole
  <2>2. ASSUME NEW f \in parts PROVE f.to = "entry" /\ sockets[f.flow] =< 1
    <3>1. f.flow \in Flows
      BY DEF ReplyInv, Fragments
    <3> QED BY <1>1, <2>1, <3>1
  <2> QED BY <2>2 DEF ReplyInv, OneSocketIntact
<1>8. \A parts \in delivered' : parts \subseteq Fragments
  BY DEF ReplyInv
<1> QED BY <1>6, <1>7, <1>8 DEF ReplyInv

\* A reply gets a number that its socket has not used.
LEMMA ReplyNumbered ==
  ASSUME FragmentInv, ReplyInv, FragmentsType', NEW id \in Flows, ServiceReplies(id)
  PROVE  ReplyInv'
<1>1. /\ UNCHANGED <<held, delivered, sockets, remoteUDP>> /\ id \in remoteUDP
      /\ replySeq' = [replySeq EXCEPT ![id] = @ + 1] /\ replySeq'[id] = replySeq[id] + 1
      /\ replySeq \in [Flows -> Nat] /\ sockets \in [Flows -> Nat]
  BY DEF ServiceReplies, heldVars, FragmentInv, FragmentsType
<1>2. sockets[id] \in Nat /\ sockets[id] >= 1 /\ replySeq'[id] \in Nat
  BY <1>1 DEF ReplyInv, RepliesNumbered
<1>3. PICK total \in Nat : \A f \in net' :
        f \in net \/ (f \in Fragments /\ f.to = "entry" /\ f.flow = id /\ f.source = sockets[id]
                      /\ f.number = replySeq'[id] /\ f.total = total)
  <2>1. SendUDPDatagram("exit", "entry", id, sockets[id], replySeq'[id]) /\ "entry" \in Nodes
    BY DEF ServiceReplies, Nodes
  <2> QED BY <2>1, <1>2, SendAdds
<1>4. \A f \in Replies' : f \in Replies
        \/ (f.flow = id /\ f.source = sockets[id] /\ f.number = replySeq'[id] /\ f.total = total)
  BY <1>1, <1>3 DEF Replies
<1>5. \A f \in Replies : /\ f.flow \in Flows /\ f.number \in Nat /\ f.source \in 1 .. sockets[f.flow]
                         /\ sockets[f.flow] =< 1 => f.number =< replySeq[f.flow]
  BY DEF FragmentInv, FragmentsType, Fragments, Replies, ReplyInv, RepliesNumbered, Nodes
<1>6. \A f \in Replies' : f.source \in 1 .. sockets'[f.flow]
  BY <1>1, <1>2, <1>4, <1>5
<1>7. \A f \in Replies' : sockets'[f.flow] =< 1 => f.number =< replySeq'[f.flow]
  BY <1>1, <1>2, <1>4, <1>5
<1>8. ASSUME NEW f \in Replies', NEW g \in Replies', Key(f) = Key(g), sockets'[f.flow] =< 1
      PROVE  f.total = g.total
  <2>1. f.flow = g.flow /\ f.number = g.number /\ sockets[f.flow] =< 1
    BY <1>1, <1>8 DEF Key
  <2>2. CASE f \in Replies /\ g \in Replies
    BY <1>8, <2>1, <2>2 DEF ReplyInv, RepliesNumbered
  <2>3. CASE f \notin Replies
    <3>1. g \notin Replies
      BY <2>1, <2>3, <1>1, <1>4, <1>5
    <3> QED BY <3>1, <2>3, <1>4
  <2>4. CASE g \notin Replies
    <3>1. f \notin Replies
      BY <2>1, <2>4, <1>1, <1>4, <1>5
    <3> QED BY <3>1, <2>4, <1>4
  <2> QED BY <2>2, <2>3, <2>4
<1>9. RepliesNumbered'
  BY <1>1, <1>6, <1>7, <1>8 DEF RepliesNumbered, Key, ReplyInv
<1>10. OneSocketIntact' /\ \A parts \in delivered' : parts \subseteq Fragments
  BY <1>1 DEF ReplyInv, OneSocketIntact, Whole
<1> QED BY <1>9, <1>10 DEF ReplyInv

\* A reply that is delivered is one datagram of its socket.
LEMMA ReplyWhole ==
  ASSUME FragmentInv, ReplyInv, NEW f \in net, f.to = "entry", sockets[f.flow] =< 1,
         Complete(f, Added("entry", f))
  PROVE  Whole(Added("entry", f))
<1> DEFINE parts == Added("entry", f)
<1>1. parts \subseteq Fragments /\ parts \subseteq Replies /\ f \in Replies /\ f \in Fragments
  BY AddedParts DEF Replies, Assembly
<1>2. sockets[f.flow] \in Nat
  BY <1>1 DEF FragmentInv, FragmentsType, Fragments
<1>3. ASSUME NEW g \in parts
      PROVE  Key(g) = Key(f) /\ g.to = f.to /\ g.source = f.source /\ g.total = f.total
  <2>1. Key(g) = Key(f) /\ g.to = f.to /\ g \in Replies
    BY <1>1, AddedParts
  <2>2. g.flow = f.flow
    BY <2>1 DEF Key
  <2>3. g.total = f.total
    BY <1>1, <2>1, <2>2 DEF ReplyInv, RepliesNumbered
  <2>4. f.source \in 1 .. sockets[f.flow] /\ g.source \in 1 .. sockets[f.flow]
    BY <1>1, <2>1, <2>2 DEF ReplyInv, RepliesNumbered
  <2>5. f.source = 1 /\ g.source = 1
    BY <1>2, <2>4
  <2> QED BY <2>1, <2>3, <2>5
<1>4. \A g, h \in parts : g.part = h.part => g = h
  BY AddedParts
<1> HIDE DEF parts
<1>5. Whole(parts)
  BY <1>1, <1>3, <1>4, WholeDatagram DEF parts
<1> QED BY <1>5 DEF parts

\* A fragment arrives.
LEMMA ReplyChunk ==
  ASSUME FragmentInv, ReplyInv, FragmentsType', NEW f \in net, HandleUDPChunk(f)
  PROVE  ReplyInv'
<1> DEFINE n == f.to
           parts == Added(n, f)
<1>1. /\ n \in Nodes /\ f \in Fragments /\ parts \subseteq Fragments
      /\ parts \subseteq held[n] \cup {f}
      /\ \A g \in parts : Key(g) = Key(f) /\ g.to = n
  BY AddedParts DEF Assembly
<1>2. f.flow \in Flows /\ sockets \in [Flows -> Nat] /\ replySeq \in [Flows -> Nat]
  BY <1>1 DEF Fragments, FragmentInv, FragmentsType
<1>3. PICK H \in SUBSET (held[n] \cup parts) : held' = [held EXCEPT ![n] = H]
  BY DEF HandleUDPChunk, Hold, Assembly
<1>4. /\ net' \subseteq net /\ delivered' \subseteq delivered \cup {parts}
      /\ delivered' # delivered => Complete(f, parts) /\ (n = "entry" => UNCHANGED sockets)
  BY DEF HandleUDPChunk, ToClient, ToService, exitVars
<1>5. \/ UNCHANGED exitVars
      \/ ToService(f.flow, parts)
  BY DEF HandleUDPChunk, ToClient
<1> HIDE DEF parts
<1>6. Replies' \subseteq Replies
  <2>1. held \in [Nodes -> SUBSET Fragments]
    BY DEF FragmentInv, FragmentsType
  <2>2. held'[n] = H /\ \A m \in Nodes : m # n => held'[m] = held[m]
    BY <1>1, <1>3, <2>1
  <2>3. "entry" \in Nodes
    BY DEF Nodes
  <2>4. CASE n = "entry"
    BY <1>1, <1>3, <1>4, <2>2, <2>4 DEF Replies
  <2>5. CASE n # "entry"
    BY <1>4, <2>2, <2>3, <2>5 DEF Replies
  <2> QED BY <2>4, <2>5
<1>7. /\ remoteUDP' \subseteq {id \in Flows : sockets'[id] >= 1}
      /\ \A id \in Flows : \/ sockets'[id] = sockets[id] /\ replySeq'[id] = replySeq[id]
                          \/ sockets'[id] = sockets[id] + 1
  <2>1. remoteUDP \subseteq {id \in Flows : sockets[id] >= 1}
    BY DEF ReplyInv, RepliesNumbered
  <2>2. CASE UNCHANGED <<sockets, replySeq>> /\ remoteUDP' \subseteq remoteUDP
    BY <2>1, <2>2
  <2>3. CASE f.flow \notin remoteUDP /\ OpenSocket(f.flow) /\ remoteUDP' \subseteq remoteUDP \cup {f.flow}
    <3>1. /\ sockets'[f.flow] = sockets[f.flow] + 1
          /\ \A id \in Flows : id # f.flow => sockets'[id] = sockets[id] /\ replySeq'[id] = replySeq[id]
      BY <1>2, <2>3 DEF OpenSocket
    <3>2. sockets[f.flow] + 1 >= 1
      BY <1>2
    <3> QED BY <1>2, <2>1, <2>3, <3>1, <3>2
  <2>4. \/ UNCHANGED <<sockets, replySeq>> /\ remoteUDP' \subseteq remoteUDP
        \/ f.flow \notin remoteUDP /\ OpenSocket(f.flow) /\ remoteUDP' \subseteq remoteUDP \cup {f.flow}
    BY <1>5 DEF ToService, exitVars
  <2> QED BY <2>2, <2>3, <2>4
<1>8. ASSUME NEW p \in delivered' \ delivered
      PROVE  /\ p \subseteq Fragments
             /\ (\A g \in p : g.to = "entry" /\ sockets'[g.flow] =< 1) => Whole(p)
  <2>1. p = parts /\ Complete(f, parts) /\ (n = "entry" => sockets' = sockets)
    BY <1>4
  <2>2. ASSUME \A g \in p : g.to = "entry" /\ sockets'[g.flow] =< 1 PROVE Whole(p)
    <3>1. CASE parts = {}
      BY <2>1, <3>1 DEF Whole
    <3>2. CASE parts # {}
      <4>1. PICK g \in parts : Key(g) = Key(f) /\ g.to = n
        BY <1>1, <3>2
      <4>2. n = "entry" /\ g.flow = f.flow /\ sockets[f.flow] =< 1
        BY <2>1, <2>2, <4>1 DEF Key
      <4> QED BY <2>1, <4>2, ReplyWhole DEF parts
    <3> QED BY <3>1, <3>2
  <2> QED BY <1>1, <2>1, <2>2
<1> QED BY <1>6, <1>7, <1>8, RepliesStay

\* The invariant of the replies is inductive, given that of the fragments.
THEOREM ReplyInvariance == Spec => []ReplyInv
<1>1. ASSUME FragmentInv, FragmentInv', ReplyInv, [Next]_vars PROVE ReplyInv'
  <2>1. FragmentsType' /\ FragmentsType
    BY <1>1 DEF FragmentInv
  <2>2. ASSUME UNCHANGED <<sockets, replySeq, delivered>>, remoteUDP' \subseteq remoteUDP,
               Replies' \subseteq Replies
        PROVE  ReplyInv'
    <3>1. remoteUDP' \subseteq {id \in Flows : sockets'[id] >= 1}
      BY <1>1, <2>2 DEF ReplyInv, RepliesNumbered
    <3> QED BY <1>1, <2>1, <2>2, <3>1, RepliesStay
  <2>3. ASSUME NEW id \in Flows, ClientDatagram(id) PROVE ReplyInv'
    <3>1. SendUDPDatagram("entry", "exit", id, 0, seq'[id]) /\ UNCHANGED <<exitVars, held, delivered>>
      BY <2>3 DEF ClientDatagram, heldVars
    <3>2. "exit" \in Nodes /\ 0 \in Nat /\ seq'[id] \in Nat
      BY <2>1 DEF Nodes, FragmentsType
    <3>3. \A f \in net' : f \in net \/ f.to = "exit"
      BY <3>1, <3>2, SendAdds
    <3>4. Replies' \subseteq Replies
      BY <3>1, <3>3 DEF Replies
    <3> QED BY <2>2, <3>1, <3>4 DEF exitVars
  <2>4. ASSUME NEW id \in Flows, DeleteRemoteUDP(id) PROVE ReplyInv'
    BY <2>2, <2>4 DEF DeleteRemoteUDP, heldVars, Replies
  <2>5. ASSUME NEW f \in net, Lose(f) PROVE ReplyInv'
    BY <2>2, <2>5 DEF Lose, exitVars, heldVars, Replies
  <2>6. CASE CleanupEntry
    <3>1. held'["entry"] \subseteq held["entry"] /\ UNCHANGED <<net, exitVars, delivered>>
      BY <2>1, <2>6, ExpireShrinks DEF CleanupEntry, Nodes
    <3> QED BY <2>2, <3>1 DEF exitVars, Replies
  <2>7. CASE CleanupExit
    <3>1. /\ held'["entry"] = held["entry"] /\ remoteUDP' \subseteq remoteUDP
          /\ UNCHANGED <<net, sockets, replySeq, delivered>>
      BY <2>1, <2>7, ExpireShrinks DEF CleanupExit, Nodes
    <3> QED BY <2>2, <3>1 DEF Replies
  <2>8. CASE UNCHANGED vars
    BY <2>2, <2>8 DEF vars, exitVars, heldVars, Replies
  <2> QED BY <1>1, <2>1, <2>3, <2>4, <2>5, <2>6, <2>7, <2>8, ReplyNumbered, ReplyChunk DEF Next
<1> QED BY ReplyInit, FragmentInvariance, <1>1, PTL DEF Spec

\* A reply that the client is given is one datagram of the service as long as
\* the exit has not opened a second socket for the flow: the second socket is
\* all that RepliesIntact fails by.
THEOREM RepliesOfOneSocket == Spec => []OneSocketIntact
<1>1. ReplyInv => OneSocketIntact
  BY DEF ReplyInv
<1> QED BY ReplyInvariance, <1>1, PTL
=============================================================================
