--------------------------- MODULE L3PathProofs ---------------------------
(* The path of a packet between two TUN devices: the window of identifiers,  *)
(* the packet filter and the message codec, for every size, packet and      *)
(* message, and the whole path on top of them.                              *)
EXTENDS L3Path, SequenceTheorems, WellFoundedInduction, TLAPS

-----------------------------------------------------------------------------
(* The duplicate window.                                                   *)

WindowType ==
  /\ handled \in Seq(Nat)
  /\ seenRing \in [Slots -> Nat]
  /\ seenNext \in Slots

\* The position in handled of what slot j holds; below 1 when it holds nothing.
Position(j) ==
  IF j < seenNext THEN Len(handled) - seenNext + j + 1
                  ELSE Len(handled) - seenNext - RingSize + j + 1

RingHolds ==
  \A j \in Slots : seenRing[j] = IF Position(j) >= 1 THEN handled[Position(j)] ELSE 0

Nonzero == \A i \in 1 .. Len(handled) : handled[i] # 0

\* WindowRespected alone is not inductive: which identifier Remember deletes
\* depends on the ring, so the invariant says where in the ring each one is.
WindowInv ==
  WindowType /\ RingHolds /\ Nonzero /\ RemembersRecent /\ WindowRespected

\* The empty ring of New satisfies the invariant.
LEMMA WindowInitInv == WindowInit => WindowInv
  BY RingAssumption, SMT DEF WindowInit, WindowInv, WindowType, RingHolds, Nonzero,
     RemembersRecent, WindowRespected, Position, Slots

\* Letting an identifier through that is not known keeps the invariant.
LEMMA RememberInv ==
  ASSUME WindowInv, NEW id \in Nat, ~Known(id), Remember(id)
  PROVE  WindowInv'
<1> DEFINE n == Len(handled)
<1> DEFINE old == seenRing[seenNext]
<1> USE RingAssumption
<1>1. /\ WindowType /\ RingHolds /\ Nonzero /\ RemembersRecent /\ WindowRespected
      /\ id # 0 /\ id \notin seen
  BY DEF WindowInv, Known
<1>2. n \in Nat /\ seenNext \in Nat /\ seenNext < RingSize /\ RingSize >= 1
  BY <1>1 DEF WindowType, Slots
<1>3. /\ handled' = Append(handled, id) /\ handled' \in Seq(Nat) /\ Len(handled') = n + 1
      /\ handled'[n + 1] = id
      /\ \A i \in 1 .. n : handled'[i] = handled[i]
  BY <1>1, SMT DEF Remember, WindowType
<1>4. WindowType'
  BY <1>1, <1>2, <1>3, SMT DEF Remember, WindowType, Slots
<1>5. Nonzero'
  BY <1>1, <1>2, <1>3, SMT DEF Nonzero
<1>6. old = IF n - RingSize + 1 >= 1 THEN handled[n - RingSize + 1] ELSE 0
  <2>1. Position(seenNext) = n - RingSize + 1
    BY <1>2 DEF Position
  <2> QED BY <2>1, <1>1 DEF RingHolds, WindowType
<1>7. RemembersRecent'
  <2> DEFINE recent == {k \in 1 .. n : k > n - RingSize}
  <2> DEFINE recent1 == {k \in 1 .. n + 1 : k > n + 1 - RingSize}
  <2>1. seen = {handled[i] : i \in recent}
    BY <1>1 DEF RemembersRecent
  <2>2. seen' = (IF old # 0 THEN seen \ {old} ELSE seen) \cup {id}
    BY DEF Remember
  <2>3. SUFFICES seen' = {handled'[i] : i \in recent1}
    BY <1>3 DEF RemembersRecent
  <2>4. CASE n < RingSize
    <3>1. old = 0
      BY <2>4, <1>2, <1>6
    <3>2. recent1 = recent \cup {n + 1}
      BY <2>4, <1>2
    <3>3. seen' = seen \cup {id}
      BY <3>1, <2>2
    <3> QED BY <3>2, <3>3, <2>1, <1>2, <1>3, SMT
  <2>5. CASE n >= RingSize
    <3> DEFINE o == n - RingSize + 1
    <3>1. o \in 1 .. n /\ old = handled[o] /\ old # 0
      BY <2>5, <1>1, <1>2, <1>6 DEF Nonzero
    <3>2. recent1 = (recent \ {o}) \cup {n + 1}
      BY <2>5, <1>2
    <3>3. \A i \in recent : i # o => handled[i] # handled[o]
      BY <2>5, <1>1, <1>2, <3>1 DEF WindowRespected
    <3>4. o \in recent
      BY <3>1, <1>2
    <3>5. seen \ {old} = {handled[i] : i \in recent \ {o}}
      BY <3>1, <3>3, <3>4, <2>1, Zenon
    <3>6. seen' = {handled[i] : i \in recent \ {o}} \cup {id}
      BY <3>1, <3>5, <2>2
    <3>7. \A i \in recent \ {o} : handled'[i] = handled[i]
      BY <1>3
    <3>8. {handled'[i] : i \in recent1} = {handled'[i] : i \in recent \ {o}} \cup {handled'[n + 1]}
      BY <3>2, Zenon
    <3>9. {handled'[i] : i \in recent \ {o}} = {handled[i] : i \in recent \ {o}}
      BY <3>7, Zenon
    <3> QED BY <3>6, <3>8, <3>9, <1>3
  <2> QED BY <2>4, <2>5, <1>2
<1>8. WindowRespected'
  <2>1. SUFFICES ASSUME NEW i \in 1 .. n + 1, NEW k \in 1 .. n + 1,
                        i < k, handled'[i] = handled'[k]
                 PROVE  k - i > RingSize
    BY <1>3 DEF WindowRespected
  <2>2. CASE k =< n
    BY <2>1, <2>2, <1>1, <1>2, <1>3 DEF WindowRespected
  <2>3. CASE k = n + 1
    <3>1. i \in 1 .. n /\ handled[i] = id
      BY <2>1, <2>3, <1>2, <1>3
    <3>2. ~(i > n - RingSize)
      BY <3>1, <1>1 DEF RemembersRecent
    <3> QED BY <3>1, <3>2, <2>3, <1>2
  <2> QED BY <2>2, <2>3, <1>2
<1>9. RingHolds'
  <2>1. SUFFICES ASSUME NEW j \in Slots
                 PROVE  seenRing'[j] = IF Position(j)' >= 1 THEN handled'[Position(j)'] ELSE 0
    BY DEF RingHolds
  <2>2. j \in Nat /\ j < RingSize
    BY DEF Slots
  <2>3. seenNext' = IF seenNext + 1 = RingSize THEN 0 ELSE seenNext + 1
    BY DEF Remember
  <2>4. CASE j = seenNext
    <3>1. Position(j)' = n + 1
      BY <2>2, <2>3, <2>4, <1>2, <1>3 DEF Position
    <3>2. seenRing'[j] = id
      BY <2>4, <1>1 DEF Remember, WindowType
    <3> QED BY <3>1, <3>2, <1>2, <1>3
  <2>5. CASE j # seenNext
    <3>1. Position(j)' = Position(j)
      BY <2>2, <2>3, <2>5, <1>2, <1>3 DEF Position
    <3>2. seenRing'[j] = seenRing[j]
      BY <2>5, <1>1 DEF Remember, WindowType
    <3>3. Position(j) \in Int /\ Position(j) =< n
      BY <2>2, <1>2 DEF Position
    <3>4. Position(j) >= 1 => handled'[Position(j)] = handled[Position(j)]
      BY <3>3, <1>2, <1>3
    <3> QED BY <3>1, <3>2, <3>4, <1>1 DEF RingHolds
  <2> QED BY <2>4, <2>5
<1> QED BY <1>4, <1>5, <1>7, <1>8, <1>9 DEF WindowInv

\* The invariant holds whatever identifiers arrive.
THEOREM WindowInvariance == WindowSpec => []WindowInv
<1>1. WindowInv /\ [WindowNext]_windowVars => WindowInv'
  <2>1. SUFFICES ASSUME WindowInv, [WindowNext]_windowVars
                 PROVE  WindowInv'
    OBVIOUS
  <2>2. CASE UNCHANGED windowVars
    BY <2>1, <2>2 DEF windowVars, WindowInv, WindowType, RingHolds, Nonzero,
       RemembersRecent, WindowRespected, Position
  <2>3. CASE WindowNext
    <3>1. PICK id \in Nat : isDuplicate(id)
      BY <2>3 DEF WindowNext
    <3> QED BY <3>1, <2>1, <2>2, RememberInv DEF isDuplicate
  <2> QED BY <2>1, <2>2, <2>3
<1> QED BY WindowInitInv, <1>1, PTL DEF WindowSpec

\* isDuplicate lets no identifier through twice within RingSize others, for
\* every size of the ring and however long the tunnel runs.
THEOREM WindowIsRespected == WindowSpec => []WindowRespected
<1>1. WindowInv => WindowRespected
  BY DEF WindowInv
<1> QED BY WindowInvariance, <1>1, PTL

\* The set isDuplicate consults is exactly the last RingSize identifiers, so
\* it stays bounded and rejects nothing that was not handled.
THEOREM WindowRemembersRecent == WindowSpec => []RemembersRecent
<1>1. WindowInv => RemembersRecent
  BY DEF WindowInv
<1> QED BY WindowInvariance, <1>1, PTL

-----------------------------------------------------------------------------
(* The packet filter.                                                      *)

\* A nonempty set of positions has a first one.
LEMMA FirstExists ==
  ASSUME NEW S \in SUBSET Nat, S # {}
  PROVE  \E n \in S : \A m \in S : n =< m
<1> DEFINE R == OpToRel(<, Nat)
<1>1. PICK n \in S : \A m \in S : ~(<<m, n>> \in R)
  <2>1. IsWellFoundedOn(R, Nat)
    BY NatLessThanWellFounded
  <2> HIDE DEF R
  <2> QED BY <2>1, WFMin
<1>2. \A m \in S : m < n => <<m, n>> \in R
  BY DEF OpToRel
<1> HIDE DEF R
<1>3. \A m \in S : ~(m < n)
  BY <1>1, <1>2
<1> QED BY <1>3

Steps(n, V) == [1 .. n -> [V -> V]]

\* f holds the states of n rounds that start from a.
Runs(f, n, V, a, step) ==
  f \in [0 .. n -> V] /\ f[0] = a /\ \A h \in 1 .. n : f[h] = step[h][f[h - 1]]

\* A loop of n rounds has its states.
LEMMA LoopExists ==
  ASSUME NEW n \in Nat, NEW V, NEW a \in V, NEW step \in Steps(n, V)
  PROVE  \E f : Runs(f, n, V, a, step)
<1> USE DEF Runs, Steps
<1> DEFINE T == {k \in 0 .. n : ~\E f : Runs(f, k, V, a, step)}
<1>1. SUFFICES T = {}
  <2>1. n \in 0 .. n
    OBVIOUS
  <2> QED BY <1>1, <2>1
<1>2. SUFFICES ASSUME T # {} PROVE FALSE
  OBVIOUS
<1>3. PICK k \in T : \A m \in T : k =< m
  <2>1. T \in SUBSET Nat
    OBVIOUS
  <2> HIDE DEF T
  <2> QED BY <1>2, <2>1, FirstExists
<1>4. CASE k = 0
  <2>1. Runs([h \in 0 .. 0 |-> a], 0, V, a, step)
    OBVIOUS
  <2> QED BY <2>1, <1>4, <1>3
<1>5. CASE k # 0
  <2>1. k \in 1 .. n /\ k - 1 \in 0 .. n /\ k - 1 \notin T
    BY <1>3, <1>5
  <2>2. PICK f : Runs(f, k - 1, V, a, step)
    BY <2>1
  <2> DEFINE g == [h \in 0 .. k |-> IF h = k THEN step[k][f[k - 1]] ELSE f[h]]
  <2>3. f[k - 1] \in V /\ step[k][f[k - 1]] \in V
    BY <2>1, <2>2
  <2>4. g \in [0 .. k -> V] /\ g[0] = a
    BY <2>1, <2>2, <2>3
  <2>5. \A h \in 1 .. k : g[h] = step[h][g[h - 1]]
    BY <2>1, <2>2
  <2>6. Runs(g, k, V, a, step)
    BY <2>4, <2>5
  <2> QED BY <2>6, <1>3
<1> QED BY <1>4, <1>5

WalkStates == [next : Int, offset : Int, result : {"none", "ok", "error"}]

\* Header sizes are numbers, and no header is empty.
LEMMA HeaderLenType ==
  ASSUME NEW t \in Int, NEW n \in Nat
  PROVE  HeaderLen(t, n) \in Nat /\ HeaderLen(t, n) > 0
  BY DEF HeaderLen, Options, Fragment

\* The bytes of a packet are numbers.
LEMMA PacketFields ==
  ASSUME NEW p \in IPPackets
  PROVE  /\ p.proto \in Int /\ p.len \in Nat /\ p.ihl \in Nat
         /\ \A i \in 1 .. MaxHeaders : p.ext[i].next \in Int /\ p.ext[i].size \in Nat
         /\ \A i \in 0 .. MaxHeaders : TypeAt(p, i) \in Int
<1> USE HeadersAssumption
<1>1. p.proto \in 0 .. 255 /\ p.len \in Nat /\ p.ihl \in 0 .. 15
  BY DEF IPPackets
<1>2. p.ext \in [1 .. MaxHeaders -> [next : 0 .. 255, size : 0 .. 255]]
  BY DEF IPPackets
<1>3. \A i \in 1 .. MaxHeaders : p.ext[i].next \in 0 .. 255 /\ p.ext[i].size \in 0 .. 255
  BY <1>2
<1>4. \A n \in 0 .. 255 : n \in Int /\ n \in Nat
  OBVIOUS
<1>5. \A i \in 1 .. MaxHeaders : p.ext[i].next \in Int /\ p.ext[i].size \in Nat
  BY <1>3, <1>4, Zenon
<1>6. ASSUME NEW i \in 0 .. MaxHeaders
      PROVE  TypeAt(p, i) \in Int
  <2>1. CASE i = 0
    BY <2>1, <1>1 DEF TypeAt
  <2>2. CASE i # 0
    <3>1. i \in 1 .. MaxHeaders
      BY <2>2
    <3>2. p.ext[i].next \in Int
      BY <3>1, <1>5, Zenon
    <3> QED BY <2>2, <3>2 DEF TypeAt
  <2> QED BY <2>1, <2>2
<1>7. p.proto \in Int /\ p.len \in Nat /\ p.ihl \in Nat
  BY <1>1
<1> QED BY <1>5, <1>6, <1>7, Zenon

\* A round of the loop of ipv6UpperLayerProtocol makes a state of it.
LEMMA RoundType ==
  ASSUME NEW p \in IPPackets, NEW h \in 0 .. MaxHeaders - 1, NEW at \in WalkStates
  PROVE  Round(p, h, at) \in WalkStates
<1> USE HeadersAssumption
<1>1. h + 1 \in 1 .. MaxHeaders
  OBVIOUS
<1>2. p.ext[h + 1].next \in Int /\ p.ext[h + 1].size \in Nat
  BY <1>1, PacketFields
<1>3. at.next \in Int
  BY DEF WalkStates
<1>4. HeaderLen(at.next, p.ext[h + 1].size) \in Nat
  BY <1>2, <1>3, HeaderLenType
<1> DEFINE len == HeaderLen(at.next, p.ext[h + 1].size)
<1>5. [at EXCEPT !.next = p.ext[h + 1].next, !.offset = at.offset + len] \in WalkStates
  <2>1. p.ext[h + 1].next \in Int /\ at.offset + len \in Int
    BY <1>2, <1>4 DEF WalkStates
  <2> HIDE DEF len
  <2> QED BY <2>1 DEF WalkStates
<1>6. [at EXCEPT !.result = "ok"] \in WalkStates /\ [at EXCEPT !.result = "error"] \in WalkStates
  BY DEF WalkStates
<1> QED BY <1>5, <1>6, Zenon DEF Round

\* Walk is the loop: its first state, and every other from the one before it.
LEMMA WalkUnfolds ==
  ASSUME NEW p \in IPPackets
  PROVE  /\ Walk(p) \in [0 .. MaxHeaders -> WalkStates]
         /\ Walk(p)[0] = [next |-> p.proto, offset |-> 40, result |-> "none"]
         /\ \A h \in 1 .. MaxHeaders : Walk(p)[h] = Round(p, h - 1, Walk(p)[h - 1])
<1> USE HeadersAssumption
<1> DEFINE a == [next |-> p.proto, offset |-> 40, result |-> "none"]
<1> DEFINE Def(f) == [h \in 0 .. MaxHeaders |-> IF h = 0 THEN a ELSE Round(p, h - 1, f[h - 1])]
<1> DEFINE step == [h \in 1 .. MaxHeaders |-> [at \in WalkStates |-> Round(p, h - 1, at)]]
<1>1. a \in WalkStates
  <2>1. p.proto \in Int
    BY PacketFields
  <2> QED BY <2>1 DEF WalkStates
<1>2. step \in Steps(MaxHeaders, WalkStates)
  BY RoundType DEF Steps
<1>3. PICK f : Runs(f, MaxHeaders, WalkStates, a, step)
  <2>1. MaxHeaders \in Nat
    OBVIOUS
  <2> HIDE DEF a, step
  <2> QED BY <1>1, <1>2, <2>1, LoopExists
<1>4. ASSUME NEW h \in 1 .. MaxHeaders
      PROVE  f[h] = Round(p, h - 1, f[h - 1])
  <2>1. h - 1 \in 0 .. MaxHeaders
    OBVIOUS
  <2>2. f[h - 1] \in WalkStates
    BY <2>1, <1>3 DEF Runs
  <2> QED BY <2>2, <1>3 DEF Runs
<1> HIDE DEF a
<1>5. f = Def(f)
  BY <1>3, <1>4 DEF Runs
<1>6. Walk(p) = CHOOSE g : g = Def(g)
  BY Zenon DEF Walk, a
<1>7. Walk(p) = Def(Walk(p))
  BY <1>5, <1>6, Zenon
<1> DEFINE w == Walk(p)
<1>8. w = Def(w)
  BY <1>7
<1> HIDE DEF w
<1>9. /\ w[0] = a
      /\ \A h \in 1 .. MaxHeaders : w[h] = Round(p, h - 1, w[h - 1])
      /\ DOMAIN w = 0 .. MaxHeaders
  BY <1>8
<1>10. w \in [0 .. MaxHeaders -> WalkStates]
  <2> DEFINE T == {h \in 0 .. MaxHeaders : w[h] \notin WalkStates}
  <2>1. SUFFICES ASSUME T # {} PROVE FALSE
    BY <1>8, <1>9
  <2>2. PICK h \in T : \A m \in T : h =< m
    <3>1. T \in SUBSET Nat
      OBVIOUS
    <3> HIDE DEF T
    <3> QED BY <2>1, <3>1, FirstExists
  <2>3. h # 0
    BY <2>2, <1>1, <1>9
  <2>4. h \in 1 .. MaxHeaders /\ h - 1 \in 0 .. MaxHeaders - 1 /\ w[h - 1] \in WalkStates
    BY <2>2, <2>3
  <2> QED BY <2>2, <2>4, <1>9, RoundType
<1> QED BY <1>9, <1>10 DEF w, a

\* Where the headers start: 40 bytes in, and each one after the one before it.
LEMMA StartsUnfold ==
  ASSUME NEW p \in IPPackets
  PROVE  /\ StartOf(p, 0) = 40
         /\ \A i \in 1 .. MaxHeaders :
              StartOf(p, i) = StartOf(p, i - 1) + HeaderLen(TypeAt(p, i - 1), p.ext[i].size)
         /\ \A i \in 0 .. MaxHeaders : StartOf(p, i) \in Int
<1> USE HeadersAssumption
<1> DEFINE Size(i) == HeaderLen(TypeAt(p, i - 1), p.ext[i].size)
<1> DEFINE Def(f) == [i \in 0 .. MaxHeaders |-> IF i = 0 THEN 40 ELSE f[i - 1] + Size(i)]
<1> DEFINE step == [i \in 1 .. MaxHeaders |-> [n \in Int |-> n + Size(i)]]
<1>1. \A i \in 1 .. MaxHeaders : Size(i) \in Int
  <2>1. ASSUME NEW i \in 1 .. MaxHeaders
        PROVE  TypeAt(p, i - 1) \in Int /\ p.ext[i].size \in Nat
    <3>1. i - 1 \in 0 .. MaxHeaders
      OBVIOUS
    <3> QED BY <3>1, PacketFields
  <2>2. ASSUME NEW i \in 1 .. MaxHeaders
        PROVE  HeaderLen(TypeAt(p, i - 1), p.ext[i].size) \in Nat
    BY <2>1, HeaderLenType
  <2> QED BY <2>2
<1> HIDE DEF Size
<1>2. step \in Steps(MaxHeaders, Int) /\ 40 \in Int
  BY <1>1 DEF Steps
<1>3. PICK f : Runs(f, MaxHeaders, Int, 40, step)
  <2>1. MaxHeaders \in Nat
    OBVIOUS
  <2> HIDE DEF step
  <2> QED BY <1>2, <2>1, LoopExists
<1>4. ASSUME NEW i \in 1 .. MaxHeaders
      PROVE  f[i] = f[i - 1] + Size(i)
  <2>1. i - 1 \in 0 .. MaxHeaders
    OBVIOUS
  <2>2. f[i - 1] \in Int
    BY <2>1, <1>3 DEF Runs
  <2> QED BY <2>2, <1>3 DEF Runs
<1>5. f = Def(f)
  BY <1>3, <1>4 DEF Runs
<1>6. HeaderStarts(p) = CHOOSE g : g = Def(g)
  BY Zenon DEF HeaderStarts, Size
<1>7. HeaderStarts(p) = Def(HeaderStarts(p))
  BY <1>5, <1>6, Zenon
<1> DEFINE w == HeaderStarts(p)
<1>8. w = Def(w)
  BY <1>7
<1> HIDE DEF w
<1>9. w[0] = 40 /\ \A i \in 1 .. MaxHeaders : w[i] = w[i - 1] + Size(i)
  BY <1>8
<1>10. \A i \in 0 .. MaxHeaders : w[i] \in Int
  <2> DEFINE T == {i \in 0 .. MaxHeaders : w[i] \notin Int}
  <2>1. SUFFICES ASSUME T # {} PROVE FALSE
    OBVIOUS
  <2>2. PICK i \in T : \A m \in T : i =< m
    <3>1. T \in SUBSET Nat
      OBVIOUS
    <3> HIDE DEF T
    <3> QED BY <2>1, <3>1, FirstExists
  <2>3. i # 0
    BY <2>2, <1>9
  <2>4. i \in 1 .. MaxHeaders /\ w[i - 1] \in Int
    BY <2>2, <2>3
  <2> QED BY <2>2, <2>4, <1>1, <1>9
<1> QED BY <1>9, <1>10 DEF StartOf, w, Size

\* The extension headers before header i are there, in full.
Reaches(p, i) ==
  (\A j \in 0 .. i - 1 : TypeAt(p, j) \in ExtensionHeaders) /\ StartOf(p, i) =< p.len

\* What the loop has found out after h rounds.
FoundOut(p, h) ==
  LET at == Walk(p)[h] IN
    /\ at.result = "none" <=> Reaches(p, h)
    /\ at.result = "none" => at.next = TypeAt(p, h) /\ at.offset = StartOf(p, h)
    /\ at.result = "ok" => \E i \in 0 .. h - 1 : Reaches(p, i) /\ TypeAt(p, i) = at.next
    /\ \A i \in 0 .. h - 1 :
         Reaches(p, i) /\ TypeAt(p, i) \notin ExtensionHeaders
           => at.result = "ok" /\ at.next = TypeAt(p, i)

\* One more header: it has to be an extension header, and end in the packet.
LEMMA ReachesNext ==
  ASSUME NEW p \in IPPackets, NEW h \in 0 .. MaxHeaders - 1
  PROVE  /\ Reaches(p, h + 1) <=>
              /\ Reaches(p, h) /\ TypeAt(p, h) \in ExtensionHeaders
              /\ StartOf(p, h) + HeaderLen(TypeAt(p, h), p.ext[h + 1].size) =< p.len
<1> USE HeadersAssumption
<1> DEFINE len == HeaderLen(TypeAt(p, h), p.ext[h + 1].size)
<1>1. h + 1 \in 1 .. MaxHeaders /\ h \in 0 .. MaxHeaders /\ h + 1 - 1 = h
  OBVIOUS
<1>2. StartOf(p, h + 1) = StartOf(p, h) + len /\ StartOf(p, h) \in Int
  BY <1>1, StartsUnfold
<1>3. len \in Nat /\ p.len \in Nat
  <2>1. TypeAt(p, h) \in Int /\ p.ext[h + 1].size \in Nat /\ p.len \in Nat
    BY <1>1, PacketFields
  <2> QED BY <2>1, HeaderLenType
<1> HIDE DEF len
<1>4. 0 .. h + 1 - 1 = (0 .. h - 1) \cup {h}
  OBVIOUS
<1>5. (\A j \in 0 .. h + 1 - 1 : TypeAt(p, j) \in ExtensionHeaders)
        <=> (\A j \in 0 .. h - 1 : TypeAt(p, j) \in ExtensionHeaders) /\ TypeAt(p, h) \in ExtensionHeaders
  BY <1>4, Zenon
<1>6. StartOf(p, h + 1) =< p.len <=> StartOf(p, h) + len =< p.len
  BY <1>2
<1>7. StartOf(p, h) + len =< p.len => StartOf(p, h) =< p.len
  BY <1>2, <1>3
<1> QED BY <1>5, <1>6, <1>7 DEF Reaches, len

\* A round finds out about one more header.
LEMMA RoundFindsOut ==
  ASSUME NEW p \in IPPackets, NEW h \in 0 .. MaxHeaders - 1, FoundOut(p, h)
  PROVE  FoundOut(p, h + 1)
<1> USE HeadersAssumption
<1> DEFINE at == Walk(p)[h]
<1> DEFINE ext == p.ext[h + 1]
<1> DEFINE len == HeaderLen(at.next, ext.size)
<1>1. h + 1 \in 1 .. MaxHeaders /\ h \in 0 .. MaxHeaders /\ h + 1 - 1 = h
  OBVIOUS
<1>2. at \in WalkStates /\ Walk(p)[h + 1] = Round(p, h, at)
  <2>1. PICK k \in 1 .. MaxHeaders : k = h + 1
    BY <1>1
  <2>2. Walk(p)[k] = Round(p, k - 1, Walk(p)[k - 1])
    BY WalkUnfolds
  <2>3. k - 1 = h
    BY <2>1
  <2>4. at \in WalkStates
    BY <1>1, WalkUnfolds
  <2> QED BY <2>1, <2>2, <2>3, <2>4, Zenon
<1>3. \A i \in 0 .. h + 1 - 1 : i \in 0 .. h - 1 \/ i = h
  OBVIOUS
<1>4. ASSUME NEW i \in 0 .. h - 1, Reaches(p, h), TypeAt(p, i) \notin ExtensionHeaders
      PROVE  FALSE
  BY <1>4 DEF Reaches
<1>5. CASE at.result # "none"
  <2>1. Walk(p)[h + 1] = at
    BY <1>2, <1>5 DEF Round
  <2>2. ~Reaches(p, h) /\ ~Reaches(p, h + 1)
    BY <1>5, ReachesNext DEF FoundOut
  <2>3. at.result = "ok" => \E i \in 0 .. h + 1 - 1 : Reaches(p, i) /\ TypeAt(p, i) = at.next
    BY DEF FoundOut
  <2>4. ASSUME NEW i \in 0 .. h + 1 - 1, Reaches(p, i), TypeAt(p, i) \notin ExtensionHeaders
        PROVE  at.result = "ok" /\ at.next = TypeAt(p, i)
    <3>1. i \in 0 .. h - 1
      BY <1>3, <2>2, <2>4
    <3> QED BY <3>1, <2>4 DEF FoundOut
  <2> HIDE DEF at
  <2> QED BY <1>5, <2>1, <2>2, <2>3, <2>4 DEF FoundOut
<1>6. CASE at.result = "none"
  <2>1. Reaches(p, h) /\ at.next = TypeAt(p, h) /\ at.offset = StartOf(p, h)
    BY <1>6 DEF FoundOut
  <2>2. CASE at.next \notin ExtensionHeaders
    <3>1. Walk(p)[h + 1] = [at EXCEPT !.result = "ok"]
      BY <1>2, <1>6, <2>2 DEF Round
    <3>2. Walk(p)[h + 1].result = "ok" /\ Walk(p)[h + 1].next = at.next
      BY <3>1, <1>2 DEF WalkStates
    <3>3. ~Reaches(p, h + 1)
      BY <2>1, <2>2, ReachesNext
    <3>4. h \in 0 .. h + 1 - 1
      OBVIOUS
    <3>5. \A i \in 0 .. h + 1 - 1 :
            Reaches(p, i) /\ TypeAt(p, i) \notin ExtensionHeaders => TypeAt(p, i) = at.next
      BY <1>3, <1>4, <2>1
    <3> HIDE DEF at
    <3>6. "ok" # "none"
      OBVIOUS
    <3> QED BY <2>1, <3>2, <3>3, <3>4, <3>5, <3>6 DEF FoundOut
  <2>3. CASE at.next \in ExtensionHeaders
    <3>1. \A i \in 0 .. h + 1 - 1 : TypeAt(p, i) \in ExtensionHeaders
      BY <1>3, <1>4, <2>1, <2>3
    <3>2. Reaches(p, h + 1) <=> at.offset + len =< p.len
      BY <2>1, <2>3, ReachesNext
    <3>3. at.offset \in Int /\ len \in Int /\ p.len \in Int
      <4>1. ext.size \in Nat /\ p.len \in Nat /\ TypeAt(p, h) \in Int
        BY <1>1, PacketFields
      <4>2. HeaderLen(TypeAt(p, h), ext.size) \in Nat
        BY <4>1, HeaderLenType
      <4> QED BY <1>2, <2>1, <4>1, <4>2 DEF WalkStates
    <3>4. CASE Fits(p, at.offset, len)
      <4>1. Walk(p)[h + 1] = [at EXCEPT !.next = ext.next, !.offset = at.offset + len]
        BY <1>2, <1>6, <2>3, <3>4, Zenon DEF Round
      <4> HIDE DEF len
      <4>2. /\ Walk(p)[h + 1].result = "none" /\ Walk(p)[h + 1].next = ext.next
            /\ Walk(p)[h + 1].offset = at.offset + len
        BY <4>1, <1>2, <1>6 DEF WalkStates
      <4>3. Reaches(p, h + 1)
        BY <3>2, <3>3, <3>4 DEF Fits
      <4>4. ext.next = TypeAt(p, h + 1)
        BY <1>1 DEF TypeAt
      <4>5. at.offset + len = StartOf(p, h + 1)
        <5>1. StartOf(p, h + 1) = StartOf(p, h) + HeaderLen(TypeAt(p, h), ext.size)
          BY <1>1, StartsUnfold
        <5> QED BY <5>1, <2>1 DEF len
      <4>6. "none" # "ok"
        OBVIOUS
      <4> HIDE DEF at, ext
      <4> QED BY <3>1, <4>2, <4>3, <4>4, <4>5, <4>6 DEF FoundOut
    <3>5. CASE ~Fits(p, at.offset, len)
      <4>1. Walk(p)[h + 1] = [at EXCEPT !.result = "error"]
        BY <1>2, <1>6, <2>3, <3>5, Zenon DEF Round
      <4>2. Walk(p)[h + 1].result = "error"
        BY <4>1, <1>2 DEF WalkStates
      <4>3. ~Reaches(p, h + 1)
        BY <3>2, <3>3, <3>5 DEF Fits
      <4>4. "error" # "ok" /\ "error" # "none"
        OBVIOUS
      <4> HIDE DEF at
      <4> QED BY <3>1, <4>2, <4>3, <4>4 DEF FoundOut
    <3> QED BY <3>4, <3>5
  <2> QED BY <2>2, <2>3
<1> QED BY <1>5, <1>6

\* The loop is right about every header it has looked at.
LEMMA WalkFindsOut ==
  ASSUME NEW p \in IPPackets, p.len >= 40
  PROVE  FoundOut(p, MaxHeaders)
<1> USE HeadersAssumption
<1> DEFINE T == {h \in 0 .. MaxHeaders : ~FoundOut(p, h)}
<1>1. SUFFICES ASSUME T # {} PROVE FALSE
  OBVIOUS
<1>2. PICK h \in T : \A m \in T : h =< m
  <2>1. T \in SUBSET Nat
    OBVIOUS
  <2> HIDE DEF T
  <2> QED BY <1>1, <2>1, FirstExists
<1>3. CASE h = 0
  <2>1. /\ Walk(p)[0].next = p.proto /\ Walk(p)[0].offset = 40 /\ Walk(p)[0].result = "none"
        /\ StartOf(p, 0) = 40 /\ TypeAt(p, 0) = p.proto
    <3>1. Walk(p)[0] = [next |-> p.proto, offset |-> 40, result |-> "none"]
      BY WalkUnfolds
    <3>2. StartOf(p, 0) = 40
      BY StartsUnfold
    <3> QED BY <3>1, <3>2 DEF TypeAt
  <2>2. Reaches(p, 0)
    BY <2>1 DEF Reaches
  <2>3. FoundOut(p, 0)
    BY <2>1, <2>2 DEF FoundOut
  <2> QED BY <1>2, <1>3, <2>3
<1>4. CASE h # 0
  <2>1. PICK k \in 0 .. MaxHeaders - 1 : h = k + 1
    BY <1>2, <1>4
  <2>2. k \notin T
    BY <1>2, <2>1
  <2>3. FoundOut(p, k)
    BY <2>1, <2>2
  <2>4. FoundOut(p, k + 1)
    BY <2>1, <2>3, RoundFindsOut
  <2> QED BY <1>2, <2>1, <2>4
<1> QED BY <1>3, <1>4

\* What ipProtocol answers is what the packet carries.
LEMMA ProtocolIsCarried ==
  ASSUME NEW p \in IPPackets, NEW t \in {TCP, UDP}
  PROVE  ipProtocol(p) = t <=> Carries(p, t)
<1> USE HeadersAssumption
<1>1. t \in Int /\ t # Unknown /\ t \notin ExtensionHeaders
  BY DEF TCP, UDP, Unknown, ExtensionHeaders, Options, Fragment, Authentication
<1>2. p.len \in Nat /\ p.ihl \in Nat /\ p.proto \in Int
  BY PacketFields
<1>3. CASE p.len < 1
  BY <1>1, <1>2, <1>3 DEF ipProtocol, Carries
<1>4. CASE p.len >= 1 /\ p.version = 4
  <2>1. ipProtocol(p) = IF p.len < 20 \/ p.ihl * 4 < 20 \/ p.len < p.ihl * 4 THEN Unknown ELSE p.proto
    BY <1>2, <1>4 DEF ipProtocol
  <2>2. Carries(p, t) <=> p.ihl >= 5 /\ p.len >= 4 * p.ihl /\ p.proto = t
    BY <1>4 DEF Carries
  <2> QED BY <1>1, <1>2, <2>1, <2>2
<1>5. CASE p.len >= 1 /\ p.version = 6
  <2> DEFINE at == Walk(p)[MaxHeaders]
  <2>1. ipProtocol(p) = IF p.len >= 40 /\ at.result = "ok" THEN at.next ELSE Unknown
    BY <1>2, <1>5 DEF ipProtocol, ipv6UpperLayerProtocol
  <2>2. Carries(p, t) <=>
          p.len >= 40 /\ \E i \in 0 .. MaxHeaders - 1 : Reaches(p, i) /\ TypeAt(p, i) = t
    BY <1>5 DEF Carries, Reaches
  <2>3. CASE p.len < 40
    BY <1>1, <1>2, <2>1, <2>2, <2>3
  <2>4. CASE p.len >= 40
    <3>1. FoundOut(p, MaxHeaders)
      BY <2>4, WalkFindsOut
    <3>2. ASSUME at.result = "ok", at.next = t
          PROVE  \E i \in 0 .. MaxHeaders - 1 : Reaches(p, i) /\ TypeAt(p, i) = t
      BY <3>1, <3>2 DEF FoundOut
    <3>3. ASSUME NEW i \in 0 .. MaxHeaders - 1, Reaches(p, i), TypeAt(p, i) = t
          PROVE  at.result = "ok" /\ at.next = t
      BY <1>1, <3>1, <3>3 DEF FoundOut
    <3> HIDE DEF at
    <3> QED BY <1>1, <2>1, <2>2, <2>4, <3>2, <3>3
  <2> QED BY <1>2, <2>3, <2>4
<1>6. CASE p.len >= 1 /\ p.version # 4 /\ p.version # 6
  BY <1>1, <1>2, <1>6 DEF ipProtocol, Carries
<1> QED BY <1>2, <1>3, <1>4, <1>5, <1>6

\* PacketAllowed lets through the complete TCP and UDP packets of the allowed
\* protocols and nothing else, for every packet, every chain of IPv6 headers
\* and every number of headers the walk looks at.
THEOREM FilterIsExact ==
  ASSUME NEW p \in IPPackets, NEW protocols
  PROVE  PacketAllowed(p, protocols) <=> Permitted(p, protocols)
<1>1. ipProtocol(p) = TCP <=> Carries(p, TCP)
  BY ProtocolIsCarried
<1>2. ipProtocol(p) = UDP <=> Carries(p, UDP)
  BY ProtocolIsCarried
<1> QED BY <1>1, <1>2 DEF PacketAllowed, Permitted

-----------------------------------------------------------------------------
(* The message codec.                                                      *)

\* SubSeq finds what lies in a sequence behind its first a elements.
LEMMA PartOf ==
  ASSUME NEW S, NEW s \in Seq(S), NEW t \in Seq(S), NEW a \in Nat,
         a + Len(t) =< Len(s), \A i \in 1 .. Len(t) : s[a + i] = t[i]
  PROVE  SubSeq(s, a + 1, a + Len(t)) = t
<1>1. Len(t) \in Nat /\ Len(s) \in Nat
  OBVIOUS
<1>2. \A i \in a + 1 .. a + Len(t) : s[i] \in S
  BY <1>1
<1> DEFINE u == SubSeq(s, a + 1, a + Len(t))
<1>3. /\ u \in Seq(S) /\ Len(u) = (IF a + 1 <= a + Len(t) THEN a + Len(t) - (a + 1) + 1 ELSE 0)
      /\ \A i \in 1 .. a + Len(t) - (a + 1) + 1 : u[i] = s[a + 1 + i - 1]
  <2> HIDE DEF u
  <2>1. a + 1 \in Int /\ a + Len(t) \in Int
    BY <1>1
  <2> QED BY <1>2, <2>1, SubSeqProperties DEF u
<1> HIDE DEF u
<1>4. Len(u) = Len(t) /\ \A i \in 1 .. Len(u) : u[i] = t[i]
  <2>1. Len(u) = Len(t)
    BY <1>1, <1>3
  <2>2. ASSUME NEW i \in 1 .. Len(t) PROVE u[i] = t[i]
    <3>1. a + 1 + i - 1 = a + i /\ i \in 1 .. a + Len(t) - (a + 1) + 1
      BY <1>1
    <3>2. u[i] = s[a + i]
      BY <3>1, <1>3
    <3> QED BY <3>2
  <2> QED BY <2>1, <2>2
<1> QED BY <1>3, <1>4, SeqEqual DEF u

Messages(T, S) ==
  [type : T, id : Nat, connID : Nat, seq : Nat, name : Seq(S), error : Seq(S), payload : Seq(S)]

\* Decode undoes Encode: the lengths in the header tell name, error and
\* payload apart again, whatever they hold.
THEOREM DecodeUndoesEncode ==
  ASSUME NEW T, NEW S, NEW m \in Messages(T, S), Encodable(m)
  PROVE  Decodable(Encode(m)) /\ Decode(Encode(m)) = m
<1> DEFINE n == m.name
<1> DEFINE e == m.error
<1> DEFINE p == m.payload
<1> DEFINE b == n \o e \o p
<1>1. n \in Seq(S) /\ e \in Seq(S) /\ p \in Seq(S)
  BY DEF Messages
<1>2. m = [type |-> m.type, id |-> m.id, connID |-> m.connID, seq |-> m.seq,
           name |-> n, error |-> e, payload |-> p]
  BY DEF Messages
<1> HIDE DEF n, e, p
<1>3. Len(n) \in Nat /\ Len(e) \in Nat /\ Len(p) \in Nat
  BY <1>1
<1>4. /\ n \o e \in Seq(S) /\ Len(n \o e) = Len(n) + Len(e)
      /\ \A i \in 1 .. Len(n) + Len(e) : (n \o e)[i] = IF i =< Len(n) THEN n[i] ELSE e[i - Len(n)]
  BY <1>1, ConcatProperties
<1>5. /\ b \in Seq(S) /\ Len(b) = Len(n) + Len(e) + Len(p)
      /\ \A i \in 1 .. Len(n) + Len(e) + Len(p) :
           b[i] = IF i =< Len(n) + Len(e) THEN (n \o e)[i] ELSE p[i - (Len(n) + Len(e))]
  <2> DEFINE ne == n \o e
  <2> HIDE DEF ne
  <2>1. /\ ne \o p \in Seq(S) /\ Len(ne \o p) = Len(ne) + Len(p)
        /\ \A i \in 1 .. Len(ne) + Len(p) : (ne \o p)[i] = IF i =< Len(ne) THEN ne[i] ELSE p[i - Len(ne)]
    BY <1>1, <1>4, ConcatProperties DEF ne
  <2> QED BY <2>1, <1>4 DEF ne
<1> HIDE DEF b
<1>6. SubSeq(b, 1, Len(n)) = n
  <2>1. \A i \in 1 .. Len(n) : b[0 + i] = n[i]
    BY <1>3, <1>4, <1>5
  <2>2. SubSeq(b, 0 + 1, 0 + Len(n)) = n
    BY <1>1, <1>3, <1>5, <2>1, PartOf
  <2> QED BY <2>2, <1>3
<1>7. SubSeq(b, Len(n) + 1, Len(n) + Len(e)) = e
  <2>1. \A i \in 1 .. Len(e) : b[Len(n) + i] = e[i]
    BY <1>3, <1>4, <1>5
  <2> QED BY <1>1, <1>3, <1>5, <2>1, PartOf
<1>8. SubSeq(b, Len(n) + Len(e) + 1, Len(n) + Len(e) + Len(p)) = p
  <2>1. \A i \in 1 .. Len(p) : b[Len(n) + Len(e) + i] = p[i]
    BY <1>3, <1>5
  <2>2. Len(n) + Len(e) \in Nat
    BY <1>3
  <2> QED BY <1>1, <1>3, <1>5, <2>1, <2>2, PartOf
<1> DEFINE f == Encode(m)
<1>9. /\ f.type = m.type /\ f.id = m.id /\ f.connID = m.connID /\ f.seq = m.seq
      /\ f.nameLen = Len(n) /\ f.errLen = Len(e) /\ f.payloadLen = Len(p) /\ f.body = b
  BY DEF Encode, n, e, p, b
<1> HIDE DEF f
<1>10. Decode(f) = m
  BY <1>2, <1>6, <1>7, <1>8, <1>9, Zenon DEF Decode
<1>11. WithinLimits(Len(n), Len(e), Len(p))
  BY DEF Encodable, n, e, p
<1>12. Decodable(f)
  BY <1>5, <1>9, <1>11 DEF Decodable
<1> QED BY <1>10, <1>12 DEF f

\* Cutting a sequence at two places and putting the three parts together
\* again gives the sequence.
LEMMA PartsOf ==
  ASSUME NEW S, NEW s \in Seq(S), NEW a \in Nat, NEW c \in Nat, NEW d \in Nat, a + c + d = Len(s)
  PROVE  /\ SubSeq(s, 1, a) \in Seq(S) /\ Len(SubSeq(s, 1, a)) = a
         /\ SubSeq(s, a + 1, a + c) \in Seq(S) /\ Len(SubSeq(s, a + 1, a + c)) = c
         /\ SubSeq(s, a + c + 1, a + c + d) \in Seq(S)
         /\ Len(SubSeq(s, a + c + 1, a + c + d)) = d
         /\ SubSeq(s, 1, a) \o SubSeq(s, a + 1, a + c) \o SubSeq(s, a + c + 1, a + c + d) = s
<1> DEFINE x == SubSeq(s, 1, a)
<1> DEFINE y == SubSeq(s, a + 1, a + c)
<1> DEFINE z == SubSeq(s, a + c + 1, a + c + d)
<1>1. \A i \in 1 .. a + c + d : s[i] \in S
  OBVIOUS
<1>2. x \in Seq(S) /\ Len(x) = a /\ \A i \in 1 .. a : x[i] = s[i]
  BY <1>1
<1>3. y \in Seq(S) /\ Len(y) = c /\ \A i \in 1 .. c : y[i] = s[a + i]
  BY <1>1
<1>4. z \in Seq(S) /\ Len(z) = d /\ \A i \in 1 .. d : z[i] = s[a + c + i]
  BY <1>1
<1> HIDE DEF x, y, z
<1> DEFINE xy == x \o y
<1>5. /\ xy \in Seq(S) /\ Len(xy) = a + c
      /\ \A i \in 1 .. a + c : xy[i] = IF i =< a THEN x[i] ELSE y[i - a]
  <2>1. /\ xy \in Seq(S) /\ Len(xy) = Len(x) + Len(y)
        /\ \A i \in 1 .. Len(x) + Len(y) : xy[i] = IF i =< Len(x) THEN x[i] ELSE y[i - Len(x)]
    <3>1. x \in Seq(S) /\ y \in Seq(S)
      BY <1>2, <1>3
    <3> QED BY <3>1, ConcatProperties
  <2> HIDE DEF xy
  <2> QED BY <2>1, <1>2, <1>3
<1> HIDE DEF xy
<1>6. /\ xy \o z \in Seq(S) /\ Len(xy \o z) = a + c + d
      /\ \A i \in 1 .. a + c + d : (xy \o z)[i] = IF i =< a + c THEN xy[i] ELSE z[i - (a + c)]
  <2> DEFINE v == xy \o z
  <2>1. /\ v \in Seq(S) /\ Len(v) = Len(xy) + Len(z)
        /\ \A i \in 1 .. Len(xy) + Len(z) : v[i] = IF i =< Len(xy) THEN xy[i] ELSE z[i - Len(xy)]
    BY <1>4, <1>5, ConcatProperties
  <2> HIDE DEF v
  <2>2. /\ v \in Seq(S) /\ Len(v) = a + c + d
        /\ \A i \in 1 .. a + c + d : v[i] = IF i =< a + c THEN xy[i] ELSE z[i - (a + c)]
    BY <2>1, <1>4, <1>5
  <2> QED BY <2>2 DEF v
<1> DEFINE w == xy \o z
<1>7. ASSUME NEW i \in 1 .. a + c + d PROVE w[i] = s[i]
  <2>1. w[i] = IF i =< a + c THEN xy[i] ELSE z[i - (a + c)]
    BY <1>6
  <2> HIDE DEF w
  <2>2. CASE i =< a
    <3>1. i \in 1 .. a /\ i \in 1 .. a + c /\ i =< a + c
      BY <2>2
    <3> QED BY <2>1, <2>2, <3>1, <1>2, <1>5
  <2>3. CASE a < i /\ i =< a + c
    <3>1. i - a \in 1 .. c /\ i \in 1 .. a + c /\ a + (i - a) = i /\ ~(i =< a)
      BY <2>3
    <3> QED BY <2>1, <2>3, <3>1, <1>3, <1>5
  <2>4. CASE a + c < i
    <3>1. i - (a + c) \in 1 .. d /\ a + c + (i - (a + c)) = i /\ ~(i =< a + c)
      BY <2>4
    <3> QED BY <2>1, <3>1, <1>4
  <2> QED BY <2>2, <2>3, <2>4
<1>8. w = s
  <2>1. w \in Seq(S) /\ Len(w) = a + c + d
    BY <1>6
  <2> HIDE DEF w
  <2> QED BY <2>1, <1>7, SeqEqual
<1> QED BY <1>2, <1>3, <1>4, <1>8 DEF x, y, z, xy, w

WireFrames(T, S) ==
  [type : T, id : Nat, connID : Nat, seq : Nat,
   nameLen : Nat, errLen : Nat, payloadLen : Nat, body : Seq(S)]

\* A frame that Decode accepts is the encoding of the message it returns, so
\* that no two frames decode to one message; and Encode takes that message
\* whenever its type, which Decode does not look at, is one of the protocol's.
THEOREM EncodeUndoesDecode ==
  ASSUME NEW T, NEW S, NEW f \in WireFrames(T, S), Decodable(f)
  PROVE  /\ Decode(f) \in Messages(T, S) /\ Encode(Decode(f)) = f
         /\ f.type \in Types => Encodable(Decode(f))
<1> DEFINE a == f.nameLen
<1> DEFINE c == f.errLen
<1> DEFINE d == f.payloadLen
<1> DEFINE s == f.body
<1>1. /\ a \in Nat /\ c \in Nat /\ d \in Nat /\ s \in Seq(S) /\ f.type \in T
      /\ f.id \in Nat /\ f.connID \in Nat /\ f.seq \in Nat
      /\ f = [type |-> f.type, id |-> f.id, connID |-> f.connID, seq |-> f.seq,
              nameLen |-> a, errLen |-> c, payloadLen |-> d, body |-> s]
  BY DEF WireFrames
<1>2. a + c + d = Len(s) /\ WithinLimits(a, c, d)
  BY DEF Decodable
<1> DEFINE x == SubSeq(s, 1, a)
<1> DEFINE y == SubSeq(s, a + 1, a + c)
<1> DEFINE z == SubSeq(s, a + c + 1, a + c + d)
<1> DEFINE m == Decode(f)
<1>3. m = [type |-> f.type, id |-> f.id, connID |-> f.connID, seq |-> f.seq,
           name |-> x, error |-> y, payload |-> z]
  BY DEF Decode
<1> HIDE DEF a, c, d, s, m
<1>4. /\ x \in Seq(S) /\ y \in Seq(S) /\ z \in Seq(S)
      /\ Len(x) = a /\ Len(y) = c /\ Len(z) = d /\ x \o y \o z = s
  <2>1. a \in Nat /\ c \in Nat /\ d \in Nat /\ s \in Seq(S) /\ a + c + d = Len(s)
    BY <1>1, <1>2
  <2>2. /\ SubSeq(s, 1, a) \in Seq(S) /\ Len(SubSeq(s, 1, a)) = a
        /\ SubSeq(s, a + 1, a + c) \in Seq(S) /\ Len(SubSeq(s, a + 1, a + c)) = c
        /\ SubSeq(s, a + c + 1, a + c + d) \in Seq(S)
        /\ Len(SubSeq(s, a + c + 1, a + c + d)) = d
        /\ SubSeq(s, 1, a) \o SubSeq(s, a + 1, a + c) \o SubSeq(s, a + c + 1, a + c + d) = s
    BY <2>1, PartsOf
  <2> QED BY <2>2, Zenon DEF x, y, z
<1> HIDE DEF x, y, z
<1>5. m \in Messages(T, S)
  BY <1>1, <1>3, <1>4 DEF Messages
<1>6. /\ m.type = f.type /\ m.id = f.id /\ m.connID = f.connID /\ m.seq = f.seq
      /\ m.name = x /\ m.error = y /\ m.payload = z
  BY <1>3
<1>7. Encode(m) = f
  BY <1>1, <1>4, <1>6, Zenon DEF Encode
<1>8. f.type \in Types => Encodable(m)
  BY <1>2, <1>4, <1>6 DEF Encodable
<1> QED BY <1>5, <1>7, <1>8 DEF m

-----------------------------------------------------------------------------
(* The path.                                                               *)

Outgoing == {m \in Messages(Types, Packets) : Encodable(m)}
Frames == {Encode(m) : m \in Outgoing}

PathType ==
  /\ msgID \in 0 .. IdSpace - 1 /\ sentCount \in 0 .. MaxMessages /\ read \subseteq Packets
  /\ left \in [Senders -> Seq(Kinds)] /\ DOMAIN hand = Senders
  /\ \A g \in Senders : left[g] # <<>> => hand[g] \in Frames
  /\ current \in [Kinds -> Sessions \cup {NoSession}] /\ made \in [Kinds -> 0 .. MaxSessions]
  /\ queue \in [Sessions -> Seq(Frames)]

\* The frames on their way, and the messages on their way or handled by b.
InHand == {hand[g] : g \in {x \in Senders : left[x] # <<>>}}
Held(q) == UNION {{q[s][i] : i \in 1 .. Len(q[s])} : s \in Sessions}
Alive == taken \cup {Decode(f) : f \in InHand \cup Held(queue)}

\* How many messages were numbered after the one with this identifier.
Age(id) == IF id =< msgID THEN msgID - id ELSE msgID + IdSpace - id

\* A message is one that "a" sent, and its packet one that a's filter let in.
Authentic(m) ==
  /\ m.id \in 0 .. IdSpace - 1 /\ Age(m.id) < sentCount
  /\ m.type = "IPPacket" =>
       m.payload[1] \in read /\ PacketAllowed(m.payload[1], Allow["a"])

\* An identifier belongs to one message.
AliveInv ==
  /\ \A m \in Alive : Authentic(m)
  /\ \A m1, m2 \in Alive : m1.id = m2.id => m1 = m2

SeenInv == \A id \in seen : \E m \in taken : m.id = id

WrittenInv ==
  \A p \in written : p \in read /\ PacketAllowed(p, Allow["a"]) /\ PacketAllowed(p, Allow["b"])

\* OnlyCopiesDropped alone is not inductive: that an identifier b remembers is
\* that of the very message now arriving needs AliveInv and SeenInv.
PathInv == PathType /\ WindowInv /\ AliveInv /\ SeenInv /\ OnlyCopiesDropped /\ WrittenInv

\* What is on its way stays when hands and queues do.
LEMMA HeldStays ==
  ASSUME UNCHANGED queue
  PROVE  Held(queue)' = Held(queue)
<1>1. queue' = queue
  OBVIOUS
<1> QED BY <1>1, Zenon

LEMMA InHandStays ==
  ASSUME UNCHANGED <<hand, left>>
  PROVE  InHand' = InHand
<1>1. hand' = hand /\ left' = left
  OBVIOUS
<1> QED BY <1>1, Zenon DEF InHand

\* Every frame on the path is one that Decode takes.
LEMMA FrameDecodes ==
  ASSUME NEW f \in Frames
  PROVE  Decodable(f) /\ Decode(f) \in Outgoing
<1>1. PICK m \in Outgoing : f = Encode(m)
  BY DEF Frames
<1>2. m \in Messages(Types, Packets) /\ Encodable(m)
  BY DEF Outgoing
<1>3. Decodable(Encode(m)) /\ Decode(Encode(m)) = m
  BY <1>2, DecodeUndoesEncode
<1> QED BY <1>1, <1>3

\* The next identifier, without the remainder.
LEMMA NextIdentifier ==
  ASSUME msgID \in 0 .. IdSpace - 1, NextID
  PROVE  msgID' \in 0 .. IdSpace - 1 /\ msgID' = IF msgID = IdSpace - 1 THEN 0 ELSE msgID + 1
<1>1. IdSpace \in Nat /\ msgID \in Nat /\ msgID < IdSpace
  BY PathAssumption
<1>2. CASE msgID = IdSpace - 1
  <2>1. msgID + 1 = IdSpace
    BY <1>1, <1>2
  <2>2. IdSpace % IdSpace = 0
    BY <1>1
  <2> QED BY <1>1, <1>2, <2>1, <2>2 DEF NextID
<1>3. CASE msgID # IdSpace - 1
  <2>1. msgID + 1 \in 0 .. IdSpace - 1
    BY <1>1, <1>3
  <2>2. \A n \in 0 .. IdSpace - 1 : n % IdSpace = n
    BY <1>1
  <2> QED BY <1>1, <1>3, <2>1, <2>2 DEF NextID
<1> QED BY <1>2, <1>3

\* A new message makes the others older, and none of them has its identifier:
\* fewer messages are sent than there are identifiers.
LEMMA Older ==
  ASSUME PathType, NextID, sentCount < MaxMessages, NEW id \in 0 .. IdSpace - 1, Age(id) < sentCount
  PROVE  id # msgID' /\ Age(id)' = Age(id) + 1
<1>1. msgID \in 0 .. IdSpace - 1 /\ sentCount \in Nat
  BY DEF PathType
<1>2. msgID' \in 0 .. IdSpace - 1 /\ msgID' = IF msgID = IdSpace - 1 THEN 0 ELSE msgID + 1
  BY <1>1, NextIdentifier
<1>3. IdSpace \in Nat /\ MaxMessages \in Nat /\ MaxMessages =< IdSpace - 1
  BY PathAssumption
<1>4. Age(id) \in Nat /\ Age(id) < IdSpace - 1
  BY <1>1, <1>3 DEF Age
<1> QED BY <1>1, <1>2, <1>3, <1>4 DEF Age

\* Put adds at most the frame.
LEMMA PutHolds ==
  ASSUME PathType, NEW s \in Sessions, NEW f \in Frames
  PROVE  Put(s, f) \in [Sessions -> Seq(Frames)] /\ Held(Put(s, f)) \subseteq Held(queue) \cup {f}
<1>1. queue \in [Sessions -> Seq(Frames)]
  BY DEF PathType
<1>2. CASE s \in ended
  BY <1>1, <1>2 DEF Put
<1>3. CASE s \notin ended
  <2>1. Put(s, f) = [queue EXCEPT ![s] = Append(queue[s], f)]
    BY <1>3 DEF Put
  <2>2. Append(queue[s], f) \in Seq(Frames) /\ queue[s] \in Seq(Frames)
    BY <1>1
  <2>3. Put(s, f) \in [Sessions -> Seq(Frames)]
    BY <1>1, <2>1, <2>2
  <2>4. ASSUME NEW t \in Sessions, NEW i \in 1 .. Len(Put(s, f)[t])
        PROVE  Put(s, f)[t][i] \in Held(queue) \cup {f}
    <3>1. CASE t = s
      <4>1. Put(s, f)[t] = Append(queue[s], f)
        BY <3>1, <1>1, <2>1
      <4>2. i = Len(queue[s]) + 1 \/ i \in 1 .. Len(queue[s])
        BY <4>1, <2>2
      <4>3. i = Len(queue[s]) + 1 => Put(s, f)[t][i] = f
        BY <4>1, <2>2
      <4>4. i \in 1 .. Len(queue[s]) => Put(s, f)[t][i] = queue[s][i]
        BY <4>1, <2>2
      <4> QED BY <4>2, <4>3, <4>4 DEF Held
    <3>2. CASE t # s
      <4>1. Put(s, f)[t] = queue[t]
        BY <3>2, <1>1, <2>1
      <4> QED BY <4>1 DEF Held
    <3> QED BY <3>1, <3>2
  <2>5. Held(Put(s, f)) \subseteq Held(queue) \cup {f}
    BY <2>4 DEF Held
  <2> QED BY <2>3, <2>5
<1> QED BY <1>2, <1>3

\* The variables that a step of Send and of the sessions leaves alone.
Quiet == UNCHANGED <<msgID, sentCount, read, windowVars, taken, rejected, written>>

\* A step that brings no message up keeps what holds of the messages.
LEMMA QuietStep ==
  ASSUME PathInv, Quiet, PathType', (InHand \cup Held(queue))' \subseteq InHand \cup Held(queue)
  PROVE  PathInv'
<1>1. msgID' = msgID /\ sentCount' = sentCount /\ read' = read /\ taken' = taken
  BY DEF Quiet
<1>2. Alive' \subseteq Alive
  BY <1>1 DEF Alive
<1>3. \A m : Authentic(m) => Authentic(m)'
  BY <1>1 DEF Authentic, Age
<1>4. AliveInv'
  <2>1. ASSUME NEW m \in Alive' PROVE Authentic(m)'
    BY <1>2, <1>3 DEF PathInv, AliveInv
  <2>2. ASSUME NEW m1 \in Alive', NEW m2 \in Alive', m1.id = m2.id PROVE m1 = m2
    BY <1>2, <2>2 DEF PathInv, AliveInv
  <2> QED BY <2>1, <2>2 DEF AliveInv
<1>5. WindowInv'
  BY DEF Quiet, PathInv, windowVars, WindowInv, WindowType, RingHolds, Nonzero,
     RemembersRecent, WindowRespected, Position
<1>6. SeenInv' /\ OnlyCopiesDropped' /\ WrittenInv'
  BY DEF PathInv, Quiet, windowVars, SeenInv, OnlyCopiesDropped, WrittenInv
<1> QED BY <1>4, <1>5, <1>6 DEF PathInv

HandType ==
  /\ left \in [Senders -> Seq(Kinds)] /\ DOMAIN hand = Senders
  /\ \A g \in Senders : left[g] # <<>> => hand[g] \in Frames

\* Manager.Send keeps the frame for the next carrier or drops it.
LEMMA HandStep ==
  ASSUME HandType, NEW g \in Senders, left[g] # <<>>, Done(g) \/ NextCarrier(g)
  PROVE  HandType' /\ InHand' \subseteq InHand
<1>1. ASSUME Done(g)
      PROVE  /\ left' \in [Senders -> Seq(Kinds)] /\ DOMAIN hand' = Senders
             /\ \A x \in Senders : left'[x] # <<>> => left[x] # <<>> /\ hand'[x] = hand[x]
  BY <1>1 DEF Done, HandType
<1>2. ASSUME left' = [left EXCEPT ![g] = Tail(@)], UNCHANGED hand
      PROVE  /\ left' \in [Senders -> Seq(Kinds)] /\ DOMAIN hand' = Senders
             /\ \A x \in Senders : left'[x] # <<>> => left[x] # <<>> /\ hand'[x] = hand[x]
  <2>1. Tail(left[g]) \in Seq(Kinds)
    BY DEF HandType
  <2> QED BY <1>2, <2>1 DEF HandType
<1>3. /\ left' \in [Senders -> Seq(Kinds)] /\ DOMAIN hand' = Senders
      /\ \A x \in Senders : left'[x] # <<>> => left[x] # <<>> /\ hand'[x] = hand[x]
  BY <1>1, <1>2 DEF NextCarrier
<1> QED BY <1>3 DEF HandType, InHand

\* The steps of Send and of the sessions.
LEMMA LinkStep ==
  ASSUME PathInv,
         \/ \E g \in Senders : TryOK(g) \/ TryFails(g) \/ TrySkips(g)
         \/ \E k \in Kinds : SessionLeaves(k) \/ Connect(k)
         \/ \E s \in Sessions : SessionEnds(s)
  PROVE  PathInv'
<1>1. PathType /\ HandType
  BY DEF PathInv, PathType, HandType
<1>2. SUFFICES Quiet /\ PathType' /\ (InHand \cup Held(queue))' \subseteq InHand \cup Held(queue)
  BY QuietStep
<1>3. ASSUME NEW g \in Senders, TryOK(g) \/ TryFails(g), NEW k \in Kinds, k = Head(left[g])
      PROVE  /\ Quiet /\ PathType' /\ (InHand \cup Held(queue))' \subseteq InHand \cup Held(queue)
  <2>1. left[g] # <<>> /\ current[k] # NoSession
    BY <1>3 DEF TryOK, TryFails
  <2>2. current[k] \in Sessions /\ hand[g] \in Frames /\ hand[g] \in InHand
    BY <1>1, <2>1 DEF PathType, InHand
  <2>3. HandType' /\ InHand' \subseteq InHand
    BY <1>1, <1>3, <2>1, HandStep DEF TryOK, TryFails
  <2>4. queue' = queue \/ queue' = Put(current[k], hand[g])
    BY <1>3 DEF TryOK, TryFails
  <2>5. queue' \in [Sessions -> Seq(Frames)] /\ Held(queue') \subseteq Held(queue) \cup InHand
    <3>1. CASE queue' = queue
      BY <1>1, <3>1 DEF PathType
    <3> DEFINE q == Put(current[k], hand[g])
    <3>2. q \in [Sessions -> Seq(Frames)] /\ Held(q) \subseteq Held(queue) \cup {hand[g]}
      BY <1>1, <2>2, PutHolds
    <3> HIDE DEF q
    <3>3. CASE queue' = q
      BY <2>2, <3>2, <3>3
    <3> QED BY <2>4, <3>1, <3>3 DEF q
  <2>6. /\ Quiet /\ made' = made
        /\ current' \in [Kinds -> Sessions \cup {NoSession}]
    BY <1>1, <1>3 DEF TryOK, TryFails, Quiet, bVars, PathType
  <2>7. PathType'
    BY <1>1, <2>3, <2>5, <2>6 DEF PathType, HandType, Quiet
  <2> QED BY <2>3, <2>5, <2>6, <2>7
<1>4. ASSUME NEW g \in Senders, TryOK(g) \/ TryFails(g)
      PROVE  /\ Quiet /\ PathType' /\ (InHand \cup Held(queue))' \subseteq InHand \cup Held(queue)
  <2>1. left[g] # <<>> /\ left[g] \in Seq(Kinds)
    BY <1>1, <1>4 DEF TryOK, TryFails, HandType
  <2>2. Head(left[g]) \in Kinds
    BY <2>1
  <2> QED BY <1>3, <1>4, <2>2
<1>5. ASSUME NEW g \in Senders, TrySkips(g)
      PROVE  /\ Quiet /\ PathType' /\ (InHand \cup Held(queue))' \subseteq InHand \cup Held(queue)
  <2>1. HandType' /\ InHand' \subseteq InHand
    BY <1>1, <1>5, HandStep DEF TrySkips
  <2>2. Quiet /\ UNCHANGED <<current, made, queue>>
    BY <1>5 DEF TrySkips, Quiet, linkVars, bVars
  <2>3. PathType'
    BY <1>1, <2>1, <2>2 DEF PathType, HandType, Quiet
  <2>4. Held(queue)' = Held(queue)
    BY <2>2, HeldStays
  <2> QED BY <2>1, <2>2, <2>3, <2>4
<1>6. ASSUME NEW k \in Kinds, SessionLeaves(k)
      PROVE  /\ Quiet /\ PathType' /\ (InHand \cup Held(queue))' \subseteq InHand \cup Held(queue)
  <2>1. Quiet /\ UNCHANGED <<hand, left, made, queue>>
    BY <1>6 DEF SessionLeaves, Quiet, sendVars, bVars
  <2>2. current' \in [Kinds -> Sessions \cup {NoSession}]
    BY <1>1, <1>6 DEF SessionLeaves, PathType
  <2>3. PathType'
    BY <1>1, <2>1, <2>2 DEF PathType, Quiet
  <2>4. InHand' = InHand /\ Held(queue)' = Held(queue)
    BY <2>1, InHandStays, HeldStays
  <2> QED BY <2>1, <2>3, <2>4
<1>7. ASSUME NEW k \in Kinds, Connect(k)
      PROVE  /\ Quiet /\ PathType' /\ (InHand \cup Held(queue))' \subseteq InHand \cup Held(queue)
  <2>1. Quiet /\ UNCHANGED <<hand, left, queue>>
    BY <1>7 DEF Connect, Quiet, sendVars, bVars
  <2>2. made[k] \in 0 .. MaxSessions /\ made[k] < MaxSessions /\ MaxSessions \in Nat
    BY <1>1, <1>7, PathAssumption DEF Connect, PathType
  <2>3. made[k] + 1 \in 0 .. MaxSessions /\ made[k] + 1 \in 1 .. MaxSessions
    BY <2>2
  <2>4. made' \in [Kinds -> 0 .. MaxSessions] /\ made'[k] = made[k] + 1
    BY <1>1, <1>7, <2>3 DEF Connect, PathType
  <2>5. <<k, made'[k]>> \in Sessions
    BY <2>3, <2>4 DEF Sessions
  <2>6. current' \in [Kinds -> Sessions \cup {NoSession}]
    BY <1>1, <1>7, <2>5 DEF Connect, PathType
  <2>7. PathType'
    BY <1>1, <2>1, <2>4, <2>6 DEF PathType, Quiet
  <2>8. UNCHANGED <<hand, left, queue>>
    BY <2>1
  <2>9. InHand' = InHand /\ Held(queue)' = Held(queue)
    BY <2>8, InHandStays, HeldStays
  <2> QED BY <2>1, <2>7, <2>9
<1>8. ASSUME NEW s \in Sessions, SessionEnds(s)
      PROVE  /\ Quiet /\ PathType' /\ (InHand \cup Held(queue))' \subseteq InHand \cup Held(queue)
  <2>1. Quiet /\ UNCHANGED <<hand, left, current, made>> /\ queue' = [queue EXCEPT ![s] = <<>>]
    BY <1>8 DEF SessionEnds, Quiet, sendVars, bVars
  <2>2. queue' \in [Sessions -> Seq(Frames)]
    BY <1>1, <2>1 DEF PathType
  <2>3. \A t \in Sessions : queue'[t] = queue[t] \/ queue'[t] = <<>>
    BY <1>1, <2>1 DEF PathType
  <2>4. \A t \in Sessions : \A i \in 1 .. Len(queue'[t]) : queue'[t] = queue[t]
    BY <2>3
  <2>5. Held(queue') \subseteq Held(queue)
    BY <2>4 DEF Held
  <2>6. PathType'
    BY <1>1, <2>1, <2>2 DEF PathType, Quiet
  <2> QED BY <2>1, <2>5, <2>6, InHandStays
<1> QED BY <1>4, <1>5, <1>6, <1>7, <1>8

\* A new message has an identifier of its own, and a packet in it was let in.
LEMMA SendStep ==
  ASSUME PathInv, NEW g \in Senders, NEW type \in Types, NEW payload \in Seq(Packets),
         SendBegins(g, type, payload), read \subseteq read', read' \subseteq Packets,
         type = "IPPacket" => payload[1] \in read' /\ PacketAllowed(payload[1], Allow["a"]),
         UNCHANGED <<linkVars, windowVars, bVars>>
  PROVE  PathInv'
<1>1. PathType /\ WindowInv /\ AliveInv /\ SeenInv /\ OnlyCopiesDropped /\ WrittenInv
  BY DEF PathInv
<1>2. PICK n \in 0 .. IdSpace - 1 : n = msgID'
  BY <1>1, NextIdentifier DEF PathType, SendBegins
<1> DEFINE new == [type |-> type, id |-> n, connID |-> 0, seq |-> 0,
                   name |-> <<>>, error |-> <<>>, payload |-> payload]
<1>3. /\ NextID /\ Encodable(new) /\ sentCount < MaxMessages /\ sentCount' = sentCount + 1
      /\ hand' = [hand EXCEPT ![g] = Encode(new)] /\ left' = [left EXCEPT ![g] = Order]
  <2>1. NewMessage(type, payload) = new
    BY <1>2 DEF NewMessage
  <2> HIDE DEF new
  <2> QED BY <2>1 DEF SendBegins
<1>4. new \in Messages(Types, Packets)
  <2>1. <<>> \in Seq(Packets) /\ 0 \in Nat /\ n \in Nat
    OBVIOUS
  <2> QED BY <2>1 DEF Messages
<1>5. new.id = n /\ new.type = type /\ new.payload = payload
  OBVIOUS
<1> HIDE DEF new
<1>6. Encode(new) \in Frames /\ Decode(Encode(new)) = new
  BY <1>3, <1>4, DecodeUndoesEncode DEF Frames, Outgoing
<1>7. PathType'
  <2>1. Order \in Seq(Kinds)
    BY PathAssumption DEF Order, Other, Kinds
  <2>2. left' \in [Senders -> Seq(Kinds)] /\ DOMAIN hand' = Senders
    BY <1>1, <1>3, <2>1 DEF PathType
  <2>3. \A x \in Senders : left'[x] # <<>> => hand'[x] \in Frames
    BY <1>1, <1>3, <1>6 DEF PathType
  <2>4. sentCount' \in 0 .. MaxMessages
    BY <1>1, <1>3, PathAssumption DEF PathType
  <2> QED BY <1>1, <1>2, <2>2, <2>3, <2>4 DEF PathType, linkVars
<1>8. Alive' \subseteq Alive \cup {new}
  <2>1. InHand' \subseteq InHand \cup {Encode(new)}
    <3>1. SUFFICES ASSUME NEW x \in Senders, left'[x] # <<>>
                   PROVE  hand'[x] \in InHand \cup {Encode(new)}
      BY DEF InHand
    <3>2. CASE x = g
      BY <1>1, <1>3, <3>2 DEF PathType
    <3>3. CASE x # g
      <4>1. left[x] # <<>> /\ hand'[x] = hand[x]
        BY <1>1, <1>3, <3>1, <3>3 DEF PathType
      <4> QED BY <4>1 DEF InHand
    <3> QED BY <3>2, <3>3
  <2>2. Held(queue)' = Held(queue) /\ taken' = taken
    BY HeldStays DEF linkVars, bVars
  <2> QED BY <2>1, <2>2, <1>6 DEF Alive
<1>9. ASSUME NEW m \in Alive
      PROVE  Authentic(m)' /\ m.id # n
  <2>1. Authentic(m)
    BY <1>1 DEF AliveInv
  <2>2. m.id \in 0 .. IdSpace - 1 /\ Age(m.id) < sentCount
    BY <2>1 DEF Authentic
  <2>3. m.id # msgID' /\ Age(m.id)' = Age(m.id) + 1
    BY <1>1, <1>3, <2>2, Older
  <2>4. Age(m.id) \in Int /\ sentCount \in Int
    BY <1>1, <2>2, PathAssumption DEF Age, PathType
  <2>5. Age(m.id)' < sentCount'
    BY <1>3, <2>2, <2>3, <2>4
  <2> QED BY <1>2, <2>1, <2>2, <2>3, <2>5 DEF Authentic
<1>10. Authentic(new)'
  <2>1. Age(n)' = 0
    <3>1. n =< n /\ n - n = 0
      OBVIOUS
    <3> QED BY <3>1, <1>2, Zenon DEF Age
  <2>2. 0 < sentCount'
    BY <1>1, <1>3, PathAssumption DEF PathType
  <2> QED BY <1>5, <2>1, <2>2 DEF Authentic
<1>11. AliveInv'
  <2>1. \A m \in Alive' : Authentic(m)'
    BY <1>8, <1>9, <1>10
  <2>2. ASSUME NEW m1 \in Alive', NEW m2 \in Alive', m1.id = m2.id PROVE m1 = m2
    BY <1>1, <1>5, <1>8, <1>9, <2>2 DEF AliveInv
  <2> QED BY <2>1, <2>2 DEF AliveInv
<1>12. WindowInv'
  BY <1>1 DEF windowVars, WindowInv, WindowType, RingHolds, Nonzero,
     RemembersRecent, WindowRespected, Position
<1>13. SeenInv' /\ OnlyCopiesDropped'
  BY <1>1 DEF windowVars, bVars, SeenInv, OnlyCopiesDropped
<1>14. WrittenInv'
  BY <1>1 DEF bVars, WrittenInv
<1> QED BY <1>7, <1>11, <1>12, <1>13, <1>14 DEF PathInv

\* tunReadLoop and the heartbeat.
LEMMA BeginStep ==
  ASSUME PathInv, (\E p \in Packets : TunRead(p)) \/ Heartbeat
  PROVE  PathInv'
<1>1. read \subseteq Packets
  BY DEF PathInv, PathType
<1>2. ASSUME NEW p \in Packets, TunRead(p)
      PROVE  PathInv'
  <2>1. "tun" \in Senders /\ "IPPacket" \in Types /\ <<p>> \in Seq(Packets) /\ <<p>>[1] = p
    BY DEF Senders, Types
  <2>2. /\ SendBegins("tun", "IPPacket", <<p>>) /\ read' = read \cup {p}
        /\ PacketAllowed(p, Allow["a"]) /\ UNCHANGED <<linkVars, windowVars, bVars>>
    BY <1>2 DEF TunRead
  <2>3. read \subseteq read' /\ read' \subseteq Packets /\ p \in read'
    BY <1>1, <2>2
  <2> QED BY <2>1, <2>2, <2>3, SendStep
<1>3. ASSUME Heartbeat
      PROVE  PathInv'
  <2>1. "beat" \in Senders /\ "Ping" \in Types /\ <<>> \in Seq(Packets) /\ "Ping" # "IPPacket"
    BY DEF Senders, Types
  <2>2. SendBegins("beat", "Ping", <<>>) /\ read' = read /\ UNCHANGED <<linkVars, windowVars, bVars>>
    BY <1>3 DEF Heartbeat
  <2> QED BY <1>1, <2>1, <2>2, SendStep
<1> QED BY <1>2, <1>3

\* incomingLoop: what it drops has identifier 0 or is a copy, since nothing
\* else has the identifier of a message that was handled; what it writes,
\* both filters let through.
LEMMA IncomingStep ==
  ASSUME PathInv, NEW s \in Sessions, Incoming(s)
  PROVE  PathInv'
<1>1. PathType /\ WindowInv /\ AliveInv /\ SeenInv /\ OnlyCopiesDropped /\ WrittenInv
  BY DEF PathInv
<1>2. queue[s] # <<>> /\ queue \in [Sessions -> Seq(Frames)] /\ queue[s] \in Seq(Frames)
  BY <1>1 DEF Incoming, PathType
<1>3. PICK f \in Frames : f = Head(queue[s])
  BY <1>2
<1>4. PICK m \in Outgoing : m = Decode(f)
  BY FrameDecodes
<1>5. Len(queue[s]) \in Nat /\ Len(queue[s]) > 0 /\ f = queue[s][1]
  BY <1>2, <1>3
<1>6. f \in Held(queue) /\ m \in Alive
  <2>1. 1 \in 1 .. Len(queue[s])
    BY <1>5
  <2>2. f \in Held(queue)
    BY <1>5, <2>1 DEF Held
  <2> QED BY <1>4, <2>2 DEF Alive
<1>7. /\ queue' = [queue EXCEPT ![s] = Tail(queue[s])] /\ isDuplicate(m.id)
      /\ UNCHANGED <<sendVars, current, made, ended, restarts>>
      /\ IF Known(m.id) THEN rejected' = rejected \cup {m} /\ UNCHANGED <<taken, written>>
                        ELSE taken' = taken \cup {m} /\ handleIPPacket(m) /\ UNCHANGED rejected
  BY <1>3, <1>4, FrameDecodes DEF Incoming
<1>8. queue' \in [Sessions -> Seq(Frames)] /\ Held(queue') \subseteq Held(queue)
  <2>1. Tail(queue[s]) \in Seq(Frames)
    BY <1>2
  <2>2. queue' \in [Sessions -> Seq(Frames)]
    BY <1>2, <1>7, <2>1
  <2>3. ASSUME NEW t \in Sessions, NEW i \in 1 .. Len(queue'[t])
        PROVE  queue'[t][i] \in Held(queue)
    <3>1. CASE t = s
      <4>1. queue'[t] = Tail(queue[s])
        BY <1>2, <1>7, <3>1
      <4>2. i + 1 \in 1 .. Len(queue[s]) /\ queue'[t][i] = queue[s][i + 1]
        BY <1>2, <1>5, <4>1
      <4> QED BY <4>2 DEF Held
    <3>2. CASE t # s
      BY <1>2, <1>7, <3>2 DEF Held
    <3> QED BY <3>1, <3>2
  <2>4. Held(queue') \subseteq Held(queue)
    BY <2>3 DEF Held
  <2> QED BY <2>2, <2>4
<1>9. PathType'
  BY <1>1, <1>7, <1>8 DEF PathType, sendVars
<1>10. taken' \subseteq taken \cup {m}
  BY <1>7
<1>11. Alive' \subseteq Alive
  <2>1. InHand' = InHand
    BY <1>7, InHandStays DEF sendVars
  <2> QED BY <1>6, <1>8, <1>10, <2>1 DEF Alive
<1>12. AliveInv'
  <2>1. \A x : Authentic(x) => Authentic(x)'
    BY <1>7 DEF sendVars, Authentic, Age
  <2> QED BY <1>1, <1>11, <2>1 DEF AliveInv
<1>13. m.id \in Nat
  <2>1. m.id \in 0 .. IdSpace - 1
    BY <1>1, <1>6 DEF AliveInv, Authentic
  <2> QED BY <2>1, PathAssumption
<1>14. WindowInv'
  <2>1. CASE Known(m.id)
    <3>1. UNCHANGED windowVars
      BY <1>7, <2>1 DEF isDuplicate
    <3> QED BY <1>1, <3>1 DEF windowVars, WindowInv, WindowType, RingHolds, Nonzero,
               RemembersRecent, WindowRespected, Position
  <2>2. CASE ~Known(m.id)
    <3>1. Remember(m.id)
      BY <1>7, <2>2 DEF isDuplicate
    <3> QED BY <1>1, <1>13, <2>2, <3>1, RememberInv
  <2> QED BY <2>1, <2>2
<1>15. SeenInv'
  <2>1. CASE Known(m.id)
    BY <1>1, <1>7, <2>1 DEF isDuplicate, windowVars, SeenInv
  <2>2. CASE ~Known(m.id)
    <3>1. seen' \subseteq seen \cup {m.id} /\ taken' = taken \cup {m}
      BY <1>7, <2>2 DEF isDuplicate, Remember
    <3> QED BY <1>1, <3>1 DEF SeenInv
  <2> QED BY <2>1, <2>2
<1>16. OnlyCopiesDropped'
  <2>1. CASE Known(m.id)
    <3>1. m.id = 0 \/ m \in taken
      <4>1. SUFFICES ASSUME m.id \in seen PROVE m \in taken
        BY <2>1 DEF Known
      <4>2. PICK x \in taken : x.id = m.id
        BY <1>1, <4>1 DEF SeenInv
      <4>3. x \in Alive
        BY DEF Alive
      <4>4. x = m
        BY <1>1, <1>6, <4>2, <4>3 DEF AliveInv
      <4> QED BY <4>4
    <3>2. rejected' = rejected \cup {m} /\ taken' = taken
      BY <1>7, <2>1
    <3> QED BY <1>1, <3>1, <3>2 DEF OnlyCopiesDropped
  <2>2. CASE ~Known(m.id)
    <3>1. rejected' = rejected /\ taken \subseteq taken'
      BY <1>7, <2>2
    <3> QED BY <1>1, <3>1 DEF OnlyCopiesDropped
  <2> QED BY <2>1, <2>2
<1>17. WrittenInv'
  <2>1. m.type = "IPPacket" => m.payload[1] \in read /\ PacketAllowed(m.payload[1], Allow["a"])
    BY <1>1, <1>6 DEF AliveInv, Authentic
  <2>2. \/ written' = written
        \/ /\ written' = written \cup {m.payload[1]}
           /\ m.type = "IPPacket" /\ PacketAllowed(m.payload[1], Allow["b"])
    BY <1>7 DEF handleIPPacket
  <2>3. read' = read
    BY <1>7 DEF sendVars
  <2> QED BY <1>1, <2>1, <2>2, <2>3 DEF WrittenInv
<1> QED BY <1>9, <1>12, <1>14, <1>15, <1>16, <1>17 DEF PathInv

\* A restart forgets the window and what it stands for together.
LEMMA RestartStep ==
  ASSUME PathInv, Restart
  PROVE  PathInv'
<1>1. PathType /\ AliveInv /\ WrittenInv
  BY DEF PathInv
<1>2. /\ UNCHANGED <<msgID, hand, left, sentCount, read, current, made, written>>
      /\ queue' = [s \in Sessions |-> <<>>] /\ taken' = {} /\ rejected' = {}
      /\ seen' = {} /\ seenRing' = [j \in Slots |-> 0] /\ seenNext' = 0 /\ handled' = <<>>
  BY DEF Restart, sendVars
<1>3. PathType'
  BY <1>1, <1>2 DEF PathType
<1>4. WindowInv'
  <2>1. (WindowInit => WindowInv)'
    BY WindowInitInv, PTL
  <2> QED BY <1>2, <2>1 DEF WindowInit
<1>5. AliveInv'
  <2>1. Held(queue') = {}
    BY <1>2 DEF Held
  <2>2. Alive' \subseteq Alive
    <3>1. InHand' = InHand
      BY <1>2, InHandStays
    <3> QED BY <1>2, <2>1, <3>1 DEF Alive
  <2>3. \A x : Authentic(x) => Authentic(x)'
    BY <1>2 DEF Authentic, Age
  <2> QED BY <1>1, <2>2, <2>3 DEF AliveInv
<1>6. SeenInv' /\ OnlyCopiesDropped'
  BY <1>2 DEF SeenInv, OnlyCopiesDropped
<1>7. WrittenInv'
  BY <1>1, <1>2 DEF WrittenInv
<1> QED BY <1>3, <1>4, <1>5, <1>6, <1>7 DEF PathInv

\* The path starts in the invariant.
LEMMA PathInitInv == Init => PathInv
<1>1. SUFFICES ASSUME Init PROVE PathInv
  OBVIOUS
<1>2. PathType
  <2>1. msgID \in 0 .. IdSpace - 1 /\ sentCount \in 0 .. MaxMessages
    BY <1>1, PathAssumption DEF Init
  <2>2. made \in [Kinds -> 0 .. MaxSessions]
    BY <1>1, PathAssumption DEF Init
  <2> QED BY <1>1, <2>1, <2>2 DEF Init, PathType
<1>3. Alive = {}
  <2>1. InHand = {} /\ Held(queue) = {}
    BY <1>1 DEF Init, InHand, Held
  <2> QED BY <1>1, <2>1 DEF Init, Alive
<1>4. WindowInv /\ seen = {}
  BY <1>1, WindowInitInv DEF Init, WindowInit
<1>5. OnlyCopiesDropped /\ WrittenInv
  BY <1>1 DEF Init, OnlyCopiesDropped, WrittenInv
<1> QED BY <1>2, <1>3, <1>4, <1>5 DEF PathInv, AliveInv, SeenInv

\* The invariant of the path holds whatever the senders, the carriers and the
\* restarts of b do.
THEOREM PathInvariance == Spec => []PathInv
<1>1. PathInv /\ [Next]_vars => PathInv'
  <2>1. SUFFICES ASSUME PathInv, [Next]_vars PROVE PathInv'
    OBVIOUS
  <2>2. CASE UNCHANGED vars
    <3>1. Quiet /\ UNCHANGED <<hand, left, current, made, queue>>
      BY <2>2 DEF vars, sendVars, linkVars, bVars, Quiet
    <3>2. PathType'
      BY <2>1, <3>1 DEF PathInv, PathType, Quiet
    <3>3. InHand' = InHand /\ Held(queue)' = Held(queue)
      BY <3>1, InHandStays, HeldStays
    <3> QED BY <2>1, <3>1, <3>2, <3>3, QuietStep
  <2>3. CASE (\E p \in Packets : TunRead(p)) \/ Heartbeat
    BY <2>1, <2>3, BeginStep
  <2>4. CASE \/ \E g \in Senders : TryOK(g) \/ TryFails(g) \/ TrySkips(g)
             \/ \E k \in Kinds : SessionLeaves(k) \/ Connect(k)
             \/ \E s \in Sessions : SessionEnds(s)
    BY <2>1, <2>4, LinkStep
  <2>5. CASE \E s \in Sessions : Incoming(s)
    BY <2>1, <2>5, IncomingStep
  <2>6. CASE Restart
    BY <2>1, <2>6, RestartStep
  <2> QED BY <2>1, <2>2, <2>3, <2>4, <2>5, <2>6, Zenon DEF Next
<1> QED BY PathInitInv, <1>1, PTL DEF Spec

\* isDuplicate drops nothing but copies of what it handled, and what has
\* identifier 0, for every number of messages below the number of identifiers,
\* both carriers, any failover between them and any restarts.
THEOREM OnlyCopiesAreDropped == Spec => []OnlyCopiesDropped
<1>1. PathInv => OnlyCopiesDropped
  BY DEF PathInv
<1> QED BY PathInvariance, <1>1, PTL

\* Every packet that b writes was read at a, and is a complete TCP or UDP
\* packet of both nodes' protocols.
THEOREM WrittenIsPermitted == Spec => []WrittenPermitted
<1>1. PathInv => WrittenPermitted
  <2>1. SUFFICES ASSUME PathInv, NEW p \in written
                 PROVE  p \in read /\ Permitted(p, Allow["a"]) /\ Permitted(p, Allow["b"])
    BY DEF WrittenPermitted
  <2>2. p \in read /\ PacketAllowed(p, Allow["a"]) /\ PacketAllowed(p, Allow["b"])
    BY <2>1 DEF PathInv, WrittenInv
  <2>3. p \in IPPackets
    BY <2>1, <2>2, PacketsAssumption DEF PathInv, PathType
  <2> QED BY <2>2, <2>3, FilterIsExact
<1> QED BY PathInvariance, <1>1, PTL

\* On the path, too, no identifier goes through twice within RingSize others,
\* also after a restart.
THEOREM PathRespectsWindow == Spec => []WindowRespected
<1>1. PathInv => WindowRespected
  BY DEF PathInv, WindowInv
<1> QED BY PathInvariance, <1>1, PTL
=============================================================================
