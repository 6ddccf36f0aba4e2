# A TLA+ specification of unknowntunnel

unknowntunnel carries forwarded TCP connections, UDP datagrams and IP packets
between two nodes over an encrypted TCP session, an encrypted UDP session, or
both at once; a control panel keeps its configuration files, secrets and systemd
units. This directory models the parts that hold state, checks them with TLC on
small instances, and proves the central safety properties of eight of them with
TLAPS for every size.

Paths below are relative to `src/`. `PROJECT.json` holds the map from each
definition to its lines, the runs, the mutants, the hazards and the findings.

## The system

| Part | Source | State | Operations that change it |
|---|---|---|---|
| UDP session | `internal/transport/udp.go` | sequence counter, pending table and its slots, retry counts, `packetCh`, reorder map, `recvCh`, closed | `Send`, ACK handling, retransmission tick, `deliverPacket`, `packetLoop`, `acceptOrdered`, `publish`, `finish` |
| UDP server and dial | `udp.go`, `handshake.go` | `sessions`, `sessionRemote`, `byRemote` | hello, welcome, confirmation goroutine, cleanup goroutine, `Close`; the client's `dialUDPSession` |
| TCP session | `tcp.go` | `writeMu`, send and receive counters, `recvCh`, closed | `Send`, `readLoop`, `finish`, handshakes |
| Manager | `manager.go` | the session per carrier, `incoming`, handshake slots, closed | `Send` with failover, `addSession`, forwarders, `removeSession`, client loops, accept loop, `Close` |
| Application | `internal/app/app.go` | TCP flows, UDP flow tables, reassembly map, message counter, window of message identifiers | open, status, data, close, datagram fragments, IP packets, ping and pong, cleanup, `Close` |
| Messages | `internal/protocol` | none | encoding, decoding |
| TUN and packet filter | `internal/tun` | a file descriptor | open, read, write, filter |
| Configuration and administration | `internal/config`, `internal/admin`, `cmd/unknowntunnel` | JSON files, secret files, systemd units | load, validate, save, wizard, delete, service, keygen |
| Cryptography | `crypto.go`, `handshake.go` | none | key derivation, sealing |

How they interact: the application hands a message to `Manager.Send`, which
tries the session of the preferred carrier and then the other one. Each session
delivers in order what the peer's session was given. One forwarder per session
moves it into `incoming`, which a single application goroutine reads, drops what
it has seen before, and dispatches. Two carriers together may reorder and repeat
messages, and a session that ends takes with it what it still held; all of this
has to be repaired, or tolerated, by the flows. The process reads its files once,
when its unit starts; the control panel changes them while it runs.

What is hard to get right: several callers inside one `Send`; ACKs, ticks and
write errors of the same packet crossing; ACKs sent before a packet is accepted;
sessions that are replaced while they are being used, added while the manager
closes, or exposed late by a slow goroutine; hellos that are repeated; read
deadlines on a carrier with nothing to carry; flows whose two ends open, time
out and close independently; a dispatcher that waits in a write; fragments of
old and new flows with equal numbers; identifiers that wrap; files, secrets and
units that are changed one after the other by a command that can be interrupted.

## Modules

| Module | Models | Checked by |
|---|---|---|
| `OrderedChannel` | what a carrier session promises: what comes out is a prefix of what went in | refinement target |
| `UdpSession` | one direction of `udpSession` over a network that loses, repeats and reorders | `udp_session`, `udp_window`, `UdpSessionProofs` |
| `TcpSession` | one direction of `tcpSession` over a byte stream | `tcp_session`, `TcpSessionProofs` |
| `UdpServer` | the UDP server's tables, the dialling client, key confirmation, the manager entry | `udp_server`, `udp_server_leak`, `UdpServerProofs` |
| `Manager` | the session map, failover, forwarders, reconnect loops, accept side, `Close` | `manager`, `ManagerProofs` |
| `Keepalive` | heartbeats and carrier choice against the TCP read deadline, in discrete time | `keepalive`, `TcpSessionProofs` |
| `TcpFlow` | one forwarded TCP connection between two nodes, their dispatchers and `App.Close` | `tcp_flow`, `TcpFlowProofs` |
| `UdpFlow` | the forwarded datagrams of one client, with fragments and flow tables | `udp_flow`, `udp_flow_restart`, `UdpFlowProofs` |
| `DuplicateWindow` | `isDuplicate`: the set and the ring of recent identifiers | `l3_path`, `L3PathProofs` |
| `PacketFilter` | `PacketAllowed` and the walk over IPv6 headers | `l3_path`, `L3PathProofs` |
| `Message` | `Encode` and `Decode` | `l3_path`, `L3PathProofs` |
| `L3Path` | the composition of the last three with numbering, failover, two carriers and a peer that restarts | `l3_path`, `L3PathProofs` |
| `Admin` | the control panel, the files and the units | `admin`, `AdminProofs` |

The `MC...` modules give values to constants that a `.cfg` cannot write, and
`MCL3Path` also states what is checked of the pure operators.

### How the state and the actions correspond to the code

**UdpSession.** `pc[w]` is the place of a caller in `Send`; its actions follow
the statements between which another goroutine can run: take a slot and a number
(`AllocateSeq`), `InsertPending`, `WriteOK` or `WriteFails`, `ReleaseAfterError`,
`FinishAfterError`. `HandleAck` and `ReleaseAfterAck` are the ACK branch of
`handlePacket`. `Resend` and `PeerStopsAcking` are the tick's two outcomes for a
packet. `DeliverPacket` is the socket reader, and `PacketLoop` the receiver's
goroutine: `HandleData` acknowledges first, then `AcceptDrops`, `AcceptBuffers`
or `AcceptNext`, then `Publish` once per message drained from the reorder map.
A payload is abstracted to the caller that sent it, the network to sets of
packets and ACKs from which anything may be taken any number of times or never.

**TcpSession.** A record is two writes, so the stream is a queue of headers,
bodies and torn pieces. `Lock` is `writeMu`; failing writes leave a torn piece
and close the session.

**UdpServer.** The server's single `readLoop` handles a hello in steps (check,
register, welcome). Each session has a confirmation goroutine (`confirm[id]`)
and a cleanup goroutine (`cleaners`). Sessions are known only as open or closed.

**Manager.** `stage[id]` is where `addSession` and the forwarder of a session
are; `closer` is where `Close` is; `loop[k]` is the client loop of a carrier;
`turn` and `held` are the carrier a `Send` is at and the session it looked up.
`removeSession` gives up the lock before it closes the session, so a failed
`Send` is two steps (`TryFails`, `CloseFailed`) with `removing` in between; the
forwarder calls it only for a session that has ended, whose `Close` does nothing.

**Keepalive.** One time unit is five seconds. Only which carrier each frame
takes, and when each reader last read, is kept.

**TcpFlow.** `conn` is the flow's entry in `tcpConns` at each node; `opener`,
`handler` and `pump` are the goroutines of `openLocalTCP`, `handleOpenTCP` and
`pumpTCP`. `loop` is `incomingLoop`, which handles one message at a time and is
inside a write until the local peer reads or the connection is closed; `app` is
how far `App.Close` has come (cancel, sweep of the flow table, `manager.Close`,
waiting for the goroutines). Chunk number i stands for its bytes.

**UdpFlow.** The reassembly map is the set of fragments it holds, and a fragment
remembers the socket it came from, which is what the code does not: this is how
the properties tell whether a joined datagram is one that was sent. `age` is an
assembly's `created`, told by the cleanups since. The ticker and the lifetime are
both thirty seconds, so an assembly may survive the next cleanup and, if that one
worked with a tick from before the assembly's creation, one more (`Survived`).
`waited` is a history of how many cleanups each fragment has seen.

**L3Path.** `TunRead` and `Heartbeat` are the two goroutines that call `send` of
node a: they take a number from `msgID`, encode, and go through the carriers of
`Manager.Send` one at a time (`TryOK`, `TryFails`, `TrySkips`). Node b takes
frames from either session (`Incoming`: decode, `isDuplicate`, `handleIPPacket`).
Sessions end on either side independently, and b may restart with an empty
window. A permitted packet may still not be written: layer 3 is disabled, the
device is not open, or its write fails. A session is an ordered queue here; that
it is one, is what `UdpSession` and `TcpSession` are about. A frame can be on
both carriers, because a UDP session may have resent it before its first write
reported an error.

**PacketFilter, Message.** Pure operators. A packet is reduced to the bytes the
filter looks at (`IPPackets`), a message to its fields with units of text and
payload; a frame has one body in which only the lengths tell the fields apart.
The loop over IPv6 headers is a function, `Walk`: what the loop holds after each
number of rounds, each of them a `Round`.

**Admin.** `op` is the command in progress and the step it is at, so that it can
be interrupted anywhere (`Stops`, `Reboot`). `config`, `broken` and `key` are
the files, `unit`, `run` and `enabled` the units and what each process loaded
when it started. `Answer` is the whole dialogue up to the secret, `KeepSecret`,
`UseFile` and `NewSecret` the choices of `configureSecret`, followed by
validation, `Save` and the start of the unit; `Delete` is four steps. `Save` and
`WriteSecret` replace a file in three steps each: the temporary file is written
(`WriteTemp`), synced (`SyncTemp`) and renamed (`RenameTemp`). A file that was
renamed without having been synced (`unsynced`) is `Torn` when the machine stops
(`Surviving`, part of `Reboot`). A unit that cannot load its files is tried again,
or has reached its start limit.
Addresses are abstracted to the classes the validation tells apart.

## Runs

| Run | Result | What it shows |
|---|---|---|
| `udp_session` | holds | No sequence number (it is the nonce) is used for two packets; the session implements `OrderedChannel`; while every number fits in the reorder window, an acknowledged packet is held until published, a pending packet is settled and a numbered message published, or an endpoint closes. |
| `udp_window` | violated | `AckedIsHeld` once the sender can be further ahead than the window (finding 1). |
| `udp_server` | holds | The table respects its limit although check and insertion are separate; `byRemote` and the table agree; `Close` reaches every open session; only confirmed sessions are exposed; dead, replaced and unconfirmed sessions leave. |
| `udp_server_leak` | violated | `DeadTableDrains` (finding 2). |
| `tcp_session` | holds | The reader never meets bytes it would reject, whatever fails; the stream implements `OrderedChannel`; `Send` returns. |
| `manager` | holds | Handshake slots and buffers stay within their limits; nothing enters the map after `Close` emptied it; no open session is out of reach of `Close` but the one somebody is about to close; a failing `Send` never removes a newer session; dead sessions leave the map, unless their forwarder waits at a full `incoming` for an application that never reads again; `Close` returns, whether or not it reads. |
| `keepalive` | holds | In every mode and pair of preferences that validates: a TCP reader whose peer prefers TCP is kept from its deadline, and a path that goes silent is noticed within it. |
| `tcp_flow` | holds | Both streams are written in order without gap or duplicate; data never overtakes the opening; the end of one side ends the other, and chunks arrive, unless a message is lost or a node is held up; `App.Close` returns although the dispatcher is inside a write to a peer that does not read. |
| `udp_flow` | holds | Requests are delivered whole; the reassembly map is bounded; a partial datagram goes after a bounded number of cleanups, although fragments with its key keep coming; the two entry tables agree. |
| `udp_flow_restart` | violated | `RepliesIntact` (finding 3). |
| `admin` | holds | Wherever a command or the machine stops, a saved configuration is whole and valid; its secret stays readable; a deleted tunnel is stopped; proposed interface names do not collide; a tunnel reported started or restarted runs with the files it was given. |
| `l3_path` | holds | A message comes through twice only after a full window of others; nothing but a copy is dropped as one; what is written to the TUN device was read from the other and is permitted by both configurations. Before it starts, TLC evaluates `FilterAgrees` and `CodecAgrees` of `MCL3Path`. |

`FilterAgrees` compares the filter with a reading of the packet as a whole, on
IPv4 packets of every length around their header and on IPv6 packets with up to
two extension headers of every kind and every length around their ends.
`CodecAgrees` says, of messages up to one unit over each limit, that `Decode`
undoes `Encode` and takes no frame that lost or gained a unit.

Every property of a run that holds also has a mutant: a small plausible change
to one definition under which TLC reports that property violated.

Three properties of `admin` have an exception, recorded in a history variable,
that is what the code does: `overlooked` (a file that does not load is skipped
when the panel looks for users of a secret or of an interface), `stuck`
(`Delete` goes on when systemctl fails) and `kept` (a unit that is already up when
it is merely enabled goes on with the old files: it came up by itself while the
wizard was open, or a failed `Delete` left it and the tunnel was set up anew).
The properties show that nothing else leads to an overlooked user, a unit without
its files, or a process with old ones; they do not forbid these three.

### Bounds, and why they are enough

* `UdpSession`: two senders, since the races are between two callers, or a caller
  and the ACK or tick of its packet; queues of one, so that they fill; one retry,
  so that both the retry and giving up happen. `udp_session` keeps `MaxSeq` at
  most `MaxReorder + 1`, which the code does not ensure; `udp_window` has one
  number more and shows what happens then. The proofs of the safety properties
  other than `AckedIsHeld` have no such limit. `ReorderWithinWindow` is not
  checked by a run, since with these numbers nothing can lie beyond the window;
  it is proved (`ReorderBounded`).
* `UdpServer`: two dials and three sessions over a table of two, so that one hello
  makes two sessions, a session is replaced, and the table is full.
* `TcpSession`: four records, a stream of three parts, `recvCh` of one.
* `Manager`: two sessions, one sender, one handshake slot, buffers of one; a client
  preferring UDP and a server preferring TCP, both with both carriers.
* `Keepalive`: the code's 10 and 45 seconds as 2 and 9 units, frames that take up
  to 10 seconds.
* `TcpFlow`: three chunks one way with a window of one, so that a chunk can be
  beyond it, and one chunk back; and, for each node, a plan in which it closes
  while its local peer does not read the one chunk it is sent.
* `UdpFlow`: two flow identifiers and two sockets per flow, so that flows and
  sockets are made again; two datagrams each way, of one or two fragments; one
  assembly, so that the map is full. Fragments that keep coming under one key are
  those of the next socket, which numbers its replies from one again.
* `L3Path`: four messages over a ring of two, so that identifiers leave it; eight
  identifiers from a seed of six, so that they wrap; one session of each carrier,
  so that a frame can go to both; one restart; six packets, one that both
  configurations permit, one that only the sender's does, and four that have to
  stay out.
* `Admin`: two tunnels, two secrets and two interface names, since every conflict
  is between two tunnels; three dialogues (a client, a server with layer 3, and
  one the validation refuses); three commands or reboots. Tunnels and secrets are
  interchangeable and the run uses that symmetry.

Deadlock is not checked where the system may stop: a closed session or a finished
flow has nothing left to do, and the bounds end a behaviour. `Keepalive` never
stops, and its run checks it.

### Fairness

Weak fairness is assumed of goroutines that can run and timers that are due: the
steps of `Send`, the retransmission tick, `packetLoop`, client loops, handshakes
(they have deadlines), the confirmation, cleanup and forwarding goroutines, and
the steps of `Close`. Strong fairness is assumed in two places:
`TcpSession!Lock`, because a `sync.Mutex` does not starve a waiter, and
`Manager!ForwardPuts`, because Go serves senders blocked on a channel in order of
arrival. `TcpFlow` assumes that a message that no carrier loses is received, and
that a write returns once its connection is closed or while its peer reads.
Nothing is assumed of the UDP network, of the user calling `Close`, of peers, of
failures, or, in `Manager`, of the application reading `incoming`. `Keepalive`,
`UdpFlow`, `L3Path` and `Admin` state safety only; that something happens in time
is there a count of ticks.

## Proofs

Eight modules hold proofs, each for every value of the constants that satisfies
the named assumption of its specification. For each specification one inductive
invariant, or two of which the second uses the first, holds initially and is
preserved by every action (a lemma for each group of actions), and the properties
follow from it.

**`UdpSessionProofs`** (`BoundsAssumption`): `TypeCorrect`, `NoncesUnique`,
`ReorderBounded`, `SessionImplementsChannel`, and `AckedHeldInWindow`, which has
the hypothesis that `MaxSeq` is at most `MaxReorder + 1`: exactly what finding 1
is about. That the output is a prefix of the input depends on the packet being
published having the payload of its number, and that packet may have waited in
the pending table, the network, `packetCh`, the goroutine's hand or the reorder
map. `IInv` therefore says of every packet in any of those places that it is
`Genuine` (`PacketInv`), of every caller inside `Send` that it owns its number
(`SenderInv`), and that `expected` is one more than what was published
(`PublishInv`). `sent` only grows at its end, so genuine packets stay genuine.

**`TcpSessionProofs`** (`TcpAssumption`): `StreamNeverMisframed` and
`StreamImplementsChannel`. `TcpInv` gives every part of the stream its place
(header and body of the first record, of the second, and so on). `LockInv` says
that the callers inside the critical section are exactly the holder of `writeMu`
and that the last number is its own; `StreamInv`, that the parts under way run
from the place `readLoop` reads next to the place that is written next, and that
a torn part is the last one of a finished session; `PublishInv`, that what was
published is what was read. With the UDP session this makes both carriers
implementations of the same channel.

The module also has the theorems about `Keepalive`: `SilenceIsNoticed`, and
`HeartbeatSuffices` with the hypothesis `Heartbeat + MaxDelay < ReadIdle`, which
the code meets with 10 and 45 seconds for every delay below 35. It is tight: with
a heartbeat and a delay of two units the property holds at a deadline of five and
fails at four. `BeatInv` relates three clocks: a reader has been idle no longer
than its peer's ticker has run, or a frame of that peer is on its way that is
younger than the reader's idle time by at most one heartbeat (`FeedInv`); and no
deadline is younger than a silence (`DeadlineInv`).

**`UdpServerProofs`**: `TableWithinCapacity`, `RemotesRegistered`,
`OpenStaysRegistered`, `ExposedAfterConfirmation`. Each of them is about a lock
that is released and taken again. `ServerInv` adds what a goroutine knows in
between: `Handled`, that the table is below its limit from the check to the
insertion (only `readLoop` inserts) and that the session being welcomed is in the
table unless it was closed; `Confirmed`, that a goroutine about to install or
expose a session has both confirmations; and `Numbered`, that identifiers are
handed out in order, so that a new session is not yet known to anyone.

**`ManagerProofs`** (`ManagerAssumption`): `MapStaysEmpty`, `OpenStaysReachable`,
the action property `HealthyStays`, `ManagerTypeCorrect` and `SlotsStayBounded`.
`ManagerInv` adds `Unmade`, that a session not made yet is in no map, forwarder
or hand; the two invariants need each other, since what `Close` no longer finds
in the map has to be refused by `addSession`. What a failed `Send` has taken out
of the map is open until that `Send` closes it (`StillRemoving`), so
`OpenIsReachable` has to name it. That a handshake finds a slot is counted in one
place and given back in another: `SlotInv` says that on a server the handshakes
and the goroutines still inside `addSession` are together what the semaphore
counts. The bound on handshakes in `TypeOK` is not inductive without the second
half.

**`TcpFlowProofs`** (`FlowAssumption`): `ChunkFindsFlow`, `StreamsStayInOrder` and
`ReorderStaysBounded`, for every plan. Whether a chunk can be on its way depends
on the pumps, those on the answer to the opening, and that on the flow being
registered: `FlowInv` records this chain (`EntryFirst`, `ExitFirst`, `PumpsLast`,
`DataLast`). `OrderInv` relates the three counts of a stream, numbered, expected
and written, and bounds what is held back or on its way by the peer's numbering.
With `HeldNear`, that no chunk held back is further ahead than the window, the
map has at most `maxTCPReorder` entries.

**`UdpFlowProofs`** (`UdpFlowAssumption`): `RequestsStayIntact`,
`AssembliesStayBounded`, `AssembliesDoExpire`, `KeyStaysWithFlow`,
`RepliesOfOneSocket`. Fragments are joined when they have the same flow and
number, so `FragmentInv` says that requests with one key belong to one datagram
(`RequestsNumbered`): an entry flow's identifier is used once and its counter
only grows. With one fragment per index, as many fragments as the datagram has
are all of them (`AllParts`). For replies the numbers are unique only per socket
(`RepliesNumbered`), because a socket that is opened again starts a new
numbering: finding 3. `RepliesOfOneSocket` shows that this is the whole of that
finding: as long as the exit has opened one socket for a flow, every reply given
to the client is one datagram of the service. `AgeInv` is behind
`AssembliesDoExpire`: no fragment has waited longer than its assembly has been
there, because `created` is set once.

**`L3PathProofs`** has four parts.

* The window (`RingAssumption`): `WindowIsRespected` and `WindowRemembersRecent`,
  for every ring size. `WindowInv` says which slot of the ring holds which of the
  last identifiers, so that the one overwritten is the one that leaves the set.
* The filter (`HeadersAssumption`): `FilterIsExact`. The code walks from header to
  header and keeps an offset; the reference reads the chain of types and the sum
  of the lengths off the packet. After each number of rounds the loop has either
  reached the next header of that chain or has returned what the chain implies
  (`Reaches`, `FoundOut`). The induction is over a set: among the numbers of
  rounds at which this fails there would be a least one (`FirstExists`). That the
  recursively defined functions satisfy their equations is `LoopExists`.
* The codec (`LimitsAssumption`): `DecodeUndoesEncode` and `EncodeUndoesDecode`,
  for every message and every frame.
* The path (`PathAssumption`, `PacketsAssumption`): `OnlyCopiesAreDropped`,
  `WrittenIsPermitted`, `PathRespectsWindow`. `PathInv` says that every frame in a
  goroutine's hand or on a carrier is an authentic one, whose packet was read and
  passed a's filter, and that an identifier belongs to one message: `msgID` is
  ahead of all numbers in use and, since `MaxMessages` is below `IdSpace`, does
  not come round to one of them in a behaviour of the model. The code has 2^64
  identifiers. So an identifier in the window is that of a message b has handled.

**`AdminProofs`** (`AdminAssumption`): `SavedConfigsLoad`, `SecretsStayUsable`,
`DeletedStaysStopped`, `EditsApply` and `InterfacesStayDistinct`, for any number
of tunnels, secrets and commands. `AdminInv` carries each property through the
steps of a command: what is about to be saved has been validated (`FilesInv`),
what takes the name of a file has been synced and no file lacks its content on
the disk (`TempType`), a secret named by it has been written or read
(`SecretInv`), a unit whose file is about to go has been stopped or is `stuck`
(`StopInv`). `InterfacesStayDistinct` has the hypothesis `EnoughNames`, that
`nextInterface` has at least as many names to propose as there are tunnels: with
more than a thousand tunnels it proposes the first name again.

The inductive invariants are established by their proofs; they are not also runs.

Every safety invariant and action property of a passing run is stated by a
theorem. Only model-checked are the liveness properties, since fairness and
`ENABLED` are out of the prover's reach. `FilterAgrees` and `CodecAgrees` stay in
`MCL3Path` although the theorems say more: they are evaluated before every run and
also show that the reference definitions mean something on concrete packets.

## Findings

1. `internal/transport/udp.go:197`: the ACK precedes acceptance, and a packet
   more than `maxUDPReorder` (4096) ahead is dropped after it was acknowledged.
   Up to `maxUDPPending` (8192) packets can be outstanding, so one missing packet
   can make the sender forget others; the stream then stops at the gap.
   `docs/PROTOCOL.md` calls the carrier reliable.
2. `internal/transport/udp.go:447`: a session whose welcome cannot be written is
   closed, but its cleanup goroutine has not been started, so it occupies the
   table for good.
3. `internal/app/app.go:693`: a remote UDP flow that failed and is opened again
   under the same identifier numbers its replies from one, while old partial
   replies may wait at the entry under the same numbers: halves of two datagrams
   are joined. `README.md` says that datagram boundaries are preserved.

Also seen while modelling, without a run of its own:

* In `both` mode with UDP preferred at both ends (the default) nothing travels on
  the TCP session, so it is closed every 45 seconds and dialled again, although
  `docs/PROTOCOL.md` says that both sessions remain connected. `NoIdleClose`
  therefore speaks only of nodes whose peer prefers TCP.
* The wizard writes the secret before it validates and saves the configuration;
  `README.md` lists validation and the JSON file before the secret. When the
  validation then fails, the tunnel keeps its old configuration and has a new
  secret.
* `internal/app/app.go:382`: a connection can be registered after `App.Close` has
  emptied the table; if its peer then does not read, `Close` waits for a write
  that nobody ends. `CloseReturns` excludes just this case.
* `isDuplicate` takes identifier 0 for a copy. `msgID` starts at a random value
  and passes 0 once in 2^64 messages.
* `internal/transport/udp.go:123`: a write that fails after its packet was resent
  and acknowledged releases its slot a second time; the same goroutine closes the
  session in the next statement.

## Not modelled

* Byte layouts, key derivation and sealing: no state. What fails authentication is
  ignored, and the models have only genuine packets.
* The other direction of a session, which is the same code; ACKs are modelled.
* An error of `ReadFromUDP` that ends the server's `readLoop` before `Close`; an
  error of the TUN device that ends `tunReadLoop`.
* `App.Run`, which starts the parts one after another and returns at the first
  error; opening and configuring the TUN device; the sweep of the UDP tables in
  `App.Close`, which has the same form as that of the TCP table.
* Several flows against the limits of connections and flows. The check and the
  insertion are separate there, so the limits are approximate, and nothing relies
  on their being exact.
* Recovery of a chunk lost with a carrier: the code has none, so the liveness
  properties of `TcpFlow` exclude loss. An exit flow registered after the entry
  gave up stays open until its service ends it.
* `UdpFlow` has one client and takes a failed write and the deletion of its flow
  as one step; idle expiry of a remote flow happens when none of its replies is
  left anywhere, since two minutes exceed the lifetime of assemblies.
* Two control panels at the same time, which the program does not coordinate; the
  order in which a file system makes two renames durable, which is taken to be
  the order of the calls; the menus, listings and logs, which only read; prompts,
  apart from the values they return or their failing.
* The checks of identifiers, CIDRs, MTU and protocol names: the wizard makes them
  as the values are entered and each is a predicate on one value.
* Installation scripts and the unit file, except for what `Admin` takes from them:
  the unit restarts its process, up to a limit, and loads the files when it starts.

What could follow: a composition of `Manager` with two `OrderedChannel`s under
`TcpFlow`, so that its reordering and loss come from the carriers instead of being
assumed; the refinement of both ends of `TcpFlow` to an `OrderedChannel` that
delivers several messages in one step, as one call of `writeOrdered` does.
