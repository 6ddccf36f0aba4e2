------------------------------ MODULE Keepalive ------------------------------
(***************************************************************************)
(* The heartbeat of internal/app/app.go against the read deadline of       *)
(* internal/transport/tcp.go, for two nodes joined by the carriers of      *)
(* their mode.  Each node pings through Manager.Send, which picks the      *)
(* preferred carrier and falls back to the other one; a ping is answered   *)
(* with a pong the same way; every frame read on the TCP session renews    *)
(* the reader's deadline.                                                  *)
(*                                                                         *)
(* Time is discrete; one unit stands for five seconds.  A tick waits for   *)
(* whatever is due.                                                        *)
(***************************************************************************)
EXTENDS Integers

CONSTANTS Configs,   \* <<mode, preference of "a", preference of "b">>
          Heartbeat, \* period of the heartbeat ticker
          ReadIdle,  \* tcpReadIdle
          MaxDelay   \* bound of the model: longest way of a frame

Nodes == {"a", "b"}
Kinds == {"tcp", "udp"}

\* What config.validateTransport accepts on the two nodes of a tunnel.
ValidModes ==
  {c \in {"tcp", "udp", "both"} \X Kinds \X Kinds : {c[2], c[3]} = {c[1]} \/ c[1] = "both"}

ASSUME KeepaliveAssumption ==
  /\ Configs \subseteq ValidModes
  /\ Heartbeat \in Nat \ {0} /\ ReadIdle \in Nat \ {0} /\ MaxDelay \in Nat

VARIABLES
  mode, prefer, \* configuration, fixed
  up,       \* Manager.sessions of each node: the carriers with a session
  ticker,   \* time since each node's last heartbeat
  idle,     \* time since each node's TCP reader last set its deadline
  wire,     \* frames on their way; equal ones count once
  cut,      \* the TCP path has silently stopped carrying frames
  silent    \* time since it did

keepaliveVars == <<mode, prefer, up, ticker, idle, wire, cut, silent>>

Peer(n) == IF n = "a" THEN "b" ELSE "a"
Other(k) == IF k = "udp" THEN "tcp" ELSE "udp"
Carriers == IF mode = "both" THEN Kinds ELSE {mode}

KeepaliveInit ==
  /\ \E c \in Configs : mode = c[1] /\ prefer = [n \in Nodes |-> IF n = "a" THEN c[2] ELSE c[3]]
  /\ up = [n \in Nodes |-> Carriers]
  /\ ticker \in [Nodes -> 0 .. Heartbeat - 1]
  /\ idle = [n \in Nodes |-> 0]
  /\ wire = {} /\ cut = FALSE /\ silent = 0

\* Manager.Send: the frame goes out on the first carrier of the order that
\* has a session, and nowhere when none has.
SendOn(n) ==
  IF prefer[n] \in up[n] THEN {prefer[n]} ELSE {Other(prefer[n])} \cap up[n]

Sent(n, type) == [to : {Peer(n)}, via : SendOn(n), type : {type}, age : {0}]

\* Mutant: sending sets both deadlines of the connection.
PingRenews(n) ==
  /\ ticker[n] = Heartbeat
  /\ ticker' = [ticker EXCEPT ![n] = 0]
  /\ idle' = IF "tcp" \in SendOn(n) THEN [idle EXCEPT ![n] = 0] ELSE idle
  /\ wire' = wire \cup Sent(n, "ping")
  /\ UNCHANGED <<mode, prefer, up, cut, silent>>

\* maintenanceLoop: the heartbeat ticker fires.
Ping(n) ==
  /\ ticker[n] = Heartbeat
  /\ ticker' = [ticker EXCEPT ![n] = 0]
  /\ wire' = wire \cup Sent(n, "ping")
  /\ UNCHANGED <<mode, prefer, up, idle, cut, silent>>

\* Mutant: the deadline is set once, before the loop.
RenewNothing(f) == UNCHANGED idle

\* The TCP readLoop sets a new deadline after each frame.
RenewDeadline(f) ==
  idle' = IF f.via = "tcp" THEN [idle EXCEPT ![f.to] = 0] ELSE idle

\* A frame arrives; handleMessage answers a ping and ignores a pong.
Deliver(f) ==
  /\ f \in wire /\ f.via \in up[f.to]
  /\ f.via = "tcp" => ~cut
  /\ RenewDeadline(f)
  /\ wire' = (wire \ {f}) \cup (IF f.type = "ping" THEN Sent(f.to, "pong") ELSE {})
  /\ UNCHANGED <<mode, prefer, up, ticker, cut, silent>>

\* A session that ends takes its frames along.
Lost(k) == {f \in wire : f.via = k}

\* The read deadline passes and finish closes the connection; the peer's
\* reader sees that, unless the path is cut.
IdleClose(n) ==
  /\ "tcp" \in up[n] /\ idle[n] = ReadIdle
  /\ up' = [m \in Nodes |-> IF m = n \/ ~cut THEN up[m] \ {"tcp"} ELSE up[m]]
  /\ wire' = wire \ Lost("tcp")
  /\ UNCHANGED <<mode, prefer, ticker, idle, cut, silent>>

\* clientLoop dials again once both ends are rid of the old session.
Connect(k) ==
  /\ k \in Carriers /\ \A n \in Nodes : k \notin up[n]
  /\ k = "tcp" => ~cut
  /\ up' = [n \in Nodes |-> up[n] \cup {k}]
  /\ idle' = IF k = "tcp" THEN [n \in Nodes |-> 0] ELSE idle
  /\ UNCHANGED <<mode, prefer, ticker, wire, cut, silent>>

\* A carrier's session breaks in a way both ends notice.
Disconnect(k) ==
  /\ ~cut /\ \A n \in Nodes : k \in up[n]
  /\ up' = [n \in Nodes |-> up[n] \ {k}]
  /\ wire' = wire \ Lost(k)
  /\ UNCHANGED <<mode, prefer, ticker, idle, cut, silent>>

\* The TCP path goes silent, and recovers after both ends have given up.
Cut ==
  /\ ~cut /\ \A n \in Nodes : "tcp" \in up[n]
  /\ cut' = TRUE /\ silent' = 0
  /\ wire' = wire \ Lost("tcp")
  /\ UNCHANGED <<mode, prefer, up, ticker, idle>>

Heal ==
  /\ cut /\ \A n \in Nodes : "tcp" \notin up[n]
  /\ cut' = FALSE /\ silent' = 0
  /\ UNCHANGED <<mode, prefer, up, ticker, idle, wire>>

\* Frames on a path that is cut go nowhere.
Swallowed(f) == cut /\ f.via = "tcp"

\* Time passes once everything due has been done.
Tick ==
  /\ \A n \in Nodes : ticker[n] < Heartbeat /\ ("tcp" \in up[n] => idle[n] < ReadIdle)
  /\ \A f \in wire : f.age < MaxDelay \/ Swallowed(f)
  /\ ticker' = [n \in Nodes |-> ticker[n] + 1]
  /\ idle' = [n \in Nodes |-> IF "tcp" \in up[n] THEN idle[n] + 1 ELSE 0]
  /\ wire' = {[f EXCEPT !.age = @ + 1] : f \in {g \in wire : ~Swallowed(g)}}
  /\ silent' = IF cut /\ \E n \in Nodes : "tcp" \in up[n] THEN silent + 1 ELSE 0
  /\ UNCHANGED <<mode, prefer, up, cut>>

KeepaliveNext ==
  \/ \E n \in Nodes : Ping(n) \/ IdleClose(n)
  \/ \E f \in wire : Deliver(f)
  \/ \E k \in Kinds : Connect(k) \/ Disconnect(k)
  \/ Cut \/ Heal \/ Tick

KeepaliveSpec == KeepaliveInit /\ [][KeepaliveNext]_keepaliveVars

-----------------------------------------------------------------------------
(* Properties.                                                             *)

\* Over a path that delivers, a TCP reader is kept from its deadline by the
\* peer whose preferred carrier is TCP: its pings, and its pongs to pings that
\* came over either carrier, arrive in time, whichever sessions come and go.
\* A standby TCP session has no such peer and is closed every ReadIdle,
\* although docs/PROTOCOL.md says "In `both` mode, TCP and UDP sessions remain
\* connected at the same time".
NoIdleClose ==
  \A n \in Nodes :
    "tcp" \in up[n] /\ ~cut /\ prefer[Peer(n)] = "tcp" => idle[n] < ReadIdle

\* A TCP path that went silent is noticed: no node keeps its session on it
\* longer than the read deadline, however much it goes on sending.
SilenceNoticed ==
  \A n \in Nodes : cut /\ "tcp" \in up[n] => silent =< idle[n] /\ idle[n] =< ReadIdle
=============================================================================
