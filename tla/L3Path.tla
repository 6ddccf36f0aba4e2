------------------------------- MODULE L3Path -------------------------------
(***************************************************************************)
(* A packet from the TUN device of node "a" to the TUN device of node "b": *)
(* tunReadLoop and its filter, send, Manager.Send with its failover, the   *)
(* two carriers, incomingLoop with Decode and isDuplicate, handleIPPacket  *)
(* with its filter (internal/app/app.go, internal/transport/manager.go).   *)
(* The heartbeats of "a" share the identifiers and the carriers.  The way  *)
(* back is the same code.                                                  *)
(*                                                                         *)
(* A carrier session is an ordered channel (modules UdpSession and         *)
(* TcpSession); what it holds is lost when its receiving end goes away.    *)
(* Send and the sessions' ends in detail are in module Manager.            *)
(***************************************************************************)
EXTENDS DuplicateWindow, PacketFilter, Message

CONSTANTS Packets,      \* what the kernel may hand to a's TUN device
          Allow,        \* l3.allow_protocols of each node
          Prefer,       \* transport.prefer of "a", in mode "both"
          IdSpace,      \* number of message identifiers (2^64)
          Seeds,        \* what randomID may return to New
          MaxMessages,  \* bound of the model: messages sent
          MaxSessions,  \* bound of the model: sessions of each carrier
          MaxRestarts   \* bound of the model: restarts of "b"

\* Identifiers are not used up: in the code, never within a process's life.
ASSUME PathAssumption ==
  /\ Allow \in [{"a", "b"} -> SUBSET {"tcp", "udp"}] /\ Prefer \in {"tcp", "udp"}
  /\ IdSpace \in Nat /\ Seeds \subseteq 1 .. IdSpace - 1
  /\ MaxMessages \in 1 .. IdSpace - 1 /\ MaxSessions \in Nat /\ MaxRestarts \in Nat

ASSUME PacketsAssumption == Packets \subseteq IPPackets

Kinds == {"tcp", "udp"}
Sessions == Kinds \X (1 .. MaxSessions)
Other(k) == IF k = "udp" THEN "tcp" ELSE "udp"
Order == <<Prefer, Other(Prefer)>>
Senders == {"tun", "beat"}  \* tunReadLoop and maintenanceLoop

NoSession == <<"none", 0>>
NoFrame == [id |-> 0]

VARIABLES
  msgID,     \* msgID of "a"
  hand,      \* the encoded message each sender is sending
  left,      \* the carriers Manager.Send has yet to try, for each sender
  current,   \* Manager.sessions of "a"
  made,      \* sessions made so far, of each carrier
  queue,     \* frames between a's session and b's incomingLoop
  ended,     \* sessions whose end at "b" is gone
  restarts,  \* restarts of "b"
  sentCount, \* messages sent
  read,      \* history: packets read from a's TUN device
  taken,     \* history: messages b handled
  rejected,  \* history: messages b dropped as duplicates
  written    \* history: packets written to b's TUN device

sendVars == <<msgID, hand, left, sentCount, read>>
linkVars == <<current, made, queue, ended>>
bVars == <<restarts, taken, rejected, written>>
vars == <<sendVars, linkVars, windowVars, bVars>>

Init ==
  /\ msgID \in Seeds
  /\ hand = [g \in Senders |-> NoFrame] /\ left = [g \in Senders |-> <<>>]
  /\ current = [k \in Kinds |-> NoSession] /\ made = [k \in Kinds |-> 0]
  /\ queue = [s \in Sessions |-> <<>>] /\ ended = {}
  /\ restarts = 0 /\ sentCount = 0 /\ read = {}
  /\ taken = {} /\ rejected = {} /\ written = {}
  /\ WindowInit

-----------------------------------------------------------------------------
(* Node "a".                                                               *)

\* Mutant: a Load and a Store in place of Add.
NextIDRacy == msgID' \in {msgID, (msgID + 1) % IdSpace}
NextID == msgID' = (msgID + 1) % IdSpace

NewMessage(type, payload) ==
  [type |-> type, id |-> msgID', connID |-> 0, seq |-> 0,
   name |-> <<>>, error |-> <<>>, payload |-> payload]

\* App.send, up to Manager.Send.
SendBegins(g, type, payload) ==
  /\ left[g] = <<>> /\ sentCount < MaxMessages
  /\ NextID
  /\ Encodable(NewMessage(type, payload))
  /\ hand' = [hand EXCEPT ![g] = Encode(NewMessage(type, payload))]
  /\ left' = [left EXCEPT ![g] = Order]
  /\ sentCount' = sentCount + 1

\* tunReadLoop: what the filter does not let through changes nothing.
TunRead(p) ==
  /\ PacketAllowed(p, Allow["a"])
  /\ SendBegins("tun", "IPPacket", <<p>>)
  /\ read' = read \cup {p}
  /\ UNCHANGED <<linkVars, windowVars, bVars>>

Heartbeat ==
  /\ SendBegins("beat", "Ping", <<>>)
  /\ UNCHANGED <<read, linkVars, windowVars, bVars>>

\* Where the frame goes: nowhere, when the other end of the session is gone.
Put(s, f) == IF s \in ended THEN queue ELSE [queue EXCEPT ![s] = Append(@, f)]

Done(g) ==
  /\ left' = [left EXCEPT ![g] = <<>>]
  /\ hand' = [hand EXCEPT ![g] = NoFrame]

NextCarrier(g) == IF Len(left[g]) = 1 THEN Done(g) ELSE left' = [left EXCEPT ![g] = Tail(@)] /\ UNCHANGED hand

\* Manager.Send, one round of its loop: the session takes the frame ...
TryOK(g) ==
  /\ left[g] # <<>> /\ current[Head(left[g])] # NoSession
  /\ queue' = Put(current[Head(left[g])], hand[g])
  /\ Done(g)
  /\ UNCHANGED <<msgID, sentCount, read, current, made, ended, windowVars, bVars>>

\* ... or fails and is removed.  A UDP session may have resent the frame
\* before its first write failed.
TryFails(g) ==
  LET k == Head(left[g]) IN
    /\ left[g] # <<>> /\ current[k] # NoSession
    /\ queue' \in {queue} \cup (IF k = "udp" THEN {Put(current[k], hand[g])} ELSE {})
    /\ current' = [current EXCEPT ![k] = NoSession]
    /\ NextCarrier(g)
    /\ UNCHANGED <<msgID, sentCount, read, made, ended, windowVars, bVars>>

TrySkips(g) ==
  /\ left[g] # <<>> /\ current[Head(left[g])] = NoSession
  /\ NextCarrier(g)
  /\ UNCHANGED <<msgID, sentCount, read, linkVars, windowVars, bVars>>

\* Manager.removeSession, when a's end of a session finds that it is over.
SessionLeaves(k) ==
  /\ current[k] # NoSession
  /\ current' = [current EXCEPT ![k] = NoSession]
  /\ UNCHANGED <<sendVars, made, queue, ended, windowVars, bVars>>

\* Manager.addSession at both nodes.
Connect(k) ==
  /\ current[k] = NoSession /\ made[k] < MaxSessions
  /\ made' = [made EXCEPT ![k] = @ + 1]
  /\ current' = [current EXCEPT ![k] = <<k, made'[k]>>]
  /\ UNCHANGED <<sendVars, queue, ended, windowVars, bVars>>

-----------------------------------------------------------------------------
(* Node "b".                                                               *)

Begun == {s \in Sessions : s[2] =< made[s[1]]}

\* A session ends at "b" with what it still held.
SessionEnds(s) ==
  /\ s \in Begun \ ended
  /\ ended' = ended \cup {s}
  /\ queue' = [queue EXCEPT ![s] = <<>>]
  /\ UNCHANGED <<sendVars, current, made, windowVars, bVars>>

\* Mutant: only the sender's filter is consulted.
handleAnyPacket(m) ==
  written' = IF m.type = "IPPacket" THEN written \cup {m.payload[1]} ELSE written

\* handleIPPacket, for a message of that type: what the filter permits is
\* written, unless layer 3 is disabled, the device is not open or Write fails.
handleIPPacket(m) ==
  \/ /\ m.type = "IPPacket" /\ PacketAllowed(m.payload[1], Allow["b"])
     /\ written' = written \cup {m.payload[1]}
  \/ UNCHANGED written

\* incomingLoop takes a message; the forwarders of all sessions feed it.
Incoming(s) ==
  LET f == Head(queue[s])
      m == Decode(f)
  IN  /\ queue[s] # <<>>
      /\ queue' = [queue EXCEPT ![s] = Tail(@)]
      /\ IF ~Decodable(f) THEN UNCHANGED <<windowVars, taken, rejected, written>>
         ELSE /\ isDuplicate(m.id)
              /\ IF Known(m.id)
                   THEN rejected' = rejected \cup {m} /\ UNCHANGED <<taken, written>>
                   ELSE taken' = taken \cup {m} /\ handleIPPacket(m) /\ UNCHANGED rejected
      /\ UNCHANGED <<sendVars, current, made, ended, restarts>>

\* The process is killed and started again: its sessions are gone and its
\* window is that of New.  A Send of "a" may be under way all the while.
Restart ==
  /\ restarts < MaxRestarts
  /\ restarts' = restarts + 1
  /\ ended' = Begun
  /\ queue' = [s \in Sessions |-> <<>>]
  /\ seen' = {} /\ seenRing' = [j \in Slots |-> 0] /\ seenNext' = 0 /\ handled' = <<>>
  /\ taken' = {} /\ rejected' = {}
  /\ UNCHANGED <<sendVars, current, made, written>>

Next ==
  \/ \E p \in Packets : TunRead(p)
  \/ Heartbeat
  \/ \E g \in Senders : TryOK(g) \/ TryFails(g) \/ TrySkips(g)
  \/ \E k \in Kinds : SessionLeaves(k) \/ Connect(k)
  \/ \E s \in Sessions : SessionEnds(s) \/ Incoming(s)
  \/ Restart

Spec == Init /\ [][Next]_vars

-----------------------------------------------------------------------------
(* Properties; WindowRespected of DuplicateWindow is one more.             *)

\* isDuplicate drops nothing but copies: a message it rejects has been
\* handled, whichever sender numbered it and whichever carriers it took.
\* Identifier 0 is the exception: msgID wraps to it once in 2^64 messages,
\* and the first message after a seed of 2^64 - 1 has it.
OnlyCopiesDropped == \A m \in rejected : m.id = 0 \/ m \in taken

\* A packet that b writes to its TUN device was read from a's, and is a
\* complete TCP or UDP packet that both nodes' configurations permit.
WrittenPermitted ==
  \A p \in written : p \in read /\ Permitted(p, Allow["a"]) /\ Permitted(p, Allow["b"])
=============================================================================
