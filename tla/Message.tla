------------------------------- MODULE Message -------------------------------
(***************************************************************************)
(* Encode and Decode of internal/protocol/message.go.  The fixed header is *)
(* a record of its fields, the variable part one sequence in which only    *)
(* the header's lengths tell name, error and payload apart; its elements   *)
(* are units of text or payload.  The magic and the version are left out:  *)
(* both ends are this program, and a frame that was changed on its way     *)
(* fails its AEAD check before it gets here.                               *)
(***************************************************************************)
EXTENDS Integers, Sequences

CONSTANTS MaxName, MaxError, MaxPayload  \* maxNameLen, maxErrorLen, maxPayloadLen

ASSUME LimitsAssumption == MaxName \in Nat /\ MaxError \in Nat /\ MaxPayload \in Nat

Types == {"IPPacket", "OpenTCP", "TCPStatus", "TCPData", "TCPClose", "UDPData", "Ping", "Pong"}

WithinLimits(nameLen, errLen, payloadLen) ==
  nameLen =< MaxName /\ errLen =< MaxError /\ payloadLen =< MaxPayload

\* Encode returns an error for any other message.
Encodable(m) ==
  m.type \in Types /\ WithinLimits(Len(m.name), Len(m.error), Len(m.payload))

Encode(m) ==
  [type |-> m.type, id |-> m.id, connID |-> m.connID, seq |-> m.seq,
   nameLen |-> Len(m.name), errLen |-> Len(m.error), payloadLen |-> Len(m.payload),
   body |-> m.name \o m.error \o m.payload]

\* Decode returns an error for any other frame.  It does not look at type.
Decodable(f) ==
  /\ WithinLimits(f.nameLen, f.errLen, f.payloadLen)
  /\ f.nameLen + f.errLen + f.payloadLen = Len(f.body)

Decode(f) ==
  LET errOff == f.nameLen
      payloadOff == f.nameLen + f.errLen
  IN  [type |-> f.type, id |-> f.id, connID |-> f.connID, seq |-> f.seq,
       name |-> SubSeq(f.body, 1, errOff),
       error |-> SubSeq(f.body, errOff + 1, payloadOff),
       payload |-> SubSeq(f.body, payloadOff + 1, payloadOff + f.payloadLen)]
=============================================================================
