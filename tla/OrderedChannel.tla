--------------------------- MODULE OrderedChannel ---------------------------
(***************************************************************************)
(* What a carrier promises to the layer above it: messages come out in the *)
(* order they went in, none is skipped and none comes out twice.  Nothing  *)
(* obliges the channel to deliver: a session may close with messages still *)
(* inside, and what it delivered is then a prefix of what was sent.        *)
(*                                                                         *)
(* UdpSession and TcpSession are shown to implement this module.           *)
(***************************************************************************)
EXTENDS Naturals, Sequences

CONSTANT Message

VARIABLES sent,   \* every message accepted for sending, in order
          rcvd    \* every message handed to the receiver, in order

chanVars == <<sent, rcvd>>

Init == sent = <<>> /\ rcvd = <<>>

Send(m) == sent' = Append(sent, m) /\ UNCHANGED rcvd

Deliver ==
  /\ Len(rcvd) < Len(sent)
  /\ rcvd' = Append(rcvd, sent[Len(rcvd) + 1])
  /\ UNCHANGED sent

Next == (\E m \in Message : Send(m)) \/ Deliver

Spec == Init /\ [][Next]_chanVars
=============================================================================
