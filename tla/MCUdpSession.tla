---------------------------- MODULE MCUdpSession ----------------------------
(* TLC instances of UdpSession: two senders, or one that runs ahead. *)
EXTENDS UdpSession

CONSTANTS w1, w2
=============================================================================
