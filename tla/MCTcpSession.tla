---------------------------- MODULE MCTcpSession ----------------------------
(* TLC instance of TcpSession. *)
EXTENDS TcpSession

CONSTANTS w1, w2
=============================================================================
