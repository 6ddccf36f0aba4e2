------------------------------ MODULE MCTcpFlow ------------------------------
(* Enough chunks one way for the reorder window of one to be exceeded, and   *)
(* one chunk back; and each node closing while its local peer is silent.     *)
EXTENDS TcpFlow

Plan(entry, exit, closing) ==
  [chunks |-> [n \in Nodes |-> IF n = "entry" THEN entry ELSE exit],
   closers |-> closing, deaf |-> closing]

MCPlans == {Plan(3, 1, {}), Plan(0, 1, {"entry"}), Plan(1, 0, {"exit"})}
=============================================================================
