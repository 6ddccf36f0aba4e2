------------------------------- MODULE MCAdmin -------------------------------
(* Two tunnels; a client without layer 3 that dials one address, a server   *)
(* with layer 3, and a server offering a service that cannot be dialled.    *)
EXTENDS Admin, TLC

CONSTANTS t1, t2, k1, k2

Client == [role |-> "client", node |-> "a", peer |-> "b", mode |-> "both", prefer |-> "udp",
           addr |-> "host", l3 |-> FALSE, services |-> {}, forwards |-> {"any"}]
Server == [role |-> "server", node |-> "a", peer |-> "b", mode |-> "tcp", prefer |-> "udp",
           addr |-> "any", l3 |-> TRUE, services |-> {"host"}, forwards |-> {}]

MCDialogs == {Client, Server, [Server EXCEPT !.services = {"any"}]}
MCIfaces == <<"utun0", "utun1">>

\* Tunnels and secrets are interchangeable.
AdminSymmetry == Permutations({t1, t2}) \cup Permutations({k1, k2})
=============================================================================
