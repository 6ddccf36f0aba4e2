------------------------------ MODULE MCManager ------------------------------
(* The manager on a client and on a server that use both carriers, with     *)
(* either preference.                                                       *)
EXTENDS Manager

MCConfigs ==
  {<<"client", "both", "udp">>, <<"server", "both", "tcp">>}
=============================================================================
