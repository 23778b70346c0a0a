---------------------------- MODULE MCRemoteAccess ----------------------------
(* Instances of RemoteAccess for TLC. *)
EXTENDS RemoteAccess

CONSTANTS h1, w1, w2

MCHealthCommands == <<"critical", "metric", "status">>
=============================================================================
