-------------------------- MODULE MCSorobanClients --------------------------
(* Two terminals on one account.                                             *)
EXTENDS SorobanClients
=============================================================================
