--------------------------- MODULE MCConnections ---------------------------
(* The module that TLC checks Connections in: the configurations give the  *)
(* constants their values.                                                 *)
EXTENDS Connections, TLC
=============================================================================
