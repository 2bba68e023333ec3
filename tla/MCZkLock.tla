------------------------------ MODULE MCZkLock ------------------------------
(* Instances of ZkLock for TLC: two gateways, each with a connection and  *)
(* a lock instance of its own.                                             *)
EXTENDS ZkLock, TLC

CONSTANTS l1, l2, c1, c2

TwoGateways == (l1 :> c1) @@ (l2 :> c2)
=============================================================================
