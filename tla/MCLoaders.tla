------------------------------ MODULE MCLoaders ------------------------------
(* Instances of Loaders for TLC: one loader has a target of its own, and *)
(* one that both have.                                                   *)
EXTENDS Loaders, TLC

CONSTANTS json, simple, a, b

OwnAndShared == (json :> {a, b}) @@ (simple :> {b})
=============================================================================
