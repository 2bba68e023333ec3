----------------------------- MODULE MCDataPath -----------------------------
(* Instances of DataPath for TLC: a counter, a flag and a leaf that is rejected, of *)
(* the interfaces eth and mgmt.                                                     *)
EXTENDS DataPath, TLC

CONSTANTS octets, up, noise, name, eth, mgmt

Types == (octets :> "counter64") @@ (up :> "other") @@ (noise :> "other")
Kinds == (octets :> "number") @@ (up :> "bool") @@ (noise :> "other")

Interface(i) == <<[name |-> "interface", keyed |-> TRUE, key |-> (name :> i)]>>
At(i, leaf) == Interface(i) \o <<[name |-> leaf, keyed |-> FALSE, key |-> <<>>]>>

Paths == (octets :> At(eth, "octets")) @@ (up :> At(eth, "up")) @@ (noise :> At(mgmt, "up"))
Mgmt == {Interface(mgmt)}
=============================================================================
