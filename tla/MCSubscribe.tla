---------------------------- MODULE MCSubscribe ----------------------------
(* Instances of Subscribe for TLC. *)
EXTENDS Subscribe, TLC

CONSTANTS r1, r2, x, y

Kind(mode, only, member, bad, leaves) ==
    [made |-> TRUE, mode |-> mode, only |-> only, member |-> member, bad |-> bad,
     leaves |-> leaves]

Modes == {"ONCE", "POLL", "STREAM"}

NotMade == [Kind("ONCE", FALSE, FALSE, FALSE, {}) EXCEPT !.made = FALSE]

\* What an RPC may ask for, alone.  A bad path matters only if there are leaves to
\* walk; a cluster member asks for everything, as the cluster loader makes it do.
AloneKinds ==
    {Kind(m, o, FALSE, b, Leaf) :
        m \in Modes, <<o, b>> \in {<<FALSE, FALSE>>, <<FALSE, TRUE>>, <<TRUE, FALSE>>}}
        \cup {Kind("STREAM", FALSE, TRUE, FALSE, Leaf)}

AloneRequests == {(r1 :> k) @@ (r2 :> NotMade) : k \in AloneKinds}

\* A client that polls, and one that asks once, of targets that have no leaves: each
\* walk may find the slot taken by the other's.
PairRequests == {(r1 :> Kind("POLL", FALSE, FALSE, FALSE, {}))
                     @@ (r2 :> Kind("ONCE", FALSE, FALSE, FALSE, {}))}

ClientRequests == AloneRequests \cup PairRequests

StreamRequest == {r1 :> Kind("STREAM", FALSE, FALSE, FALSE, Leaf)}

MemberRequest == {r1 :> Kind("STREAM", FALSE, TRUE, FALSE, Leaf)}
=============================================================================
