----------------------------- MODULE Membership -----------------------------
(***************************************************************************)
(* The members of a cluster (gateway/clustering, loaders/cluster): each    *)
(* gateway registers itself as an ephemeral node, once, when it starts;    *)
(* follows the list of the others with a watch; and tells its connection   *)
(* manager, through the channel of control messages, which of them to      *)
(* connect to.  Processes end, sessions expire, and a gateway may be       *)
(* started again before its old node is gone.                              *)
(***************************************************************************)
EXTENDS Integers, Sequences, FiniteSets

CONSTANTS
    Gateway,         \* cluster members, by their address
    ChanSize,        \* capacity of targetsConfigChan; 10 in the code
    MaxErrors,       \* errors in a row of the watch that are tolerated; 3
    MaxDisconnects,  \* disconnections without a session; 50
    MaxStarts,       \* bound: how often a gateway is started
    MaxFaults        \* bound: lost connections and killed processes

ASSUME BoundsAssumption ==
    /\ ChanSize \in Nat \ {0}
    /\ {MaxErrors, MaxDisconnects, MaxStarts, MaxFaults} \subseteq Nat

VARIABLES
    \* at the ZooKeeper servers
    tree,      \* does the path of the members exist
    node,      \* the node of a gateway: none, of its own session, of an old one
    watch,     \* its watch on the list: "none", "set", "missed" or "fired"
    \* the process of a gateway
    up,        \* does it run
    starts,
    conn,      \* is it connected to ZooKeeper
    sess,      \* its session, as the servers see it; a later one is "renewed"
    discs,     \* disconnectedCount of zookeeperEventHandler
    reg,       \* the goroutine that calls Register
    loop,      \* the goroutine of MemberListCallback
    errs,      \* its consecutiveErrors
    curr,      \* its currentMembers
    told,      \* its previousMembers, with what it has called back since
    chan,      \* control messages on their way to the connection manager
    targets,   \* the cluster members in the connection manager's map
    faults

zkVars   == <<tree, node, watch>>
connVars == <<conn, sess, discs>>
loopVars == <<loop, errs, curr, told>>
mgrVars  == <<chan, targets>>
vars == <<zkVars, connVars, loopVars, mgrVars, up, starts, reg, faults>>

Message == [op : {"insert", "remove"}, member : Gateway]

TypeOK ==
    /\ tree \in BOOLEAN
    /\ node \in [Gateway -> {"none", "own", "old"}]
    /\ watch \in [Gateway -> {"none", "set", "missed", "fired"}]
    /\ up \in [Gateway -> BOOLEAN]
    /\ starts \in [Gateway -> 0 .. MaxStarts]
    /\ conn \in [Gateway -> BOOLEAN]
    /\ sess \in [Gateway -> {"none", "live", "expired", "renewed"}]
    /\ discs \in [Gateway -> 0 .. MaxDisconnects]
    /\ reg \in [Gateway -> {"off", "create", "parent", "again", "done"}]
    /\ loop \in [Gateway -> {"off", "list", "path", "sleep", "diff", "wait"}]
    /\ errs \in [Gateway -> 0 .. MaxErrors + 1]
    /\ curr \in [Gateway -> SUBSET Gateway]
    /\ told \in [Gateway -> SUBSET Gateway]
    /\ chan \in [Gateway -> Seq(Message)]
    /\ \A g \in Gateway : Len(chan[g]) <= ChanSize
    /\ targets \in [Gateway -> SUBSET Gateway]
    /\ faults \in 0 .. MaxFaults

Init ==
    /\ tree = FALSE
    /\ node = [g \in Gateway |-> "none"]
    /\ watch = [g \in Gateway |-> "none"]
    /\ up = [g \in Gateway |-> FALSE]
    /\ starts = [g \in Gateway |-> 0]
    /\ conn = [g \in Gateway |-> FALSE]
    /\ sess = [g \in Gateway |-> "none"]
    /\ discs = [g \in Gateway |-> 0]
    /\ reg = [g \in Gateway |-> "off"]
    /\ loop = [g \in Gateway |-> "off"]
    /\ errs = [g \in Gateway |-> 0]
    /\ curr = [g \in Gateway |-> {}]
    /\ told = [g \in Gateway |-> {}]
    /\ chan = [g \in Gateway |-> <<>>]
    /\ targets = [g \in Gateway |-> {}]
    /\ faults = 0

Live(g) == sess[g] \in {"live", "renewed"}

Members == {g \in Gateway : node[g] # "none"}

\* A node comes or goes: every watch that is set fires; a client that is not
\* connected hears of it when it is connected again.
SetNode(g, state) ==
    /\ node' = [node EXCEPT ![g] = state]
    /\ watch' = [h \in Gateway |->
                    IF watch[h] # "set" \/ (state = "none" <=> node[g] = "none")
                    THEN watch[h]
                    ELSE IF conn[h] THEN "fired" ELSE "missed"]

-----------------------------------------------------------------------------
(* The process. *)

\* StartGateway: the goroutines that register the gateway and that load the
\* cluster's targets begin at once, whether ZooKeeper is connected or not.
Start(g) ==
    /\ ~up[g] /\ starts[g] < MaxStarts
    /\ up' = [up EXCEPT ![g] = TRUE]
    /\ starts' = [starts EXCEPT ![g] = @ + 1]
    /\ reg' = [reg EXCEPT ![g] = "create"]
    /\ loop' = [loop EXCEPT ![g] = "list"]
    /\ UNCHANGED <<zkVars, connVars, errs, curr, told, mgrVars, faults>>

\* Whatever ends the process, its memory is gone.
Forget(g) ==
    /\ up' = [up EXCEPT ![g] = FALSE]
    /\ conn' = [conn EXCEPT ![g] = FALSE]
    /\ sess' = [sess EXCEPT ![g] = "none"]
    /\ discs' = [discs EXCEPT ![g] = 0]
    /\ reg' = [reg EXCEPT ![g] = "off"]
    /\ loop' = [loop EXCEPT ![g] = "off"]
    /\ errs' = [errs EXCEPT ![g] = 0]
    /\ curr' = [curr EXCEPT ![g] = {}]
    /\ told' = [told EXCEPT ![g] = {}]
    /\ chan' = [chan EXCEPT ![g] = <<>>]
    /\ targets' = [targets EXCEPT ![g] = {}]
    /\ UNCHANGED <<tree, starts>>

\* Its node stays until its session has expired.
Leave(g) ==
    /\ node' = [node EXCEPT ![g] = IF @ = "own" THEN "old" ELSE @]
    /\ watch' = [watch EXCEPT ![g] = "none"]

Killed(g) ==
    /\ up[g] /\ faults < MaxFaults
    /\ faults' = faults + 1
    /\ Forget(g) /\ Leave(g)

-----------------------------------------------------------------------------
(* The ZooKeeper client, and zookeeperEventHandler. *)

\* A session is made or resumed; a new one has lost the watches of the old one,
\* which fire.
Connect(g) ==
    /\ up[g] /\ ~conn[g]
    /\ conn' = [conn EXCEPT ![g] = TRUE]
    /\ sess' = [sess EXCEPT ![g] = CASE @ = "none" -> "live"
                                      [] @ = "expired" -> "renewed"
                                      [] OTHER -> @]
    /\ discs' = [discs EXCEPT ![g] = 0]
    /\ watch' = [watch EXCEPT ![g] =
                    IF @ = "missed" \/ (@ = "set" /\ ~Live(g)) THEN "fired" ELSE @]
    /\ UNCHANGED <<tree, node, loopVars, mgrVars, up, starts, reg, faults>>

Disconnected(g) ==
    \/ /\ discs[g] < MaxDisconnects
       /\ discs' = [discs EXCEPT ![g] = @ + 1]
       /\ conn' = [conn EXCEPT ![g] = FALSE]
       /\ UNCHANGED <<zkVars, sess, loopVars, mgrVars, up, starts, reg>>
    \/ /\ discs[g] = MaxDisconnects
       /\ Forget(g) /\ Leave(g)

Drop(g) ==
    /\ conn[g] /\ faults < MaxFaults
    /\ faults' = faults + 1
    /\ Disconnected(g)

\* A server accepts the connection and gives no session.
Refused(g) ==
    /\ up[g] /\ ~conn[g]
    /\ Disconnected(g)
    /\ UNCHANGED faults

Expire(g) ==
    /\ up[g] /\ ~conn[g] /\ Live(g)
    /\ sess' = [sess EXCEPT ![g] = "expired"]
    /\ SetNode(g, IF node[g] = "own" THEN "none" ELSE node[g])
    /\ UNCHANGED <<tree, conn, discs, loopVars, mgrVars, up, starts, reg, faults>>

ExpireOld(g) ==
    /\ node[g] = "old"
    /\ SetNode(g, "none")
    /\ UNCHANGED <<tree, connVars, loopVars, mgrVars, up, starts, reg, faults>>

-----------------------------------------------------------------------------
(* Register *)

RegisterAt(g, p) == reg' = [reg EXCEPT ![g] = p]

\* Mutant: a node that exists already is taken for its own.
CreateAnyNode(g) ==
    /\ reg[g] \in {"create", "again"} /\ conn[g] /\ tree
    /\ IF node[g] = "none" THEN SetNode(g, "own") ELSE UNCHANGED <<node, watch>>
    /\ RegisterAt(g, "done")
    /\ UNCHANGED <<tree, connVars, loopVars, mgrVars, up, starts, faults>>

Create(g) ==
    /\ reg[g] \in {"create", "again"} /\ conn[g] /\ tree
    /\ node[g] = "none"
    /\ SetNode(g, "own")
    /\ RegisterAt(g, "done")
    /\ UNCHANGED <<tree, connVars, loopVars, mgrVars, up, starts, faults>>

CreateNoNode(g) ==
    /\ reg[g] = "create" /\ conn[g] /\ ~tree
    /\ RegisterAt(g, "parent")
    /\ UNCHANGED <<zkVars, connVars, loopVars, mgrVars, up, starts, faults>>

\* createPath; that another member has made the path meanwhile is no error.
CreateParentPath(g) ==
    /\ reg[g] = "parent" /\ conn[g]
    /\ tree' = TRUE
    /\ RegisterAt(g, "again")
    /\ UNCHANGED <<node, watch, connVars, loopVars, mgrVars, up, starts, faults>>

\* Any other error goes to the channel finished, and StartGateway returns: the
\* node exists, or there is no connection.
RegisterFails(g) ==
    /\ reg[g] \in {"create", "parent", "again"}
    /\ ~conn[g] \/ (tree /\ node[g] # "none" /\ reg[g] # "parent")
    /\ Forget(g) /\ Leave(g)
    /\ UNCHANGED faults

\* The node is made and the connection lost before the answer: an error too.
CreateReplyLost(g) ==
    /\ reg[g] \in {"create", "again"} /\ conn[g] /\ tree
    /\ node[g] = "none" /\ faults < MaxFaults
    /\ faults' = faults + 1
    /\ node' = [node EXCEPT ![g] = "old"]
    /\ watch' = [h \in Gateway |->
                    IF h = g THEN "none"
                    ELSE IF watch[h] # "set" THEN watch[h]
                    ELSE IF conn[h] THEN "fired" ELSE "missed"]
    /\ Forget(g)

Register(g) ==
    Create(g) \/ CreateNoNode(g) \/ CreateParentPath(g) \/ RegisterFails(g)

-----------------------------------------------------------------------------
(* MemberListCallback, and the callback of the cluster loader. *)

\* Mutant: the list is read before the watch is set, as Children and then
\* ChildrenW would; what changes between the two is never seen.
ChildrenWithoutWatch(g) ==
    /\ loop[g] = "list" /\ errs[g] <= MaxErrors
    /\ conn[g] /\ tree
    /\ curr' = [curr EXCEPT ![g] = Members \ {g}]
    /\ errs' = [errs EXCEPT ![g] = 0]
    /\ loop' = [loop EXCEPT ![g] = "diff"]
    /\ UNCHANGED <<zkVars, connVars, told, mgrVars, up, starts, reg, faults>>

\* Mutant: a member that has gone stays in the list.
ChildrenNeverGone(g) ==
    /\ loop[g] = "list" /\ errs[g] <= MaxErrors
    /\ conn[g] /\ tree
    /\ curr' = [curr EXCEPT ![g] = @ \cup (Members \ {g})]
    /\ watch' = [watch EXCEPT ![g] = "set"]
    /\ errs' = [errs EXCEPT ![g] = 0]
    /\ loop' = [loop EXCEPT ![g] = "diff"]
    /\ UNCHANGED <<tree, node, connVars, told, mgrVars, up, starts, reg, faults>>

\* The list and the watch are one request; the gateway itself is left out.
ChildrenW(g) ==
    /\ loop[g] = "list" /\ errs[g] <= MaxErrors
    /\ conn[g] /\ tree
    /\ curr' = [curr EXCEPT ![g] = Members \ {g}]
    /\ watch' = [watch EXCEPT ![g] = "set"]
    /\ errs' = [errs EXCEPT ![g] = 0]
    /\ loop' = [loop EXCEPT ![g] = "diff"]
    /\ UNCHANGED <<tree, node, connVars, told, mgrVars, up, starts, reg, faults>>

ChildrenNoNode(g) ==
    /\ loop[g] = "list" /\ errs[g] <= MaxErrors
    /\ conn[g] /\ ~tree
    /\ loop' = [loop EXCEPT ![g] = "path"]
    /\ UNCHANGED <<zkVars, connVars, errs, curr, told, mgrVars, up, starts, reg, faults>>

\* A missing path is made, and counted as an error all the same; if it cannot be
\* made there is no sleep.
CreatePath(g) ==
    /\ loop[g] = "path"
    /\ errs' = [errs EXCEPT ![g] = @ + 1]
    /\ \/ /\ conn[g]
          /\ tree' = TRUE
          /\ loop' = [loop EXCEPT ![g] = "sleep"]
       \/ /\ ~conn[g]
          /\ loop' = [loop EXCEPT ![g] = "list"]
          /\ UNCHANGED tree
    /\ UNCHANGED <<node, watch, connVars, curr, told, mgrVars, up, starts, reg, faults>>

ChildrenFails(g) ==
    /\ loop[g] = "list" /\ errs[g] <= MaxErrors
    /\ ~conn[g]
    /\ errs' = [errs EXCEPT ![g] = @ + 1]
    /\ loop' = [loop EXCEPT ![g] = "sleep"]
    /\ UNCHANGED <<zkVars, connVars, curr, told, mgrVars, up, starts, reg, faults>>

TooManyErrors(g) ==
    /\ loop[g] = "list" /\ errs[g] > MaxErrors
    /\ Forget(g) /\ Leave(g)
    /\ UNCHANGED faults

Sleep(g) ==
    /\ loop[g] = "sleep"
    /\ loop' = [loop EXCEPT ![g] = "list"]
    /\ UNCHANGED <<zkVars, connVars, errs, curr, told, mgrVars, up, starts, reg, faults>>

\* Mutant: the channel has no limit.
SendUnbounded(g, op, m) ==
    /\ chan' = [chan EXCEPT ![g] = Append(@, [op |-> op, member |-> m])]
    /\ UNCHANGED <<zkVars, connVars, loop, errs, curr, targets, up, starts, reg, faults>>

\* A callback puts a message into the channel, and waits while it is full.
Send(g, op, m) ==
    /\ Len(chan[g]) < ChanSize
    /\ chan' = [chan EXCEPT ![g] = Append(@, [op |-> op, member |-> m])]
    /\ UNCHANGED <<zkVars, connVars, loop, errs, curr, targets, up, starts, reg, faults>>

\* Mutant: whoever is in the list is added, also the members told of before.
AddAgain(g) ==
    /\ loop[g] = "diff"
    /\ \E m \in curr[g] :
          /\ Send(g, "insert", m)
          /\ told' = [told EXCEPT ![g] = @ \cup {m}]

Add(g) ==
    /\ loop[g] = "diff"
    /\ \E m \in curr[g] \ told[g] :
          /\ Send(g, "insert", m)
          /\ told' = [told EXCEPT ![g] = @ \cup {m}]

\* Mutant: a member that has gone is forgotten before it is told.
RemoveUntold(g) ==
    /\ loop[g] = "diff" /\ curr[g] \subseteq told[g]
    /\ \E m \in told[g] \ curr[g] :
          /\ UNCHANGED <<chan, zkVars, connVars, loop, errs, curr, targets, up, starts,
                         reg, faults>>
          /\ told' = [told EXCEPT ![g] = @ \ {m}]

\* Removals follow the additions.
Remove(g) ==
    /\ loop[g] = "diff" /\ curr[g] \subseteq told[g]
    /\ \E m \in told[g] \ curr[g] :
          /\ Send(g, "remove", m)
          /\ told' = [told EXCEPT ![g] = @ \ {m}]

\* previousMembers is now currentMembers.
AllTold(g) ==
    /\ loop[g] = "diff" /\ told[g] = curr[g]
    /\ loop' = [loop EXCEPT ![g] = "wait"]
    /\ UNCHANGED <<zkVars, connVars, errs, curr, told, mgrVars, up, starts, reg, faults>>

Wake(g) ==
    /\ loop[g] = "wait" /\ watch[g] = "fired"
    /\ watch' = [watch EXCEPT ![g] = "none"]
    /\ loop' = [loop EXCEPT ![g] = "list"]
    /\ UNCHANGED <<tree, node, connVars, errs, curr, told, mgrVars, up, starts, reg,
                   faults>>

MemberListCallback(g) ==
    \/ ChildrenW(g) \/ ChildrenNoNode(g) \/ CreatePath(g) \/ ChildrenFails(g)
    \/ TooManyErrors(g) \/ Sleep(g) \/ Add(g) \/ Remove(g) \/ AllTold(g) \/ Wake(g)

-----------------------------------------------------------------------------
\* ReloadTargets takes the messages in turn.  What handling one of them does to
\* a connection is the subject of Connections.
ReloadTargets(g) ==
    /\ chan[g] # <<>>
    /\ LET msg == Head(chan[g]) IN
          targets' = [targets EXCEPT ![g] = IF msg.op = "insert" THEN @ \cup {msg.member}
                                                                ELSE @ \ {msg.member}]
    /\ chan' = [chan EXCEPT ![g] = Tail(@)]
    /\ UNCHANGED <<zkVars, connVars, loopVars, up, starts, reg, faults>>

Fault(g) == Killed(g) \/ Drop(g) \/ CreateReplyLost(g)

Next ==
    \E g \in Gateway :
        \/ Start(g) \/ Fault(g) \/ Connect(g) \/ Refused(g) \/ Expire(g) \/ ExpireOld(g)
        \/ Register(g) \/ MemberListCallback(g) \/ ReloadTargets(g)

Spec == Init /\ [][Next]_vars

\* Goroutines run, the client connects again, and the servers expire the session
\* of a process that has ended.  Nothing is assumed of starts and of faults.
Fairness ==
    \A g \in Gateway :
        /\ WF_vars(Connect(g)) /\ WF_vars(ExpireOld(g)) /\ WF_vars(Register(g))
        /\ WF_vars(MemberListCallback(g)) /\ WF_vars(ReloadTargets(g))

FairSpec == Spec /\ Fairness

-----------------------------------------------------------------------------
(* Properties. *)

Inserts(g, m) == {i \in DOMAIN chan[g] : chan[g][i] = [op |-> "insert", member |-> m]}
Removes(g, m) == {i \in DOMAIN chan[g] : chan[g][i] = [op |-> "remove", member |-> m]}

\* What the goroutine of MemberListCallback remembers is what the connection
\* manager will have when it has taken the messages under way: the messages are
\* increments, nothing is ever sent twice, and so one that was lost, repeated or
\* overtaken would stay wrong for ever (zookeeper.go:123-147, cluster.go:85-137).
NoDrift ==
    \A g, m \in Gateway :
        LET own == Inserts(g, m) \cup Removes(g, m) IN
        IF own = {}
        THEN m \in targets[g] <=> m \in told[g]
        ELSE \A i \in own :
                \/ \E j \in own : j > i
                \/ i \in Inserts(g, m) <=> m \in told[g]

\* The callback is called once for each member that comes or goes
\* (clustering.go:32-33): what is inserted is not in the map, and what is
\* removed is.  Were it not, Equal would hide it and a drift would follow.
OncePerChange ==
    \A g \in Gateway :
        chan[g] # <<>> =>
            (Head(chan[g]).op = "insert" <=> Head(chan[g]).member \notin targets[g])

\* While the goroutine waits with its watch set, the list it has read is that of
\* the servers: no change falls between the read and the watch, also across a
\* lost connection or a new session (zookeeper.go:93-149).
WatchCoversList ==
    \A g \in Gateway :
        watch[g] = "set" /\ Live(g) => curr[g] = Members \ {g}

\* From the moment the list is read the goroutine has a watch, which nothing but its
\* own Wake or the end of the process takes away; and it waits only when it has
\* called back about all of the list (zookeeper.go:93-149).
WaitsForWatch ==
    \A g \in Gateway :
        /\ loop[g] \in {"diff", "wait"} => watch[g] # "none"
        /\ loop[g] = "wait" => told[g] = curr[g]

\* When the goroutine waits and the connection manager has taken all messages, the
\* map has the other members and nobody else, unless a change is about to wake
\* the goroutine or the session is lost: what the map lacks it does not lack for
\* ever (zookeeper.go:93-156, cluster.go:85-137).
MapIsRight ==
    \A g \in Gateway :
        /\ loop[g] = "wait" /\ chan[g] = <<>>
        /\ Live(g) /\ watch[g] \notin {"fired", "missed"}
        => targets[g] = Members \ {g}

\* A gateway that has registered is a member as long as its first session lasts, and
\* the end of an older session of the same address does not take the node away
\* (zookeeper.go:57-79).
RegisteredInSession ==
    \A g \in Gateway :
        reg[g] = "done" /\ sess[g] = "live" => node[g] = "own"

\* When the faults have ended, every gateway that still runs gets to have all
\* other members in its map, and nobody else (zookeeper.go:82-156,
\* cluster.go:85-137).
MapConverges ==
    \A g \in Gateway : <>[](up[g] => targets[g] = Members \ {g})

-----------------------------------------------------------------------------
(* What comments of the repository say, and the code does not do.          *)

\* "Once a cluster member is registered it should stay registered as long as the
\* cluster member is alive" (clustering.go:37-38).
StaysRegistered ==
    \A g \in Gateway :
        [](up[g] /\ reg[g] = "done" => <>(node[g] = "own" \/ ~up[g]))
=============================================================================
