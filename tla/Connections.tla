---------------------------- MODULE Connections ----------------------------
(***************************************************************************)
(* The connection managers of a cluster (gateway/connections): what each   *)
(* gateway does with the target configurations it is sent, the goroutine   *)
(* of each ConnectionState (connect and connectWithLock), the connection   *)
(* slots, and the listener for ZooKeeper's connection events.              *)
(*                                                                         *)
(* The lock of a target is abstract: ZkLock shows how it is implemented,   *)
(* and in which ways an instance can come to lose it.  client.Reconnect of *)
(* the gnmi library is external: its Subscribe returns once its context is *)
(* cancelled or its client closed, and reconnects for ever otherwise.      *)
(***************************************************************************)
EXTENDS Integers, FiniteSets

CONSTANTS
    Gateway,      \* the gateways of the cluster
    Name,         \* target names
    Locked,       \* the names that are locked: clustering is on, no NoLock
    Config,       \* target configurations that Equal tells apart
    BadConfig,    \* those for which NewQuery or Validate returns an error
    Obj,          \* identities of the ConnectionStates that are ever made
    TargetLimit,  \* connection slots of a gateway
    None,         \* no ConnectionState, no configuration
    MaxMsgs,      \* bound: messages sent to one gateway
    MaxFaults     \* bound: ZooKeeper disconnections and locks lost

ASSUME NamesAssumption  == Locked \subseteq Name /\ BadConfig \subseteq Config
ASSUME NoneAssumption   == None \notin Obj \cup Config \cup Name \cup Gateway
ASSUME FiniteAssumption == IsFiniteSet(Obj) /\ IsFiniteSet(Name)
ASSUME LimitAssumption  == TargetLimit \in Nat /\ MaxMsgs \in Nat /\ MaxFaults \in Nat

VARIABLES
    \* per gateway
    connections,  \* c.connections: the ConnectionState of each name, or None
    slotsFree,    \* what is left of c.connLimit
    msgs,         \* messages received
    removing,     \* names of the current message still to be removed
    inserting,    \* its configurations still to be inserted, or None
    closing,      \* the ConnectionState whose client is to be closed next
    resetting,    \* those the event listener has still to unlock
    zk,           \* is the gateway connected to ZooKeeper
    events,       \* StateDisconnected events not yet handled
    crashed,      \* which operation panicked, or "no"
    faults,
    \* per ConnectionState
    pc,           \* where its goroutine is; "new" before it is made
    owner,        \* its gateway and
    name,         \* its name
    target,       \* t.target
    stopped,      \* t.stopped
    slot,         \* connectionSlotAcquired
    lock,         \* "none", "held", or "lost": t.lock has a path without a node
    connLock,     \* t.ConnectionLockAcquired
    cancel,       \* t.clientCancel: "nil", or the state of its context
    client,       \* t.client: "nil", "open" or "closed"
    query         \* has doConnect set t.queryTarget

mgrVars  == <<connections, removing, inserting, closing, resetting, msgs>>
envVars  == <<zk, events, faults>>
idVars   == <<owner, name>>
connVars == <<target, stopped, cancel, client>>
lockVars == <<lock, connLock>>
vars == <<mgrVars, envVars, idVars, connVars, lockVars, slotsFree, slot, pc, query, crashed>>

PC == {"new", "loop", "try", "prep", "context", "client", "subscribed",
       "after", "clear", "ended"}

TypeOK ==
    /\ connections \in [Gateway -> [Name -> Obj \cup {None}]]
    /\ slotsFree \in [Gateway -> 0 .. TargetLimit]
    /\ msgs \in [Gateway -> 0 .. MaxMsgs]
    /\ removing \in [Gateway -> SUBSET Name]
    /\ inserting \in [Gateway -> [Name -> Config \cup {None}]]
    /\ closing \in [Gateway -> Obj \cup {None}]
    /\ resetting \in [Gateway -> SUBSET Obj]
    /\ zk \in [Gateway -> BOOLEAN]
    /\ events \in [Gateway -> 0 .. MaxFaults]
    /\ crashed \in [Gateway -> {"no", "remove", "update", "zookeeper"}]
    /\ faults \in 0 .. MaxFaults
    /\ pc \in [Obj -> PC]
    /\ owner \in [Obj -> Gateway \cup {None}]
    /\ name \in [Obj -> Name \cup {None}]
    /\ target \in [Obj -> Config \cup {None}]
    /\ stopped \in [Obj -> BOOLEAN]
    /\ slot \in [Obj -> BOOLEAN]
    /\ lock \in [Obj -> {"none", "held", "lost"}]
    /\ connLock \in [Obj -> BOOLEAN]
    /\ cancel \in [Obj -> {"nil", "live", "cancelled"}]
    /\ client \in [Obj -> {"nil", "open", "closed"}]
    /\ query \in [Obj -> BOOLEAN]

Nothing == [n \in Name |-> None]

Init ==
    /\ connections = [g \in Gateway |-> Nothing]
    /\ slotsFree = [g \in Gateway |-> TargetLimit]
    /\ msgs = [g \in Gateway |-> 0]
    /\ removing = [g \in Gateway |-> {}]
    /\ inserting = [g \in Gateway |-> Nothing]
    /\ closing = [g \in Gateway |-> None]
    /\ resetting = [g \in Gateway |-> {}]
    /\ zk = [g \in Gateway |-> TRUE]
    /\ events = [g \in Gateway |-> 0]
    /\ crashed = [g \in Gateway |-> "no"]
    /\ faults = 0
    /\ pc = [o \in Obj |-> "new"]
    /\ owner = [o \in Obj |-> None]
    /\ name = [o \in Obj |-> None]
    /\ target = [o \in Obj |-> None]
    /\ stopped = [o \in Obj |-> FALSE]
    /\ slot = [o \in Obj |-> FALSE]
    /\ lock = [o \in Obj |-> "none"]
    /\ connLock = [o \in Obj |-> FALSE]
    /\ cancel = [o \in Obj |-> "nil"]
    /\ client = [o \in Obj |-> "nil"]
    /\ query = [o \in Obj |-> FALSE]

Runs(g) == crashed[g] = "no"
UseLock(o) == name[o] \in Locked

\* connectionsMutex is held by the manager, or by the event listener.
ManagerBusy(g) == removing[g] # {} \/ inserting[g] # Nothing \/ closing[g] # None
MutexFree(g) == ~ManagerBusy(g) /\ resetting[g] = {}

-----------------------------------------------------------------------------
(* handleTargetControlMsg, under connectionsMutex.  Each access to a field *)
(* that the ConnectionState's goroutine also uses is a step.               *)

\* A message arrives.  What it removes and does not exist is skipped; what it
\* inserts and has not changed is skipped (Insert below).
HandleTargetControlMsg(g) ==
    /\ Runs(g)
    /\ MutexFree(g)
    /\ msgs[g] < MaxMsgs
    /\ \E rs \in SUBSET Name, is \in [Name -> Config \cup {None}] :
          /\ rs # {} \/ is # Nothing
          /\ removing' = [removing EXCEPT ![g] = {n \in rs : connections[g][n] # None}]
          /\ inserting' = [inserting EXCEPT ![g] = is]
    /\ msgs' = [msgs EXCEPT ![g] = @ + 1]
    /\ UNCHANGED <<connections, closing, resetting, envVars, idVars, connVars,
                   lockVars, slotsFree, slot, pc, crashed, query>>

\* disconnect sets stopped ...
Disconnect(g, n) ==
    /\ Runs(g)
    /\ n \in removing[g]
    /\ closing[g] = None
    /\ stopped' = [stopped EXCEPT ![connections[g][n]] = TRUE]
    /\ closing' = [closing EXCEPT ![g] = connections[g][n]]
    /\ UNCHANGED <<connections, removing, inserting, resetting, msgs, envVars,
                   idVars, target, cancel, client, lockVars, slotsFree,
                   slot, pc, crashed, query>>

\* ... and closes the client, whatever client that is by now.  There is none
\* before doConnect has made the first one: a nil dereference.
Close(g, o) ==
    IF client[o] = "nil"
    THEN crashed' = [crashed EXCEPT ![g] = IF stopped[o] THEN "remove" ELSE "update"]
         /\ UNCHANGED client
    ELSE client' = [client EXCEPT ![o] = "closed"] /\ UNCHANGED crashed
\* Mutant: the entry of the map is forgotten.
DisconnectCloseKeepsEntry(g) ==
    /\ Runs(g)
    /\ closing[g] # None
    /\ stopped[closing[g]]
    /\ Close(g, closing[g])
    /\ removing' = [removing EXCEPT ![g] = @ \ {name[closing[g]]}]
    /\ closing' = [closing EXCEPT ![g] = None]
    /\ UNCHANGED <<connections, inserting, resetting, msgs, envVars, idVars, target,
                   stopped, cancel, lockVars, slotsFree, slot, pc, query>>

DisconnectClose(g) ==
    /\ Runs(g)
    /\ closing[g] # None
    /\ stopped[closing[g]]
    /\ Close(g, closing[g])
    /\ connections' = [connections EXCEPT ![g][name[closing[g]]] = None]
    /\ removing' = [removing EXCEPT ![g] = @ \ {name[closing[g]]}]
    /\ closing' = [closing EXCEPT ![g] = None]
    /\ UNCHANGED <<inserting, resetting, msgs, envVars, idVars, target, stopped,
                   cancel, lockVars, slotsFree, slot, pc, query>>

\* An insertion begins once everything has been removed.
Inserts(g, n) ==
    /\ Runs(g)
    /\ removing[g] = {}
    /\ closing[g] = None
    /\ inserting[g][n] # None

Inserted(g, n) == inserting' = [inserting EXCEPT ![g][n] = None]

\* The identities that are left; it does not matter which of them is next.
Unused == {o \in Obj : pc[o] = "new"}

\* The name is new: a ConnectionState is made and its goroutine started.
InsertNew(g, n) ==
    /\ Inserts(g, n)
    /\ connections[g][n] = None
    /\ Unused # {}
    /\ LET o == CHOOSE o \in Unused : TRUE IN
          /\ connections' = [connections EXCEPT ![g][n] = o]
          /\ owner' = [owner EXCEPT ![o] = g]
          /\ name' = [name EXCEPT ![o] = n]
          /\ target' = [target EXCEPT ![o] = inserting[g][n]]
          /\ pc' = [pc EXCEPT ![o] = "loop"]
    /\ Inserted(g, n)
    /\ UNCHANGED <<removing, closing, resetting, msgs, envVars, stopped, cancel,
                   client, lockVars, slotsFree, slot, crashed, query>>

\* Equal: nothing is done.
InsertSame(g, n) ==
    /\ Inserts(g, n)
    /\ connections[g][n] # None
    /\ target[connections[g][n]] = inserting[g][n]
    /\ Inserted(g, n)
    /\ UNCHANGED <<connections, removing, closing, resetting, msgs, envVars, idVars,
                   connVars, lockVars, slotsFree, slot, pc, crashed, query>>

\* Not Equal: the configuration is replaced ...
InsertChanged(g, n) ==
    /\ Inserts(g, n)
    /\ connections[g][n] # None
    /\ target[connections[g][n]] # inserting[g][n]
    /\ target' = [target EXCEPT ![connections[g][n]] = inserting[g][n]]
    /\ closing' = [closing EXCEPT ![g] = connections[g][n]]
    /\ Inserted(g, n)
    /\ UNCHANGED <<connections, removing, resetting, msgs, envVars, idVars, stopped,
                   cancel, client, lockVars, slotsFree, slot, pc, crashed, query>>

\* ... and reconnect closes the client.
Reconnect(g) ==
    /\ Runs(g)
    /\ closing[g] # None
    /\ ~stopped[closing[g]]
    /\ Close(g, closing[g])
    /\ closing' = [closing EXCEPT ![g] = None]
    /\ UNCHANGED <<connections, removing, inserting, resetting, msgs, envVars, idVars,
                   target, stopped, cancel, lockVars, slotsFree, slot, pc, query>>

Manager(g) ==
    \/ \E n \in Name : Disconnect(g, n) \/ InsertNew(g, n) \/ InsertSame(g, n)
                       \/ InsertChanged(g, n)
    \/ DisconnectClose(g) \/ Reconnect(g)

-----------------------------------------------------------------------------
(* eventListener *)

\* Mutant: the listener does not take connectionsMutex.
EventDisconnectedUnguarded(g) ==
    /\ Runs(g)
    /\ events[g] > 0
    /\ events' = [events EXCEPT ![g] = @ - 1]
    /\ resetting' = [resetting EXCEPT ![g] =
                        {connections[g][n] : n \in Locked} \ {None}]
    /\ UNCHANGED <<connections, removing, inserting, closing, msgs, zk, faults,
                   idVars, connVars, lockVars, slotsFree, slot, pc, crashed, query>>

EventDisconnected(g) ==
    /\ Runs(g)
    /\ MutexFree(g)
    /\ events[g] > 0
    /\ events' = [events EXCEPT ![g] = @ - 1]
    /\ resetting' = [resetting EXCEPT ![g] =
                        {connections[g][n] : n \in Locked} \ {None}]
    /\ UNCHANGED <<connections, removing, inserting, closing, msgs, zk, faults,
                   idVars, connVars, lockVars, slotsFree, slot, pc, crashed, query>>

\* unlock calls clientCancel, which is nil before the first doConnect.
Unlock(g, o) ==
    /\ Runs(g)
    /\ o \in resetting[g]
    /\ resetting' = [resetting EXCEPT ![g] = @ \ {o}]
    /\ \/ /\ cancel[o] = "nil"
          /\ crashed' = [crashed EXCEPT ![g] = "zookeeper"]
          /\ UNCHANGED cancel
       \/ /\ cancel[o] # "nil"
          /\ cancel' = [cancel EXCEPT ![o] = "cancelled"]
          /\ UNCHANGED crashed
    /\ UNCHANGED <<connections, removing, inserting, closing, msgs, envVars, idVars,
                   target, stopped, client, lockVars, slotsFree, slot, pc, query>>

Listener(g) == EventDisconnected(g) \/ \E o \in Obj : Unlock(g, o)

-----------------------------------------------------------------------------
(* connect and connectWithLock: the goroutine of a ConnectionState. *)

Goto(o, p) == pc' = [pc EXCEPT ![o] = p]
At(o, p) == pc[o] = p /\ Runs(owner[o])
\* Mutant: a round goes on whether or not the slot has been acquired.
LoopRoundAnyway(o) ==
    /\ At(o, "loop")
    /\ ~stopped[o]
    /\ \/ (slot[o] \/ slotsFree[owner[o]] = 0) /\ UNCHANGED <<slot, slotsFree>>
       \/ /\ ~slot[o]
          /\ slotsFree[owner[o]] > 0
          /\ slot' = [slot EXCEPT ![o] = TRUE]
          /\ slotsFree' = [slotsFree EXCEPT ![owner[o]] = @ - 1]
    /\ Goto(o, IF UseLock(o) /\ ~connLock[o] THEN "try" ELSE "prep")
    /\ UNCHANGED <<mgrVars, envVars, idVars, connVars, lockVars, crashed, query>>

\* Mutant: the loop goes on although it has been stopped.
LoopRoundStopped(o) ==
    /\ At(o, "loop")
    /\ \/ slot[o] /\ UNCHANGED <<slot, slotsFree>>
       \/ /\ ~slot[o]
          /\ slotsFree[owner[o]] > 0
          /\ slot' = [slot EXCEPT ![o] = TRUE]
          /\ slotsFree' = [slotsFree EXCEPT ![owner[o]] = @ - 1]
    /\ Goto(o, IF UseLock(o) /\ ~connLock[o] THEN "try" ELSE "prep")
    /\ UNCHANGED <<mgrVars, envVars, idVars, connVars, lockVars, crashed, query>>

\* The head of the loop: the slot is tried for once in each round.
LoopRound(o) ==
    /\ At(o, "loop")
    /\ ~stopped[o]
    /\ \/ slot[o] /\ UNCHANGED <<slot, slotsFree>>
       \/ /\ ~slot[o]
          /\ slotsFree[owner[o]] > 0
          /\ slot' = [slot EXCEPT ![o] = TRUE]
          /\ slotsFree' = [slotsFree EXCEPT ![owner[o]] = @ - 1]
    /\ Goto(o, IF UseLock(o) /\ ~connLock[o] THEN "try" ELSE "prep")
    /\ UNCHANGED <<mgrVars, envVars, idVars, connVars, lockVars, crashed, query>>

\* Mutant: the slot is released whether or not it was acquired.
LoopEndsReleases(o) ==
    /\ At(o, "loop")
    /\ stopped[o]
    /\ slot' = [slot EXCEPT ![o] = FALSE]
    /\ slotsFree' = [slotsFree EXCEPT ![owner[o]] = @ + 1]
    /\ Goto(o, "ended")
    /\ UNCHANGED <<mgrVars, envVars, idVars, connVars, lockVars, crashed, query>>

\* Mutant: the slot is not released.
LoopEndsKeepsSlot(o) ==
    /\ At(o, "loop")
    /\ stopped[o]
    /\ slot' = [slot EXCEPT ![o] = FALSE]
    /\ Goto(o, "ended")
    /\ UNCHANGED <<mgrVars, envVars, idVars, connVars, lockVars, slotsFree, crashed, query>>

LoopEnds(o) ==
    /\ At(o, "loop")
    /\ stopped[o]
    /\ slot' = [slot EXCEPT ![o] = FALSE]
    /\ slotsFree' = [slotsFree EXCEPT ![owner[o]] = IF slot[o] THEN @ + 1 ELSE @]
    /\ Goto(o, "ended")
    /\ UNCHANGED <<mgrVars, envVars, idVars, connVars, lockVars, crashed, query>>

LockFree(n) == \A o \in Obj : name[o] = n => lock[o] # "held"
\* Mutant: the lock is taken from whoever has it.
TryTrueAlways(o) ==
    /\ At(o, "try")
    /\ zk[owner[o]]
    /\ lock' = [lock EXCEPT ![o] = IF @ = "none" THEN "held" ELSE @]
    /\ connLock' = [connLock EXCEPT ![o] = TRUE]
    /\ Goto(o, "prep")
    /\ UNCHANGED <<mgrVars, envVars, idVars, connVars, slotsFree, slot, crashed, query>>

\* Try: true as well if t.lock has a path already, even one without a node.
TryTrue(o) ==
    /\ At(o, "try")
    /\ zk[owner[o]]
    /\ lock[o] # "none" \/ LockFree(name[o])
    /\ lock' = [lock EXCEPT ![o] = IF @ = "none" THEN "held" ELSE @]
    /\ connLock' = [connLock EXCEPT ![o] = TRUE]
    /\ Goto(o, "prep")
    /\ UNCHANGED <<mgrVars, envVars, idVars, connVars, slotsFree, slot, crashed, query>>

TryFalse(o) ==
    /\ At(o, "try")
    /\ ~zk[owner[o]] \/ (lock[o] = "none" /\ ~LockFree(name[o]))
    /\ Goto(o, "loop")
    /\ UNCHANGED <<mgrVars, envVars, idVars, connVars, lockVars, slotsFree, slot,
                   crashed, query>>

\* Mutant: the lock is not released after doConnect.
DoConnectReturnsToLoop(o) == Goto(o, "loop")

\* Only connectWithLock has something to do when doConnect has returned.
DoConnectReturns(o) == Goto(o, IF UseLock(o) THEN "after" ELSE "loop")

\* doConnect: the query is built from the configuration of this moment; queryTarget
\* is set between NewQuery and Validate.
PrepareQuery(o) ==
    /\ At(o, "prep")
    /\ \/ /\ target[o] \in BadConfig
          /\ DoConnectReturns(o)
          /\ \E v \in {query[o], TRUE} : query' = [query EXCEPT ![o] = v]
       \/ /\ target[o] \notin BadConfig
          /\ Goto(o, "context")
          /\ query' = [query EXCEPT ![o] = TRUE]
    /\ UNCHANGED <<mgrVars, envVars, idVars, connVars, lockVars, slotsFree, slot,
                   crashed>>

MakeContext(o) ==
    /\ At(o, "context")
    /\ cancel' = [cancel EXCEPT ![o] = "live"]
    /\ Goto(o, "client")
    /\ UNCHANGED <<mgrVars, envVars, idVars, target, stopped, client, lockVars,
                   slotsFree, slot, crashed, query>>

Subscribe(o) ==
    /\ At(o, "client")
    /\ client' = [client EXCEPT ![o] = "open"]
    /\ Goto(o, "subscribed")
    /\ UNCHANGED <<mgrVars, envVars, idVars, target, stopped, cancel, lockVars,
                   slotsFree, slot, crashed, query>>

SubscribeReturns(o) ==
    /\ At(o, "subscribed")
    /\ cancel[o] = "cancelled" \/ client[o] = "closed"
    /\ DoConnectReturns(o)
    /\ UNCHANGED <<mgrVars, envVars, idVars, connVars, lockVars, slotsFree, slot,
                   crashed, query>>

\* connectWithLock unlocks; Unlock fails without ZooKeeper or without a node.
AfterUnlock(o) ==
    /\ At(o, "after")
    /\ lock' = [lock EXCEPT ![o] = IF @ = "held" /\ zk[owner[o]] THEN "none" ELSE @]
    /\ Goto(o, "clear")
    /\ UNCHANGED <<mgrVars, envVars, idVars, connVars, connLock, slotsFree, slot,
                   crashed, query>>

\* Mutant: the flag stays set once the lock is given back.
AfterClearKeepsFlag(o) ==
    /\ At(o, "clear")
    /\ Goto(o, "loop")
    /\ UNCHANGED <<mgrVars, envVars, idVars, connVars, lockVars, slotsFree, slot, crashed,
                   query>>

AfterClear(o) ==
    /\ At(o, "clear")
    /\ connLock' = [connLock EXCEPT ![o] = FALSE]
    /\ Goto(o, "loop")
    /\ UNCHANGED <<mgrVars, envVars, idVars, connVars, lock, slotsFree, slot, crashed, query>>

Goroutine(o) ==
    \/ LoopRound(o) \/ LoopEnds(o) \/ TryTrue(o) \/ TryFalse(o) \/ PrepareQuery(o)
    \/ MakeContext(o) \/ Subscribe(o) \/ SubscribeReturns(o) \/ AfterUnlock(o)
    \/ AfterClear(o)

\* May the gateway forward what comes from the target: asked under connectionsMutex.
Forwardable(g, n) ==
    /\ Runs(g) /\ MutexFree(g)
    /\ LET o == connections[g][n] IN
          o # None /\ (UseLock(o) => connLock[o]) /\ query[o]

-----------------------------------------------------------------------------
(* ZooKeeper and the end of a process. *)

ZkDown(g) ==
    /\ zk[g] /\ faults < MaxFaults
    /\ faults' = faults + 1
    /\ zk' = [zk EXCEPT ![g] = FALSE]
    /\ events' = [events EXCEPT ![g] = @ + 1]
    /\ UNCHANGED <<mgrVars, idVars, connVars, lockVars, slotsFree, slot, pc, crashed, query>>

ZkUp(g) ==
    /\ ~zk[g]
    /\ zk' = [zk EXCEPT ![g] = TRUE]
    /\ UNCHANGED <<mgrVars, events, faults, idVars, connVars, lockVars, slotsFree, slot,
                   pc, crashed, query>>

\* The lock goes without connectWithLock: watchState releases it, or the session
\* expires and t.lock does not notice.
LoseLock(o) ==
    /\ lock[o] = "held" /\ faults < MaxFaults
    /\ faults' = faults + 1
    /\ \E s \in {"none", "lost"} : lock' = [lock EXCEPT ![o] = s]
    /\ UNCHANGED <<mgrVars, zk, events, idVars, connVars, connLock, slotsFree, slot, pc,
                   crashed, query>>

\* The session of a process that panicked expires.
CrashedSession(o) ==
    /\ owner[o] # None /\ ~Runs(owner[o])
    /\ lock[o] = "held"
    /\ lock' = [lock EXCEPT ![o] = "lost"]
    /\ UNCHANGED <<mgrVars, envVars, idVars, connVars, connLock, slotsFree, slot, pc,
                   crashed, query>>

Next ==
    \/ \E g \in Gateway : HandleTargetControlMsg(g) \/ Manager(g) \/ Listener(g)
                          \/ ZkDown(g) \/ ZkUp(g)
    \/ \E o \in Obj : Goroutine(o) \/ LoseLock(o) \/ CrashedSession(o)

Spec == Init /\ [][Next]_vars

\* Goroutines run, and the ZooKeeper client reconnects.  Nothing is assumed of
\* messages, faults, or the moment at which a session expires.
Fairness ==
    /\ \A g \in Gateway : WF_vars(Manager(g)) /\ WF_vars(Listener(g)) /\ WF_vars(ZkUp(g))
    /\ \A o \in Obj : WF_vars(Goroutine(o)) /\ WF_vars(CrashedSession(o))

FairSpec == Spec /\ Fairness

-----------------------------------------------------------------------------
(* Properties. *)

\* Every slot is free or held by exactly one goroutine of the gateway: none is
\* lost or released twice, on any path through the loops (state.go:218-273).
SlotsAccounted ==
    \A g \in Gateway :
        slotsFree[g] + Cardinality({o \in Obj : owner[o] = g /\ slot[o]}) = TargetLimit

\* A goroutine that works on a connection has a slot: from Try to the unlocking
\* (state.go:242-268), so a gateway has at most TargetLimit connections.
WorkNeedsSlot ==
    \A o \in Obj : pc[o] \notin {"new", "loop", "ended"} \/ connLock[o] => slot[o]

\* A ConnectionState is in the map if and only if it has not been stopped: a
\* goroutine that is not in the map can be reached by no message any more
\* (zookeeper.go:129-139, 156-181).
MapOwnsRunning ==
    \A o \in Obj : pc[o] # "new" /\ Runs(owner[o]) /\ closing[owner[o]] # o =>
        (stopped[o] <=> connections[owner[o]][name[o]] # o)

\* Without faults a locked target has one subscription in the whole cluster, also
\* while a removed ConnectionState is still ending and its successor starts
\* (state.go:252-265: the lock is released after doConnect has returned).
SingleSubscription ==
    faults = 0 =>
        \A o1, o2 \in Obj :
            /\ At(o1, "subscribed") /\ At(o2, "subscribed")
            /\ name[o1] = name[o2] /\ UseLock(o1)
            => o1 = o2

\* What a subscription receives may be forwarded by its gateway as long as the target
\* is in its map; and without faults no other gateway may forward for a locked target
\* then, but for one that has just given the lock back and receives nothing any more:
\* an exporter gets each update from one gateway (zookeeper.go:83-105,
\* state.go:247-262).
SubscriberForwards ==
    \A o \in Obj : At(o, "subscribed") =>
        /\ connections[owner[o]][name[o]] = o /\ MutexFree(owner[o]) =>
              Forwardable(owner[o], name[o])
        /\ faults = 0 /\ UseLock(o) =>
              \A g \in Gateway \ {owner[o]} :
                  Forwardable(g, name[o]) => pc[connections[g][name[o]]] = "clear"

\* What Connections takes a lock for: the promise that ZkLock is shown to keep,
\* here by the ConnectionStates of one name in the whole cluster.  It holds with
\* faults too, and while old and new ConnectionStates of a name overlap.
LockOf(n) == INSTANCE ExclusiveLock WITH
    Lock <- Obj, holders <- {o \in Obj : name[o] = n /\ lock[o] = "held"}
LocksAreExclusive == \A n \in Locked : LockOf(n)!Spec

\* With faults two subscriptions to a locked target are possible, but then one
\* of them has lost its lock, and what took the lock away was a fault or the end
\* of its process (state.go:242-265).
DoubleNeedsLoss ==
    \A o1, o2 \in Obj :
        /\ At(o1, "subscribed") /\ At(o2, "subscribed") /\ o1 # o2
        /\ name[o1] = name[o2] /\ UseLock(o1)
        => faults > 0 /\ \E o \in {o1, o2} : lock[o] # "held"

\* A goroutine that has ended keeps neither its slot nor the flag by which its
\* gateway would forward, and without faults not its lock (state.go:217-220,
\* 235-238, 256-265).
EndedHasNothing ==
    \A o \in Obj : pc[o] = "ended" =>
        /\ ~slot[o] /\ ~connLock[o]
        /\ faults = 0 => lock[o] # "held"

\* No goroutine works, lets its gateway forward or, without faults, keeps the lock
\* from the rest of the cluster but with a slot (state.go:235-272).
LockNeedsSlot ==
    /\ WorkNeedsSlot
    /\ faults = 0 => \A o \in Obj : lock[o] = "held" => slot[o]

\* A ConnectionState that is disconnected while it is subscribed ends; with
\* LockNeedsSlot and SlotsAccounted it has then given back its lock and its slot
\* (state.go:217, 235, 276-280).
DisconnectReleases ==
    \A o \in Obj :
        stopped[o] /\ client[o] = "closed" /\ At(o, "subscribed")
        ~> pc[o] = "ended" \/ \E g \in Gateway : owner[o] = g /\ ~Runs(g)

Wants(g, n) == Runs(g) /\ connections[g][n] # None
Subscribed(n) == \E o \in Obj : At(o, "subscribed") /\ name[o] = n

\* Failover: while a running gateway has the target in its map, somebody is
\* subscribed to the target again and again, although the gateway that was may
\* panic, reconnect or remove it (zookeeper.go:129-181, state.go:236-273).
TakesOver ==
    \A n \in Name :
        []<>(Subscribed(n) \/ \A g \in Gateway : ~Wants(g, n))

\* How far a goroutine is from its end, if it begins no new round.
Distance ==
    [ended |-> 0, loop |-> 1, clear |-> 2, after |-> 3, subscribed |-> 4, client |-> 5,
     context |-> 6, prep |-> 7, try |-> 8, new |-> 9]

\* A goroutine that has been stopped begins no new round: each of its steps leads
\* nearer to its end, so it makes at most one more attempt to connect and can stay
\* nowhere but in Subscribe (state.go:217-220, 234-273); see StoppedEnds for that.
StoppedWindsDown ==
    [][\A o \in Obj :
          stopped[o] => /\ stopped'[o]
                        /\ pc'[o] # pc[o] => Distance[pc'[o]] < Distance[pc[o]]]_vars

\* What the holder of connectionsMutex has still to do: close a client, remove and
\* insert each of the other names, unlock each of the ConnectionStates.
ToRemove(g) ==
    {n \in removing[g] :
        closing[g] # None /\ stopped[closing[g]] => n # name[closing[g]]}
ToInsert(g) == {n \in Name : inserting[g][n] # None}
Work(g) ==
    2 * Cardinality(ToRemove(g)) + 2 * Cardinality(ToInsert(g))
        + (IF closing[g] # None THEN 1 ELSE 0) + Cardinality(resetting[g])

\* Whoever holds connectionsMutex gives it back: while it is held every step of the
\* manager and of the listener leaves less to do, and nothing that another goroutine
\* or ZooKeeper does leaves more, so that Forwardable and the event handler that
\* waits for the listener wait for a bounded number of steps
\* (zookeeper.go:83-105, 126-181, gateway.go:435).
MutexIsGivenBack ==
    [][\A g \in Gateway :
          ~MutexFree(g) =>
              \/ Work(g)' < Work(g)
              \/ /\ removing'[g] = removing[g] /\ inserting'[g] = inserting[g]
                 /\ closing'[g] = closing[g] /\ resetting'[g] = resetting[g]
                 /\ Work(g)' = Work(g)]_vars

-----------------------------------------------------------------------------
(* What a comment of the repository says, and the code does not do.         *)

\* "If ConnectionState.disconnect() is called all attempts and connections are
\* aborted" (state.go:216-217): one that has been stopped ends, unless the
\* process does.
StoppedEnds ==
    \A o \in Obj :
        stopped[o] ~> \/ pc[o] = "ended"
                      \/ \E g \in Gateway : owner[o] = g /\ ~Runs(g)
=============================================================================
