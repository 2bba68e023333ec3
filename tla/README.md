# gnmi-gateway: TLA+ models, checks and proofs

gnmi-gateway collects gNMI notifications from network devices ("targets"), keeps
the newest value of every path in a cache, and serves and exports them. Several
gateways form a cluster over ZooKeeper: a lock per target decides which of them
connects to it, and each gateway forwards to the others what it collects itself.

This directory holds TLA+ modules of the parts of the program that are hard to
test, the configurations with which TLC checks them, and proofs that TLAPS checks.
`PROJECT.json` is the index: components, runs, mutants, the source lines of every
definition, findings, hazards and theorems. Line numbers are those of `src/`;
paths are below `src/gateway/` where nothing else is said.

    tlc -config <cfg> <MC module>.tla        one run
    tlapm <module>Proofs.tla                 the proofs about a module (tlapm LocalLock.tla)

## 1. Inventory of the system

| component | state | operations | talks to |
|---|---|---|---|
| distributed lock, `locking/zookeeper.go` | `lockPath`, `acquired`, `unlockMutex`; at the server ephemeral sequential nodes | `Try`, `try`, `createParentPath`, `lowestSeqChild`, `watchState` (a goroutine for each successful Try), `Unlock`, `GetMember` | ZooKeeper; `connectWithLock` |
| local lock, `locking/local.go` | a `sync.Map` from ids to members, and a flag per instance | `Try`, `Unlock`, `LockAcquired`, `GetMember` | nothing in the gateway uses it |
| connection manager, `connections/zookeeper.go` | map of connections under `connectionsMutex`, semaphore of slots, channel of control messages (capacity 10) | `ReloadTargets`, `handleTargetControlMsg`, `eventListener`, `Forwardable` | loaders, ConnectionStates, ZooKeeper events, server |
| connection state, `connections/state.go` | target, `stopped`, slot, lock, client and context, `synced`, `seen`, cache of the target | goroutine `connect`/`connectWithLock`/`doConnect`; `disconnect`, `reconnect`, `unlock`; callbacks `handleUpdate`, `sync`, `disconnected` | gnmi client, lock, cache |
| gNMI server, `server/server.go` | matcher of subscriptions, slots; per RPC a coalescing queue, an error channel of capacity 3, a timer | `Subscribe`, `Update`, `processSubscription`, `processPollingSubscription`, `sendStreamingResults` | cache, cache client, membership, `Forwardable` |
| gateway, `gateway.go` | cache clients with a buffer each, ZooKeeper listeners, `disconnectedCount` | `StartGateway`, `AddClient`, `sendUpdateToClients`, `CacheClient.Send`, `zookeeperEventHandler` | everything |
| membership, `clustering/zookeeper.go` | an ephemeral node; the list of members of the last callback | `Register`, `MemberListCallback`, `MemberList` | ZooKeeper, cluster loader, server |
| cluster loader, `loaders/cluster/cluster.go` | none | `WatchConfiguration`: members become targets | membership, connection manager |
| other loaders, `loaders/{json,simple,netbox}` | the configuration sent last | polling loops that send differences | connection manager |
| exporters, `exporters/*` | Prometheus: metric registry and delta calculator | `Export` | cache clients |
| utils, OpenConfig types, stats, configuration, main | - | conversions, start-up | - |

What is hard, and which properties make each component correct:

* **Lock.** `try` creates a node, reads the children and decides from a list that
  is old; the user and several watchers call `Unlock` at once; the client library
  reconnects by itself and repeats a Create whose answer it lost; sessions expire.
  One instance at most holds the lock, no node stays behind, the lock does not stay
  unused for ever.
* **Connections.** A goroutine per target acquires slot, lock and connection in
  turn and gives them back in several places, while the manager stops or reconnects
  it at any point and a listener unlocks it. Slots are accounted for, one subscription
  exists in the cluster, a removed connection ends, another gateway takes over.
* **Server.** Live updates, the walk of the cache and a slow client meet in one
  queue; three goroutines share an error channel of which one value is read.
  No update is lost, the sync response keeps its promise, all goroutines end.
* **Membership and cluster loader.** Sessions expire and processes are killed while
  callbacks run; the list is followed by a watch, and the changes travel as increments
  through a channel that fills up. No change is lost, nothing is sent twice, and the map
  ends up with the other members.
* **Loaders.** A loader computes differences with what it read last, not with the map,
  and several loaders share one channel and one map. What is remembered is what was sent.
* **Data path.** Leaves change under the buffer that holds them, subscriptions end and
  begin anew, a full buffer stops the target's stream, a client is added while updates
  are sent. The exporter ends up with what the cache has, a metric with the rise of its
  leaf.
* **Gateway.** It starts everything, and the process ends by the errors of any part.

The hazards are listed, each at its line, in `PROJECT.json`.

## 2. Modules

    ExclusiveLock            what DistributedLocker promises
      ^ implemented by       LocalLock (with its proofs), and by
    ZkLock                   the ZooKeeper lock          MCZkLock       ZkLockProofs
      . abstracted in (LockFree, LoseLock)
    Connections              managers and connections    MCConnections  ConnectionsProofs
      . its map, and the messages it is sent, in
    Membership               members of the cluster      MCMembership   MembershipProofs
    Loaders                  loaders that poll           MCLoaders      LoadersProofs
      . a connection and what it receives, in
    DataPath                 target to exporter          MCDataPath     DataPathProofs
      extends Prometheus     the exporter's metrics
    Subscribe                the server's RPCs           MCSubscribe    SubscribeProofs

Definitions have the names of the functions they model where there is one. A
goroutine is a control state (`pc`, or `main`, `walk`, `send` and `timer` in
Subscribe, `reg` and `loop` in Membership), and each step between two points at which
another goroutine or process can be noticed is an action. Operators whose comment
begins with "Mutant" are no part of a specification: each is a plausible bug, with
which one property fails.

### ExclusiveLock, ZkLock (`locking/zookeeper.go`)

`ExclusiveLock` has the set of holders, and acquires only when it is empty.

`ZkLock` has the server (`znodes`, `nextSeq`, `parent`), for each gateway process a
connection (`sess`, `connState`), and for each instance the fields of
`ZookeeperNonBlockingLock` with the locals of `try`. `TryCreate` to `TryFalse` are
the paths through `try`: each request to ZooKeeper is sent, executed and answered
in steps of their own where the outcome can differ, so a request may be executed
and its answer lost (`CreateAgain`, `DeleteFails`). `UnlockBegin` to
`ClearAcquired` are `Unlock`, run by the user or a watcher under `mutex`.
`WatchEnds` and `WatchUnlocks` are the two tests of `watchState`. `Drop`, `Expire`,
`Dial`, `Authenticate` and `RejectSession` are the connection and its session.

An instance *holds* the lock when its `lockPath` names an existing node. This is
what the server knows. An instance whose session has expired believes it longer,
which no ZooKeeper lock can avoid, so no property asks for the opposite.

### LocalLock (`locking/local.go`)

The map that all instances share has one entry for an id (`registry`), and each
instance its flag; the flag is set and cleared in a step after that of the map. An
instance is used by one goroutine, as `connectWithLock` uses one.

### Connections (`connections/`)

`HandleTargetControlMsg` takes any message; `DisconnectClose`, `InsertNew`,
`InsertSame`, `InsertChanged` and `Reconnect` are what it does, the operations of
ConnectionState it calls included. `stopped` is set in one step and the client
closed in the next, because the goroutine runs between them. `LoopRound` to
`AfterClear` are the goroutine: `connect` and `connectWithLock` are one loop, which
skips the lock for unlocked targets. `EventDisconnected` and `Unlock` are the
listener. A nil pointer that is called ends the process (`crashed`). `Forwardable`
reads the map and the flags as they are at that moment.

The lock of a target is a flag here. `LoseLock` stands for every way in which ZkLock
lets an instance lose it, and counts as a fault. That a watcher can release a lock
without any fault (run `lock_single`) is therefore a fault here too, and the
properties that begin with `faults = 0` are about clusters in which it does not happen.

### Membership (`clustering/zookeeper.go`, `loaders/cluster/cluster.go`)

`Create` to `RegisterFails` are `Register`; `ChildrenW` to `Wake` the loop of
`MemberListCallback`, with `Add` and `Remove` the callbacks of the cluster loader that
wait while the channel is full; `ReloadTargets` is their reader. `Connect`,
`Disconnected`, `Refused`, `Expire` and `ExpireOld` are the client, the server and
`zookeeperEventHandler`. A process ends by a kill, an error of `Register`, too many
errors of the watch or too many disconnections; all of them lose its memory (`Forget`)
and leave its node until the old session has expired (`Leave`). Then it may be started
again. What the manager does with a message is reduced to its map: Connections has the rest.

### Loaders (`loaders/json`, `simple`, `netbox`)

The loops of the three are one: read the source (`GetConfiguration`), make a message of
the difference with `last`, replace `last`, and send (`SendConfiguration`). They differ
in whether Start reads the source (`Checks`). `Edit` changes a source at any moment, to
one that cannot be read as well. `Handled` is what `handleTargetControlMsg` does to the
map, `Equal` included: it compares addresses and credentials and not the request.

### DataPath, Prometheus (`connections/state.go`, `gateway.go`, `exporters/prometheus`)

One target with several leaves. `TakeLock` to `RemoveTarget` are its connection, as Connections
has it; `UpdateCached` to `SyncResponse` are the cases of `handleUpdate`; `Forward`,
`CheckForwardable` and `Send` are the steps of `sendUpdateToClients`, which finds the clients,
asks `Forwardable` and waits for room; `Export` is the client's goroutine. The buffer holds
leaves: an entry `leaf` is read when it is exported, and one that was deleted meanwhile keeps
its last value (`old`). `MatchPath` is the rejection filter, on paths with names and keys; a
path element may have no map of keys at all. In Prometheus a series has a metric, the
calculator's history and the value shown; `first` and `fell` are history variables.

### Subscribe (`server/server.go`, `gateway.go`, the cache)

`CacheUpdate` and `CacheReset` are the goroutine of a target (`updateTargetCache`,
`disconnected`); `Send` is `sendUpdateToClients`, which blocks on the full buffer of
the server's cache client; `ServerUpdate` is `Server.Update` with the matching and
the Insert into the queue of each stream. `Subscribe` to `SubscribeReturns`,
`AcquireSlot` to `PollFails` and `NextSync` to `SendFails` are the three goroutines
of an RPC, `TimerFires`, `TimerErr` and `TimerDone` the fourth. A leaf is a pointer:
its value is read when it is sent (`fresh` tells whether an update has come since),
and a leaf that is made again after a reset is another pointer (`gen`). Values are
not modelled, only whether a client has the current one (`view`).

## 3. Runs

| run | instance | shows |
|---|---|---|
| `lock` | 2 gateways, 1 lock each, 1 watcher each, 3 nodes, 1 fault | `HeldByOne`, `HeldIsLowest`, `NoOrphans`; ZkLock implements ExclusiveLock; `DeadlockOnlyAfterFault`; `Progress`: attempts none of which has lost yet do not all fail |
| `conn_slots` | 1 gateway, a locked and an unlocked target, a bad configuration, 3 connections, 1 slot, 3 messages, 1 fault | `SlotsAccounted`, `MapOwnsRunning`; `MutexIsGivenBack`: who has `connectionsMutex` works towards its release |
| `conn_cluster` | 2 gateways, 1 locked target, 2 configurations, 3 connections, 2 messages each | `SingleSubscription`, `LockNeedsSlot` (only a goroutine with a slot works, only one that works has the lock), `SubscriberForwards`, `DisconnectReleases`, `TakesOver` |
| `subscribe` | 1 RPC of any kind, or 2 that want the slot, 1 target that is reset once, 1 slot | `NoLostUpdate`, `SyncAfterLeaves`, `ErrCHoldsAll`, `SlotsMatchWalks`, `AnswerIsLeft`: who waits on `errC` has an answer or is still served; `AbandonedEnds`, `StalledSendEnds`; `SlotIsFreed`: a walk gets the slot that another RPC's walk has |
| `members` | 2 gateways that start twice, channel of 2, 1 error, 1 disconnection and 1 fault | `NoDrift`, `OncePerChange`, `WatchCoversList`, `RegisteredInSession`, `MapConverges` |
| `loaders` | 2 loaders, a target of one and a target of both, 2 addresses, channel of 1, 2 edits | `RemovalsMatchMap`: the messages are a chain from the map to what was read last, addresses included; `NamesConverge`, `DialConverges` |
| `datapath` | a counter, a flag and a rejected leaf, 2 changes, 2 subscriptions, repeated sync responses, buffer of 1 | `ExporterUpToDate`: the exporter has been told what the cache has and has counted up to it, or is about to be told; `MetricShowsRise`, `CounterTelescopes`, `BackpressureEnds` |

Each also checks the type invariant, but for `conn_cluster`. Five runs end in a
counterexample, each to what a comment of the code says:

| run | claim | what happens |
|---|---|---|
| `lock_single` | a single connection to a target | a watcher of an earlier acquisition sees `acquired` of a later one and unlocks it |
| `conn_leak` | `disconnect` aborts all attempts | it closes the old client while `doConnect` makes the next, which nothing closes |
| `subscribe_order` | a queue ensures the order of walk and updates | the delete of an old leaf waits in the buffer, arrives behind the new leaf that the walk found, and the update that follows coalesces: the client keeps nothing |
| `subscribe_hang` | an error of any goroutine ends the RPC | an update that is not Forwardable makes `sendStreamingResults` return silently: the RPC hangs, also after the client has gone |
| `datapath_gauge` | a gauge is set to its value | a Gauge has the methods of a Counter, so the first case of the type switch takes it: it shows the sum of its rises |

Four more disagreements are in the models and have no run of their own:

* before the first `doConnect` there is no client and no `clientCancel`; removing or
  changing a target (state.go:279, 303) or losing ZooKeeper (state.go:307) then
  panics, although manager.go:67 says that Remove disconnects. Connections has the panic
  (`crashed`), and `TakesOver` shows that another gateway goes on;
* after a session has expired `lockPath` stays and Try answers true with ErrDeadlock for a
  lock the instance has not got (locking/zookeeper.go:132). `DeadlockOnlyAfterFault` shows
  that before a fault Try never answers so;
* a gateway whose session expired does not register again, although clustering.go:37-38
  says it stays registered as long as it is alive (`StaysRegistered` in Membership). The
  others take it for gone, which is what `MapConverges` shows;
* a target of which only the request or the Meta changed is not overwritten, although
  manager.go:63-65 says so (`ConfigIsOverwritten` in Loaders). `DialConverges` is about
  what Equal compares.

**Bounds, and why they are enough.** Two instances on two connections are enough for every
pairwise property of the lock, and a watcher each for one that outlives its acquisition
(`lock_single` has two). `MaxSeq` is how many nodes are made in a behaviour: with 3 an instance
can fail once and try again while the other has the lock. `Progress` does not take the bound for
an excuse: it is about attempts that have their nodes, or one that finds a number left. What it
does not say is that contenders never fail one another for ever. They can: each of two may see
the node of the other's last attempt before that is deleted, lose to it, and be seen in turn.
The code has only the sleep of one second between attempts (state.go:265) against that, and
nothing in the model, which has no time, would exclude it. In Connections, three connections
allow a target to be removed and inserted again while its old goroutine ends, next to another
target; one slot for two targets makes them compete. `conn_cluster` has no faults, as its safety
properties begin with `faults = 0`, and its liveness is about a cluster whose ZooKeeper works.
In Subscribe a buffer of 1 is full while the target goes on. RPCs share only the slots, so one
RPC of each kind is checked alone; the cluster member among them is the loader's, which asks for
everything. For the slots (which only a program that sets `SubscriptionLimit` has, as the
gateway itself does not) there are two, one that polls again and again and one that asks once,
of targets without a value: which of them has the slot, and whether its client reads, is what
the other's walk depends on. One leaf is the largest instance whose liveness can be checked;
`NoLostUpdate` and `SyncAfterLeaves`, which say more of several leaves, and that no slot is
lost, are proved for any number of leaves and RPCs. In Membership the code's limits (3 errors,
50 disconnections, 10 messages) are constants: with 1 each is exceeded in a few steps, and the
channel of 2 holds an insertion and a removal of one member. Two starts of each gateway are what
a restart ahead of the expiry of the old session needs. In Loaders the shared target makes
removals cross; two edits make a target go and come back, or a source break and recover. In
DataPath two subscriptions make everything be sent twice, and two changes let a counter rise and
fall; the buffer of 1 holds a leaf that is deleted behind it. `MaxPollers` bounds the goroutines
of `sync`, which nothing bounds in the code: each sync response starts one, and it ends when it
finds `synced` false at its tick.

Deadlock is not checked in any run: when the bounds are used up, the target is gone, or all
RPCs have ended, the system may really stop.

**Fairness.** Goroutines run, so each gets weak fairness of its steps. The server
answers, and the client library reconnects by itself (`Dial`, `ZkUp`, `Connect`); the servers
expire the session of a process that has ended (`ExpireOld`). A goroutine that waits for a
slot or for room in a channel that others fill gets strong fairness, since Go serves the
senders of a channel in order. Nothing is assumed of what need not happen: messages, edits,
changes, starts, faults, the return of a subscription, a client that reads (`Sent`,
`SentSync`), polls or cancels. So `StalledSendEnds` rests on the timer only. It is about
notifications: the sync response is sent without the timer (server.go:486-491), in spite of
the comment at line 464. `AbandonedEnds` excepts cluster members because of what
`subscribe_hang` shows. `BackpressureEnds` assumes that Export returns, which exporter.go:46-47
asks of it.

**Mutants.** Every property of a passing run has a mutant with which the same run
fails: lowest and highest child confused, a node kept when the lock is not taken, a
slot released twice or never, a marker that does not wait for the walk, a list read without
its watch, a member forgotten before it is told, an update dropped by a full buffer, a walk
that keeps its slot until its client reads, and so on.

## 4. Proofs

For every value of the constants that the named assumptions of the modules allow, TLAPS
proves every invariant and every action property of the passing runs, type correctness,
and the refinements. What is left to TLC alone is liveness. Each module has an inductive
invariant `IInv`, with the theorem `Invariant == Spec => []IInv` and one short theorem for
each property that follows from it.

| module | properties of runs that are proved | stated for the proof alone | what the invariant adds |
|---|---|---|---|
| `ZkLockProofs` | `TypeOK`, `HeldIsLowest`, `HeldByOne`, `NoOrphans`, `DeadlockOnlyAfterFault`, `ImplementsExclusiveLock` | `NodesLast` | `OneNodePerSeq`, `SeqsUsed`, `ReadStaysLowest`, `TryHasNoLock`, `ReplyMeansGone`, `SessionsLast`, `UnlockExcludes`, `PathMeansLocked` |
| `LocalLock` | | `GetMemberNamesHolder`, `ImplementsExclusiveLock` | at most one holder, whose member is the entry of the map |
| `ConnectionsProofs` | `TypeOK`, `SlotsAccounted`, `MapOwnsRunning`, `LockNeedsSlot`, `SingleSubscription`, `SubscriberForwards`, `MutexIsGivenBack` | `LocksAreExclusive`, `DoubleNeedsLoss`, `EndedHasNothing`, `StoppedWindsDown` | `NewHasNothing`, `MapKnows`, `FlagAt`, `EventsCounted`, `LockWhileWorking` |
| `SubscribeProofs` | `TypeOK`, `NoLostUpdate`, `SyncAfterLeaves`, `SlotsMatchWalks`, `ErrCHoldsAll`, `AnswerIsLeft` | `ConvergesWithoutReset`, `AbandonedWindsDown` | `IdleHasNone`, `ErrsAccounted`, `StaleIsOutdated`, `ItemIsSent`, `NothingIsEarly`, `LeftMeansWalking`, `ViewWasCached`; `SyncInv` |
| `MembershipProofs` | `TypeOK`, `WatchCoversList`, `RegisteredInSession`, `NoDrift`, `OncePerChange` | `MapIsRight` | `SessionFirst`, `ErrorsLeft`, `Chained`, `WaitsForWatch` |
| `LoadersProofs` | `TypeOK`, `RemovalsMatchMap` | `EveryTargetHasALoader` | `OwnNames`, `Chained`, `LookedAfter`, `DialSettled` |
| `DataPathProofs` | `TypeOK`, `ExporterUpToDate`, `MetricShowsRise`, `CounterTelescopes` | | `NotJoined`, `LeafIsThere`, `Informed`, `Counted`, `ToldCounted` |

The properties of the third column are in no configuration: TLC found no
counterexample to them on the instances of section 3 (Connections: two gateways, one fault,
two messages each), and the proof is what keeps them.

The assumptions are about the constants: bounds are numbers, and the sets whose elements are
counted are finite (`Rpc` and `Leaf` in Subscribe; in Connections `Obj` and `Name`, the
connections that are made in a behaviour and the targets that have names). No proof
assumes anything of how many there are.

**Lock.** `HeldByOne` is not inductive. It follows from `HeldIsLowest` with `OneNodePerSeq`:
both holders' nodes would be the lowest. `HeldIsLowest` is kept by TakeLock
because `seen`, the lowest number that an old list of children showed, is still
not above any node (`ReadStaysLowest`): nodes go, and new ones get higher numbers
(`SeqsUsed`). `TryHasNoLock` says that `try` does not overwrite a lock it has,
`ReplyMeansGone` that after a Delete the node is gone before `lockPath` is reset;
that is why the step which gives up the lock in the abstract specification is the
server's. `NoOrphans` needs `SessionsLast`: as long as there was no fault, requests
of `try` are executed.

`DeadlockOnlyAfterFault` is about the order of two resets: Unlock clears `lockPath` before
`acquired`, and the user, which tests `acquired` before it calls Unlock, may do so between
the two resets of a watcher. `PathMeansLocked` says where the user can be while there is a
path, and while a watcher is between its resets. It needs that one goroutine at a time is
in Unlock (`UnlockExcludes`) and that without a fault a Delete is never answered "no such
node", whoever deletes first (`NodesLast`).

**Connections.** Slots are counted with the cardinality of the goroutines that have one.
`MapOwnsRunning` needs that what the map has was made for
that name and gateway (`MapKnows`). Without faults the lock of a target is held exactly
while its goroutine works (`LockWhileWorking`), and `ConnectionLockAcquired` agrees with
where the goroutine is (`FlagAt`); from these two follow `SingleSubscription` and
`SubscriberForwards`. The lock of a target is a flag in this module, so that it behaves as
a lock has to be shown: `LocksAreExclusive` proves that the flag of each target implements
`ExclusiveLock`, as ZkLock does, also with faults. `DoubleNeedsLoss` is what is left of
`SingleSubscription` after a fault: of two goroutines that are subscribed to one target at
most one has the lock. `EndedHasNothing` says that a goroutine that has ended
has left no slot and no flag behind, and without faults no lock.

Two action properties are measures. While `connectionsMutex` is held, each step of its holder
leaves less to remove, insert and reset, no other step leaves more, and where nothing is left
the mutex is free (`MutexIsGivenBack`). A goroutine whose connection was stopped only gets
nearer to its end, and no message, event or fault sends it back (`StoppedWindsDown`).

**Subscribe.** `slots` stays in its range only because it is the number of walks
(`SlotsMatchWalks`), and an RPC that begins has no walk (`IdleHasNone`). `errC` never
holds more than 3 because every answer is the last step of one of three goroutines
(`ErrsAccounted`). `NoLostUpdate` needs three facts about what is being sent: a value
that is not the newest does not replace the newest at the client
(`StaleIsOutdated`: the update that made it old has made the client's old too),
nothing is being sent between two sends (`ItemIsSent`), and nothing
that is on its way is of a generation to come, so a client of a target that was not
reset is sent no delete (`NothingIsEarly`). `SyncAfterLeaves` has an invariant of its own,
`SyncInv`: the queue has one marker at most, no leaf of the answer that is owed waits behind
it, what the walk has not visited is still ahead of a marker that has not been inserted, and
what is owed is in one of these places. Coalescing keeps the place of the earlier item, which is
what makes it true although updates come while the walk runs.

`ConvergesWithoutReset` is the part of the claim behind `subscribe_order` that is true: without
a reset a quiet stream has what the cache has. It needs that a walk that has ended
left nothing to visit (`LeftMeansWalking`) and that a client has nothing the
cache never had (`ViewWasCached`). `AnswerIsLeft` is the safety part of `AbandonedEnds`, and its
exception for members is the silent return that `subscribe_hang` shows. The other part is a
measure: when the client has gone, each step of any goroutine of the RPC brings it closer to
its end, since every send fails and nobody polls, however long the queue is
(`AbandonedWindsDown`). That the timer may still be armed once is paid for by the
item that is taken.

**Membership, Loaders.** In both, messages are increments, and the invariant is a chain: the map
is where the first message under way starts, each message starts where the one before it
ended, and the last ends where the sender's memory is. Membership has a chain for each member in
the channel of a gateway; `NoDrift` and `OncePerChange` are its two ends. Loaders has one for
the names that no other loader has, through the messages of the others and the one that
waits for room. `WatchCoversList` holds across reconnections because a watch that was missed
is no longer "set", and `RegisteredInSession` because only the first session has made a node
(`SessionFirst`). Since the loop of `MemberListCallback` waits only with a watch, and only when
it has called back about the whole list (`WaitsForWatch`), an idle gateway with an empty channel
has the right map (`MapIsRight`), which is what `MapConverges` converges to.

For names that several loaders have no chain holds, because the messages of one cross those of
the other. What does hold is that a target in the map is looked after by somebody: a
loader that has read it last, or whose next message removes or inserts it
(`EveryTargetHasALoader`). The end of the chain also carries the configuration: when nothing is
under way, the address and the credentials of the map are those read last.

**DataPath.** `ExporterUpToDate` is `Informed`, stated with an operator on the sequence that is
under way, for which lemmas say what appending, taking the head and deleting the leaves do. It
needs that a leaf under way is in the cache (`LeafIsThere`) and that nothing is under way before
the exporter has joined (`NotJoined`). That the metric has counted up to the value it was told
needs `ToldCounted`: only Export tells, and it counts in the same step. `CounterTelescopes` needs
that a series without a history shows 0 (`Counted`). `MetricShowsRise` joins the two: of a leaf
that is quiet and never fell, the metric is the rise of the value in the cache.

Only model-checked: liveness (`Progress`, `DisconnectReleases`, `TakesOver`, `AbandonedEnds`,
`StalledSendEnds`, `SlotIsFreed`, `MapConverges`, `NamesConverge`, `DialConverges`,
`BackpressureEnds`), since the prover does not reason about fairness and ENABLED;
the measures and the states the systems come to rest in (`StoppedWindsDown`, `MutexIsGivenBack`,
`AbandonedWindsDown`, `AnswerIsLeft`, `MapIsRight`, `EveryTargetHasALoader`) are the parts of
it that are proved. The counterexamples are TLC's too.

## 5. Not modelled

* Connections whose target is `*` (cluster members, gateways that are targets): `Seen`, the
  rewriting of prefixes, and that the disconnect callback empties nothing for them
  (state.go:294).
* `Forwardable` of DataPath and Connections is about one named target: that it answers true
  for the empty target and for `*`, and asks for `queryTarget`, which the prefix of a request
  may make another than the name, is left out. Subscribe lets it answer for each item anew.
* `parseSeq` (a node has a number), addresses and credentials, `MemberList` and the comparison
  of addresses by which the server takes a peer for a member, the ACL of the server
  (never set), the end of a stream whose target is deleted from the cache (never done).
* `Unregister` is not implemented by the code.
* Exporters other than Prometheus, and of Prometheus the names of metrics, the hash (which
  concatenates labels without separators, delta.go:54-59) and the HTTP server.
* The type that `GetTypeByPath` finds in the OpenConfig tree is a constant.
* Pure input and output: parsing of files, the NetBox client, TLS, HTTP, InfluxDB and
  Kafka writers, statistics, flags.
* ZooKeeper, gRPC, the gnmi client, the cache and the coalescing queue are external:
  modelled from how the code uses them.

## 6. Plan

Done: ExclusiveLock, ZkLock, LocalLock, Connections, Subscribe, Membership, Loaders, DataPath
and Prometheus, with the proofs of their safety properties.

What could follow, in this order:

1. Connections of `*`: two DataPaths joined by Subscribe, with `Seen` and `Forwardable`
   between them: an update reaches every gateway's cache, is exported once, and does not echo.
2. Measures, as for `AbandonedEnds`, behind the other liveness properties: the contenders of
   `Progress`, the messages of `MapConverges` and `NamesConverge`.
3. `memberAddressInMemberList` with a stale list of members.
