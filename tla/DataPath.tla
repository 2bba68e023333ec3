------------------------------ MODULE DataPath ------------------------------
(***************************************************************************)
(* The way of a value through a gateway: the subscription to a target      *)
(* (ConnectionState.handleUpdate, connections/state.go), the target's      *)
(* cache, sendUpdateToClients and the buffer of an exporter's client       *)
(* (gateway.go), and the exporter, here Prometheus.                        *)
(*                                                                         *)
(* The cache and client.Reconnect are of the gnmi library: the cache holds *)
(* one leaf for each path, changes it in place and calls the gateway for   *)
(* it; the buffer holds the leaf, not its value.                           *)
(***************************************************************************)
EXTENDS Prometheus, Sequences, FiniteSets

CONSTANTS
    PathOf,      \* the path of a leaf: elements with a name and, if keyed, keys
    Rejections,  \* UpdateRejections: paths
    KindOf,      \* the kind of a leaf's values
    MaxValue,    \* bound: largest value
    BufferSize,  \* GatewayTransitionBufferSize
    MaxChanges,  \* bound: changes of the target's leaves
    MaxSubs,     \* bound: subscriptions that are begun
    MaxPollers   \* bound: goroutines of sync that run at one time

ASSUME KindAssumption == KindOf \in [Leaf -> {"number", "bool", "other"}]
ASSUME NatAssumption  == /\ MaxValue \in Nat /\ BufferSize \in Nat \ {0}
                         /\ MaxChanges \in Nat /\ MaxSubs \in Nat /\ MaxPollers \in Nat

VARIABLES
    \* the target
    device,     \* its leaves
    changes,
    tosend,     \* leaves it has still to send on the subscription
    \* the connection
    pc,         \* "off": no lock; "locked"; "up": subscribed; "ended"
    subs,
    inMap,      \* is it in the connection manager's map
    lock,       \* ConnectionLockAcquired
    connected, synced,
    pollers,    \* goroutines of sync that run
    \* the cache and its clients
    cache,      \* the value of each leaf, or Gone
    fan,        \* what sendUpdateToClients is about to send
    joined,     \* has AddClient been called for the exporter
    buffer,     \* the buffer of its client
    \* history
    told,       \* what the exporter was last told of a leaf
    missed      \* the last change of a leaf was not meant for the exporter

devVars  == <<device, changes, tosend>>
connVars == <<pc, subs, inMap, lock, connected, synced, pollers>>
dataVars == <<cache, fan, joined, buffer, told, missed>>
vars == <<devVars, connVars, dataVars, promVars>>

Gone == [kind |-> "gone", n |-> 0]
Value(p) == {[kind |-> KindOf[p], n |-> k] :
                k \in IF KindOf[p] = "number" THEN 0 .. MaxValue ELSE {0, 1}}
Values == UNION {Value(p) : p \in Leaf}

Idle == [stage |-> "idle"]

\* All elements of toMatch are found in path: by name, and with the keys they have.
\* One that has a map of keys, be it empty, is not found where there is none.
MatchPath(path, toMatch) ==
    /\ Len(path) >= Len(toMatch)
    /\ \A i \in DOMAIN toMatch :
          /\ path[i].name = toMatch[i].name
          /\ toMatch[i].keyed =>
                /\ path[i].keyed
                /\ \A k \in DOMAIN toMatch[i].key :
                      k \in DOMAIN path[i].key /\ path[i].key[k] = toMatch[i].key[k]

Rejected == {p \in Leaf : \E r \in Rejections : MatchPath(PathOf[p], r)}

\* What is on its way to the exporter: a leaf, the value of a leaf that has since
\* been deleted, or the deletion of all of them.
Entry == [what : {"leaf"}, path : Leaf]
            \cup [what : {"old"}, path : Leaf, value : Values]
            \cup {[what |-> "reset"]}

TypeOK ==
    /\ device \in [Leaf -> Values] /\ \A p \in Leaf : device[p] \in Value(p)
    /\ changes \in 0 .. MaxChanges
    /\ tosend \subseteq Leaf
    /\ pc \in {"off", "locked", "up", "ended"}
    /\ subs \in 0 .. MaxSubs
    /\ inMap \in BOOLEAN /\ lock \in BOOLEAN /\ connected \in BOOLEAN
    /\ synced \in BOOLEAN /\ joined \in BOOLEAN
    /\ pollers \in 0 .. MaxPollers
    /\ cache \in [Leaf -> Values \cup {Gone}]
    /\ \A p \in Leaf : cache[p] = Gone \/ cache[p] \in Value(p)
    /\ fan = Idle \/ fan \in [stage : {"check", "send"}, entry : Entry]
    /\ buffer \in Seq(Entry) /\ Len(buffer) <= BufferSize
    /\ told \in [Leaf -> Values \cup {Gone}]
    /\ missed \in [Leaf -> BOOLEAN]
    /\ PromTypeOK

Init ==
    /\ device \in [Leaf -> Values]
    /\ \A p \in Leaf : device[p] \in Value(p) /\ device[p].n = 0
    /\ changes = 0
    /\ tosend = {}
    /\ pc = "off"
    /\ subs = 0
    /\ inMap = TRUE
    /\ lock = FALSE
    /\ connected = FALSE /\ synced = FALSE
    /\ pollers = 0
    /\ cache = [p \in Leaf |-> Gone]
    /\ fan = Idle
    /\ joined = FALSE
    /\ buffer = <<>>
    /\ told = [p \in Leaf |-> Gone]
    /\ missed = [p \in Leaf |-> FALSE]
    /\ PromInit

-----------------------------------------------------------------------------
(* The target, and the goroutine of the connection (see Connections). *)

Change(p) ==
    /\ changes < MaxChanges
    /\ changes' = changes + 1
    /\ \E v \in Value(p) \ {device[p]} : device' = [device EXCEPT ![p] = v]
    /\ tosend' = IF pc = "up" THEN tosend \cup {p} ELSE tosend
    /\ UNCHANGED <<connVars, dataVars, promVars>>

TakeLock ==
    /\ pc = "off" /\ inMap
    /\ lock' = TRUE
    /\ pc' = "locked"
    /\ UNCHANGED <<devVars, subs, inMap, connected, synced, pollers, dataVars, promVars>>

\* A subscription begins: the target is to send everything.
Subscribe ==
    /\ pc = "locked" /\ inMap /\ subs < MaxSubs
    /\ subs' = subs + 1
    /\ pc' = "up"
    /\ tosend' = Leaf
    /\ UNCHANGED <<device, changes, inMap, lock, connected, synced, pollers, dataVars,
                   promVars>>

\* doConnect has returned.
Unlock ==
    /\ pc = "locked"
    /\ lock' = FALSE
    /\ pc' = IF inMap THEN "off" ELSE "ended"
    /\ UNCHANGED <<devVars, subs, inMap, connected, synced, pollers, dataVars, promVars>>

\* The connection manager deletes the entry before the subscription has ended.
RemoveTarget ==
    /\ inMap
    /\ inMap' = FALSE
    /\ pc' = IF pc = "off" THEN "ended" ELSE pc
    /\ UNCHANGED <<devVars, subs, lock, connected, synced, pollers, dataVars, promVars>>

-----------------------------------------------------------------------------
(* handleUpdate: one message at a time, while nothing is being forwarded. *)

Receives == pc = "up" /\ fan = Idle

\* sendUpdateToClients takes the clients it finds now.
Forward(entry) ==
    fan' = IF joined THEN [stage |-> "check", entry |-> entry] ELSE Idle

\* The subscription ends: disconnected resets the cache, which deletes every leaf
\* of it; what the buffer holds of them keeps its value.
Old(e) ==
    IF e.what = "leaf" THEN [what |-> "old", path |-> e.path, value |-> cache[e.path]] ELSE e
Disconnected ==
    /\ pc' = "locked"
    /\ tosend' = {}
    /\ connected' = FALSE /\ synced' = FALSE
    /\ cache' = [p \in Leaf |-> Gone]
    /\ buffer' = [i \in DOMAIN buffer |-> Old(buffer[i])]
    /\ missed' = [p \in Leaf |-> ~joined]
    /\ Forward([what |-> "reset"])
    /\ UNCHANGED <<device, changes, subs, inMap, lock, pollers, joined, told, promVars>>

\* The target hangs up, sends an error, or the subscription is cancelled.
SubscriptionEnds == Receives /\ Disconnected

Received(p) == Receives /\ p \in tosend

UpdateRejected(p) ==
    /\ Received(p) /\ p \in Rejected
    /\ tosend' = tosend \ {p}
    /\ connected' = TRUE
    /\ UNCHANGED <<device, changes, pc, subs, inMap, lock, synced, pollers, dataVars,
                   promVars>>

UpdateCached(p) ==
    /\ Received(p) /\ p \notin Rejected
    /\ cache[p] # device[p]
    /\ tosend' = tosend \ {p}
    /\ connected' = TRUE
    /\ cache' = [cache EXCEPT ![p] = device[p]]
    /\ missed' = [missed EXCEPT ![p] = ~joined]
    /\ Forward([what |-> "leaf", path |-> p])
    /\ UNCHANGED <<device, changes, pc, subs, inMap, lock, synced, pollers, joined, buffer,
                   told, promVars>>

\* The cache finds the update older than the leaf: that is no error.
UpdateStale(p) ==
    /\ Received(p) /\ p \notin Rejected
    /\ cache[p] # Gone
    /\ tosend' = tosend \ {p}
    /\ connected' = TRUE
    /\ UNCHANGED <<device, changes, pc, subs, inMap, lock, synced, pollers, dataVars,
                   promVars>>

\* The cache suppresses a duplicate value: handleCacheError leaves the switch, the
\* update is an error, and the subscription ends.
UpdateDuplicate(p) ==
    /\ Received(p) /\ p \notin Rejected
    /\ cache[p] = device[p]
    /\ Disconnected

\* Everything was sent once; the target says so, and may say it again.
SyncResponse ==
    /\ Receives /\ tosend = {} /\ pollers < MaxPollers
    /\ connected' = TRUE
    /\ synced' = TRUE
    /\ pollers' = pollers + 1
    /\ UNCHANGED <<devVars, pc, subs, inMap, lock, dataVars, promVars>>

\* The goroutine of sync looks at synced again at its next tick.
PollerEnds ==
    /\ pollers > 0 /\ ~synced
    /\ pollers' = pollers - 1
    /\ UNCHANGED <<devVars, pc, subs, inMap, lock, connected, synced, dataVars, promVars>>

-----------------------------------------------------------------------------
(* The gateway and the exporter. *)

\* When exporter.Start has returned.
AddClient ==
    /\ ~joined
    /\ joined' = TRUE
    /\ missed' = [p \in Leaf |-> cache[p] # Gone]
    /\ UNCHANGED <<devVars, connVars, cache, fan, buffer, told, promVars>>

Affects(e, p) == e.what = "reset" \/ e.path = p
Forwardable == inMap /\ lock

\* An exporter is an external client.
CheckForwardable ==
    /\ fan # Idle /\ fan.stage = "check"
    /\ \/ /\ Forwardable
          /\ fan' = [fan EXCEPT !.stage = "send"]
          /\ UNCHANGED missed
       \/ /\ ~Forwardable
          /\ fan' = Idle
          /\ missed' = [p \in Leaf |-> missed[p] \/ Affects(fan.entry, p)]
    /\ UNCHANGED <<devVars, connVars, cache, joined, buffer, told, promVars>>

\* Mutant: an update is dropped when the buffer is full.
SendDrops ==
    /\ fan # Idle /\ fan.stage = "send"
    /\ buffer' = IF Len(buffer) < BufferSize THEN Append(buffer, fan.entry) ELSE buffer
    /\ fan' = Idle
    /\ UNCHANGED <<devVars, connVars, cache, joined, told, missed, promVars>>

\* Mutant: the buffer has no limit.
SendUnbounded ==
    /\ fan # Idle /\ fan.stage = "send"
    /\ buffer' = Append(buffer, fan.entry)
    /\ fan' = Idle
    /\ UNCHANGED <<devVars, connVars, cache, joined, told, missed, promVars>>

\* Send waits while the buffer is full, and the target's stream with it.
Send ==
    /\ fan # Idle /\ fan.stage = "send"
    /\ Len(buffer) < BufferSize
    /\ buffer' = Append(buffer, fan.entry)
    /\ fan' = Idle
    /\ UNCHANGED <<devVars, connVars, cache, joined, told, missed, promVars>>

\* Mutant: run passes on only what may be forwarded by then.
ExportForwardable ==
    /\ buffer # <<>> /\ Forwardable
    /\ buffer' = Tail(buffer)
    /\ UNCHANGED <<devVars, connVars, cache, fan, joined, told, missed, promVars>>

\* Mutant: a deletion begins the count of its leaves anew.
ExportForgets ==
    /\ buffer # <<>>
    /\ buffer' = Tail(buffer)
    /\ LET e == Head(buffer) IN
          \/ /\ e.what = "reset"
             /\ told' = [p \in Leaf |-> Gone]
             /\ history' = [p \in Leaf |-> [exists |-> FALSE, value |-> 0]]
             /\ UNCHANGED <<metrics, shown, first, fell>>
          \/ /\ e.what # "reset"
             /\ LET v == IF e.what = "leaf" THEN cache[e.path] ELSE e.value IN
                   told' = [told EXCEPT ![e.path] = v] /\ ExportValue(e.path, v)
    /\ UNCHANGED <<devVars, connVars, cache, fan, joined, missed>>

\* run: Export reads the value that the leaf has by now, and has no use for
\* deletions.
Export ==
    /\ buffer # <<>>
    /\ buffer' = Tail(buffer)
    /\ LET e == Head(buffer) IN
          \/ /\ e.what = "reset"
             /\ told' = [p \in Leaf |-> Gone]
             /\ UNCHANGED promVars
          \/ /\ e.what # "reset"
             /\ LET v == IF e.what = "leaf" THEN cache[e.path] ELSE e.value IN
                   told' = [told EXCEPT ![e.path] = v] /\ ExportValue(e.path, v)
    /\ UNCHANGED <<devVars, connVars, cache, fan, joined, missed>>

Next ==
    \/ \E p \in Leaf : Change(p) \/ UpdateRejected(p) \/ UpdateCached(p) \/ UpdateStale(p)
                       \/ UpdateDuplicate(p)
    \/ TakeLock \/ Subscribe \/ Unlock \/ RemoveTarget \/ SubscriptionEnds
    \/ SyncResponse \/ PollerEnds
    \/ AddClient \/ CheckForwardable \/ Send \/ Export

Spec == Init /\ [][Next]_vars

\* The goroutines of the connection and of the client run, and Export returns
\* ("Export should complete as quickly as possible", exporter.go:46-47).
Fairness ==
    WF_vars(CheckForwardable) /\ WF_vars(Send) /\ WF_vars(Export)

FairSpec == Spec /\ Fairness

-----------------------------------------------------------------------------
(* Properties. *)

InFlight == IF fan = Idle THEN buffer ELSE Append(buffer, fan.entry)

\* What was last sent towards the exporter of a leaf agrees with the cache.
Agrees(e, p) ==
    CASE e.what = "leaf" -> cache[p] # Gone
      [] e.what = "old" -> FALSE
      [] OTHER -> cache[p] = Gone

\* The metric of a leaf has counted up to its value in the cache; GAUGE32 has none.
CountedUpTo(p, v) ==
    IsNumber(v) /\ YangType[p] # "gauge32" =>
        history[p].exists /\ history[p].value = v.n

\* The exporter has been told what the cache has and has counted up to it, or is
\* about to be told: of what is on its way to it of a leaf, the last is the leaf
\* itself if the cache has it, and the deletion if it has not, although the buffer
\* holds leaves that change and are deleted under it, and the target's stream goes
\* on (gateway.go:145-151, 329-342, state.go:287-299, 324-372, prometheus.go:86-108).
\* What did not reach the exporter because it was not there yet, or because the
\* target was not forwardable, is excepted.
About(p) == {i \in DOMAIN InFlight : Affects(InFlight[i], p)}
ExporterUpToDate ==
    \A p \in Leaf :
        ~missed[p] =>
            IF About(p) = {} THEN told[p] = cache[p] /\ CountedUpTo(p, cache[p])
            ELSE \E i \in About(p) : /\ \A j \in About(p) : j <= i
                                     /\ Agrees(InFlight[i], p)

\* Of a leaf of which nothing is on its way and that never fell, the metric shows
\* the rise of what the cache has since the first value exported, through every
\* subscription, deletion and repetition (gateway.go:145-151, delta.go:37-44,
\* prometheus.go:86-108).
MetricShowsRise ==
    \A p \in Leaf :
        /\ ~missed[p] /\ About(p) = {}
        /\ IsNumber(cache[p]) /\ YangType[p] # "gauge32" /\ ~fell[p]
        => shown[p] = cache[p].n - first[p]

\* A stream that waits for room in the buffer of an exporter goes on
\* (gateway.go:149-151).
BackpressureEnds == fan # Idle ~> fan = Idle
=============================================================================
