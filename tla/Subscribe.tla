----------------------------- MODULE Subscribe -----------------------------
(***************************************************************************)
(* The gNMI server (gateway/server/server.go): the goroutines of Subscribe *)
(* RPCs, from the cache through the buffer of the gateway's cache client   *)
(* (gateway/gateway.go) and the coalescing queue of an RPC to its client.  *)
(*                                                                         *)
(* A target has one leaf here; the two are not told apart.  A leaf of the  *)
(* cache is a pointer whose value is read when it is sent; a leaf made     *)
(* again after its target was reset is another pointer: its generation.    *)
(* Values are not modelled, only whether a client has the current one.     *)
(* The cache, the queue and gRPC are external.  The ACL is never set, and  *)
(* no target is ever deleted from the cache, so neither is modelled.       *)
(***************************************************************************)
EXTENDS Integers, Sequences, SequencesExt, FiniteSets

CONSTANTS
    Rpc,                \* Subscribe RPCs
    Leaf,               \* leaves, one for each target
    Remote,             \* those that Forwardable may refuse to cluster members
    Requests,           \* the requests an RPC may begin with
    None,               \* no leaf
    BufferSize,         \* GatewayTransitionBufferSize
    SubscriptionLimit,  \* 0 if subscribeSlots is nil
    MaxResets           \* bound: how often a target is reset

Request == [made : BOOLEAN,           \* FALSE if nobody makes the RPC
            mode : {"ONCE", "POLL", "STREAM"},
            only : BOOLEAN,           \* updates_only
            member : BOOLEAN,         \* the peer is a cluster member
            bad : BOOLEAN,            \* CompletePath returns an error
            leaves : SUBSET Leaf]     \* what it asks for

ASSUME RpcAssumption      == IsFiniteSet(Rpc)
ASSUME LeafAssumption     == IsFiniteSet(Leaf)
ASSUME RequestsAssumption == Requests \subseteq [Rpc -> Request]
ASSUME RemoteAssumption   == Remote \subseteq Leaf /\ None \notin Leaf
ASSUME BoundsAssumption   == /\ BufferSize \in Nat \ {0}
                             /\ SubscriptionLimit \in Nat /\ MaxResets \in Nat

VARIABLES
    \* the cache, and the way from it to the server
    present,   \* leaves that have a value
    gen,       \* generation of each leaf
    out,       \* what the goroutine of a target has yet to put into the buffer
    buffer,    \* the channel of the cache client "gnmi_server"
    slots,     \* length of subscribeSlots
    \* per RPC
    req,       \* the request it will begin with
    main,      \* Subscribe: "idle", "wait" on errC, or "done"
    queue, closed,
    errs,      \* length of errC
    walk,      \* processSubscription and processPollingSubscription
    left,      \* leaves that the walk has not visited yet
    send,      \* sendStreamingResults
    item,      \* what it is sending
    fresh,     \* no update since the value of item was read
    timer,     \* its timer, "ended" once the timer's goroutine has
    client,    \* "open", "eof" after half-closing, or "cancelled"
    view,      \* what the client has of each leaf
    owed,      \* leaves it must be sent before the next sync response
    asks       \* "waits" for its answer, "answered", or "hasty": it did not wait

cacheVars  == <<present, gen, out, buffer>>
walkVars   == <<walk, left, slots>>
sendVars   == <<send, item, timer>>
queueVars  == <<queue, closed>>
clientVars == <<view, owed, asks>>
vars == <<cacheVars, walkVars, sendVars, queueVars, clientVars, fresh, req, main,
          errs, client>>

Update(l, g) == <<"update", l, g>>
Delete(l, g) == <<"delete", l, g>>
SyncMarker   == <<"sync", None, 0>>
NoItem       == <<"none", None, 0>>
Item == {"update", "delete"} \X Leaf \X (0 .. MaxResets)
QueueItem == Item \cup {SyncMarker}

TypeOK ==
    /\ present \subseteq Leaf
    /\ gen \in [Leaf -> 0 .. MaxResets]
    /\ out \in [Leaf -> Item \cup {NoItem}]
    /\ buffer \in Seq(Item) /\ Len(buffer) <= BufferSize
    /\ slots \in 0 .. SubscriptionLimit
    /\ req \in Requests
    /\ main \in [Rpc -> {"idle", "wait", "done"}]
    /\ queue \in [Rpc -> Seq(QueueItem)]
    /\ closed \in [Rpc -> BOOLEAN]
    /\ errs \in [Rpc -> Nat]
    /\ walk \in [Rpc -> {"slot", "walk", "recv", "done"}]
    /\ left \in [Rpc -> SUBSET Leaf]
    /\ send \in [Rpc -> {"next", "send", "sync", "done"}]
    /\ item \in [Rpc -> Item \cup {NoItem}]
    /\ fresh \in [Rpc -> BOOLEAN]
    /\ timer \in [Rpc -> {"stopped", "armed", "fired", "ended"}]
    /\ client \in [Rpc -> {"open", "eof", "cancelled"}]
    /\ view \in [Rpc -> [Leaf -> {"none", "old", "current"}]]
    /\ owed \in [Rpc -> SUBSET Leaf]
    /\ asks \in [Rpc -> {"waits", "answered", "hasty"}]

Nothing == [l \in Leaf |-> "none"]

Init ==
    /\ present \in SUBSET Leaf
    /\ gen = [l \in Leaf |-> 0]
    /\ out = [l \in Leaf |-> NoItem]
    /\ buffer = <<>>
    /\ slots = 0
    /\ req \in Requests
    /\ main = [r \in Rpc |-> "idle"]
    /\ queue = [r \in Rpc |-> <<>>]
    /\ closed = [r \in Rpc |-> FALSE]
    /\ errs = [r \in Rpc |-> 0]
    /\ walk = [r \in Rpc |-> "done"]
    /\ left = [r \in Rpc |-> {}]
    /\ send = [r \in Rpc |-> "done"]
    /\ item = [r \in Rpc |-> NoItem]
    /\ fresh = [r \in Rpc |-> FALSE]
    /\ timer = [r \in Rpc |-> "ended"]
    /\ client = [r \in Rpc |-> "open"]
    /\ view = [r \in Rpc |-> Nothing]
    /\ owed = [r \in Rpc |-> {}]
    /\ asks = [r \in Rpc |-> "waits"]

\* coalesce.Queue.Insert of an open queue: an item that waits already is not
\* appended again.
Insert(q, i) == IF Contains(q, i) THEN q ELSE Append(q, i)

\* Mutant: the subscription is added when the walk of the cache has ended.
RegisteredAfterWalk(r) == main[r] = "wait" /\ req[r].mode = "STREAM" /\ walk[r] = "done"

\* The matcher knows a subscription from addSubscription to remove.
Registered(r) == main[r] = "wait" /\ req[r].mode = "STREAM"

\* The context of the stream ends with the client or with the RPC.
CtxDone(r) == client[r] = "cancelled" \/ main[r] = "done"

-----------------------------------------------------------------------------
(* The cache and the way to the server. *)

\* A new value reaches the cache; clients that had the last one have an old one.
Outdated(l) == view' = [r \in Rpc |-> [view[r] EXCEPT ![l] = IF @ = "current" THEN "old" ELSE @]]

CacheUpdate(l) ==
    /\ out[l] = NoItem
    /\ present' = present \cup {l}
    /\ out' = [out EXCEPT ![l] = Update(l, gen[l])]
    /\ Outdated(l)
    /\ fresh' = [r \in Rpc |-> fresh[r] /\ item[r] # Update(l, gen[l])]
    /\ UNCHANGED <<gen, buffer, walkVars, sendVars, queueVars, owed, asks, req, main,
                   errs, client>>

\* targetCache.Reset, when the connection to the target has gone.
CacheReset(l) ==
    /\ out[l] = NoItem
    /\ l \in present
    /\ gen[l] < MaxResets
    /\ present' = present \ {l}
    /\ gen' = [gen EXCEPT ![l] = @ + 1]
    /\ out' = [out EXCEPT ![l] = Delete(l, gen[l])]
    /\ Outdated(l)
    /\ owed' = [r \in Rpc |-> owed[r] \ {l}]
    /\ UNCHANGED <<buffer, walkVars, sendVars, queueVars, asks, fresh, req, main, errs,
                   client>>

\* sendUpdateToClients: blocks while the buffer is full.
Send(l) ==
    /\ out[l] # NoItem
    /\ Len(buffer) < BufferSize
    /\ buffer' = Append(buffer, out[l])
    /\ out' = [out EXCEPT ![l] = NoItem]
    /\ UNCHANGED <<present, gen, walkVars, sendVars, queueVars, clientVars, fresh, req, main,
                   errs, client>>

\* The cache client's goroutine calls Server.Update: every subscription that
\* matches gets the item.
ServerUpdate ==
    /\ buffer # <<>>
    /\ buffer' = Tail(buffer)
    /\ queue' = [r \in Rpc |->
                    IF Registered(r) /\ ~closed[r] /\ Head(buffer)[2] \in req[r].leaves
                    THEN Insert(queue[r], Head(buffer)) ELSE queue[r]]
    /\ UNCHANGED <<present, gen, out, walkVars, sendVars, closed, clientVars, fresh, req,
                   main, errs, client>>

-----------------------------------------------------------------------------
(* Subscribe. *)

\* The request is valid: the queue is made, a stream is registered, and the
\* other goroutines are started.
Subscribe(r) ==
    /\ main[r] = "idle"
    /\ req[r].made
    /\ main' = [main EXCEPT ![r] = "wait"]
    /\ LET walks == req[r].mode # "STREAM" \/ ~req[r].only IN
          /\ queue' = [queue EXCEPT ![r] = IF walks THEN <<>> ELSE <<SyncMarker>>]
          /\ walk' = [walk EXCEPT ![r] = IF walks THEN "slot" ELSE "done"]
    /\ owed' = [owed EXCEPT ![r] = IF req[r].only THEN {} ELSE present \cap req[r].leaves]
    /\ send' = [send EXCEPT ![r] = "next"]
    /\ timer' = [timer EXCEPT ![r] = "stopped"]
    /\ UNCHANGED <<cacheVars, left, slots, item, closed, view, asks, fresh, req, errs,
                   client>>

\* No such target, or the list of members cannot be had.
SubscribeRejected(r) ==
    /\ main[r] = "idle"
    /\ req[r].made
    /\ main' = [main EXCEPT ![r] = "done"]
    /\ UNCHANGED <<cacheVars, walkVars, sendVars, queueVars, clientVars, fresh, req, errs,
                   client>>

\* return <-errC, with remove and queue.Close deferred.  What the client had is
\* of no interest any more.
SubscribeReturns(r) ==
    /\ main[r] = "wait"
    /\ errs[r] > 0
    /\ errs' = [errs EXCEPT ![r] = @ - 1]
    /\ main' = [main EXCEPT ![r] = "done"]
    /\ closed' = [closed EXCEPT ![r] = TRUE]
    /\ view' = [view EXCEPT ![r] = Nothing]
    /\ owed' = [owed EXCEPT ![r] = {}]
    /\ UNCHANGED <<cacheVars, walkVars, sendVars, queue, asks, fresh, req, client>>

Err(r) == errs' = [errs EXCEPT ![r] = @ + 1]

-----------------------------------------------------------------------------
(* processSubscription, and the loop of processPollingSubscription. *)

AcquireSlot(r) ==
    /\ walk[r] = "slot"
    /\ \/ SubscriptionLimit = 0 /\ UNCHANGED slots
       \/ slots < SubscriptionLimit /\ slots' = slots + 1
    /\ walk' = [walk EXCEPT ![r] = "walk"]
    /\ left' = [left EXCEPT ![r] = IF req[r].only THEN {} ELSE req[r].leaves]
    /\ UNCHANGED <<cacheVars, sendVars, queueVars, clientVars, fresh, req, main, errs, client>>

ReleaseSlot == slots' = IF SubscriptionLimit = 0 THEN 0 ELSE slots - 1

\* Query visits the leaves in any order.
VisitLeaf(r, l) ==
    /\ walk[r] = "walk" /\ ~req[r].bad
    /\ l \in left[r]
    /\ l \in present => ~closed[r]
    /\ left' = [left EXCEPT ![r] = @ \ {l}]
    /\ queue' = [queue EXCEPT ![r] = IF l \in present THEN Insert(@, Update(l, gen[l])) ELSE @]
    /\ UNCHANGED <<cacheVars, walk, slots, sendVars, closed, clientVars, fresh, req, main,
                   errs, client>>

\* The path is bad, or Insert finds the queue closed.
WalkFails(r) ==
    /\ walk[r] = "walk"
    /\ \/ req[r].bad /\ left[r] # {}
       \/ closed[r] /\ (left[r] = {} \/ left[r] \cap present # {})
    /\ walk' = [walk EXCEPT ![r] = "done"]
    /\ left' = [left EXCEPT ![r] = {}]
    /\ ReleaseSlot
    /\ closed' = [closed EXCEPT ![r] = TRUE]
    /\ Err(r)
    /\ UNCHANGED <<cacheVars, sendVars, queue, clientVars, fresh, req, main, client>>

\* Mutant: the marker does not wait for the walk of the cache.
WalkEndsEarly(r) ==
    /\ walk[r] = "walk"
    /\ ~closed[r]
    /\ queue' = [queue EXCEPT ![r] = Insert(@, SyncMarker)]
    /\ closed' = [closed EXCEPT ![r] = req[r].mode = "ONCE"]
    /\ walk' = [walk EXCEPT ![r] = IF req[r].mode = "POLL" THEN "recv" ELSE "done"]
    /\ ReleaseSlot
    /\ UNCHANGED <<cacheVars, left, sendVars, clientVars, fresh, req, main, errs, client>>

\* Mutant: the slot is released on errors only.
WalkEndsKeepsSlot(r) ==
    /\ walk[r] = "walk"
    /\ left[r] = {}
    /\ ~closed[r]
    /\ queue' = [queue EXCEPT ![r] = Insert(@, SyncMarker)]
    /\ closed' = [closed EXCEPT ![r] = req[r].mode = "ONCE"]
    /\ walk' = [walk EXCEPT ![r] = IF req[r].mode = "POLL" THEN "recv" ELSE "done"]
    /\ UNCHANGED <<cacheVars, left, slots, sendVars, clientVars, fresh, req, main, errs, client>>

\* Mutant: Insert waits until the sender has taken what is in the queue.
WalkEndsBlocks(r) ==
    /\ walk[r] = "walk"
    /\ left[r] = {}
    /\ ~closed[r]
    /\ queue[r] = <<>>
    /\ queue' = [queue EXCEPT ![r] = <<SyncMarker>>]
    /\ closed' = [closed EXCEPT ![r] = req[r].mode = "ONCE"]
    /\ walk' = [walk EXCEPT ![r] = IF req[r].mode = "POLL" THEN "recv" ELSE "done"]
    /\ ReleaseSlot
    /\ UNCHANGED <<cacheVars, left, sendVars, clientVars, fresh, req, main, errs, client>>

\* The sync marker follows; a ONCE subscription closes the queue behind it.
WalkEnds(r) ==
    /\ walk[r] = "walk"
    /\ left[r] = {}
    /\ ~closed[r]
    /\ queue' = [queue EXCEPT ![r] = Insert(@, SyncMarker)]
    /\ closed' = [closed EXCEPT ![r] = req[r].mode = "ONCE"]
    /\ walk' = [walk EXCEPT ![r] = IF req[r].mode = "POLL" THEN "recv" ELSE "done"]
    /\ ReleaseSlot
    /\ UNCHANGED <<cacheVars, left, sendVars, clientVars, fresh, req, main, errs, client>>

PollAgain(r) ==
    /\ walk[r] = "recv"
    /\ client[r] = "open" /\ ~CtxDone(r)
    /\ walk' = [walk EXCEPT ![r] = "slot"]
    /\ owed' = [owed EXCEPT ![r] = IF asks[r] = "answered" /\ ~req[r].only
                                   THEN present \cap req[r].leaves ELSE {}]
    /\ asks' = [asks EXCEPT ![r] = IF @ = "answered" THEN "waits" ELSE "hasty"]
    /\ UNCHANGED <<cacheVars, left, slots, sendVars, queueVars, view, fresh, req, main, errs,
                   client>>

\* io.EOF, or the queue is closed: the loop ends, and nobody is told.
PollEof(r) ==
    /\ walk[r] = "recv"
    /\ client[r] = "eof" \/ closed[r]
    /\ walk' = [walk EXCEPT ![r] = "done"]
    /\ UNCHANGED <<cacheVars, left, slots, sendVars, queueVars, clientVars, fresh, req, main,
                   errs, client>>

\* Mutant: the slot is released once more.
PollFailsReleases(r) ==
    /\ walk[r] = "recv"
    /\ CtxDone(r)
    /\ walk' = [walk EXCEPT ![r] = "done"]
    /\ ReleaseSlot
    /\ Err(r)
    /\ UNCHANGED <<cacheVars, left, sendVars, queueVars, clientVars, fresh, req, main, client>>

PollFails(r) ==
    /\ walk[r] = "recv"
    /\ CtxDone(r)
    /\ walk' = [walk EXCEPT ![r] = "done"]
    /\ Err(r)
    /\ UNCHANGED <<cacheVars, left, slots, sendVars, queueVars, clientVars, fresh, req, main,
                   client>>

Walker(r) ==
    \/ WalkFails(r) \/ WalkEnds(r) \/ PollEof(r) \/ PollFails(r)
    \/ \E l \in Leaf : VisitLeaf(r, l)

-----------------------------------------------------------------------------
(* sendStreamingResults and its timer. *)

Goto(r, p, i) ==
    /\ send' = [send EXCEPT ![r] = p]
    /\ item' = [item EXCEPT ![r] = i]
    /\ fresh' = [fresh EXCEPT ![r] = i # NoItem]

NextSync(r) ==
    /\ send[r] = "next"
    /\ queue[r] # <<>> /\ Head(queue[r]) = SyncMarker
    /\ queue' = [queue EXCEPT ![r] = Tail(@)]
    /\ Goto(r, "sync", NoItem)
    /\ UNCHANGED <<cacheVars, walkVars, timer, closed, clientVars, req, main, errs,
                   client>>

\* Forwardable is asked about each item anew: what is Remote may be forwarded at
\* one time and not at another, as locks come and go.
Refusable(r, i) == req[r].member /\ i[2] \in Remote

\* MakeSubscribeResponse reads the value, and the timer is set.
NextItem(r) ==
    /\ send[r] = "next"
    /\ queue[r] # <<>> /\ Head(queue[r]) # SyncMarker
    /\ queue' = [queue EXCEPT ![r] = Tail(@)]
    /\ Goto(r, "send", Head(queue[r]))
    /\ timer' = [timer EXCEPT ![r] = IF @ = "stopped" THEN "armed" ELSE @]
    /\ UNCHANGED <<cacheVars, walkVars, closed, clientVars, req, main, errs, client>>

\* A member must not have the item: the goroutine returns, and nobody is told.
NextNotForwardable(r) ==
    /\ send[r] = "next"
    /\ queue[r] # <<>> /\ Head(queue[r]) # SyncMarker
    /\ Refusable(r, Head(queue[r]))
    /\ queue' = [queue EXCEPT ![r] = Tail(@)]
    /\ Goto(r, "done", NoItem)
    /\ UNCHANGED <<cacheVars, walkVars, timer, closed, clientVars, req, main, errs,
                   client>>

\* Mutant: the end of the queue is not reported.
NextFailsSilently(r) ==
    /\ send[r] = "next"
    /\ queue[r] = <<>>
    /\ closed[r] \/ CtxDone(r)
    /\ Goto(r, "done", NoItem)
    /\ UNCHANGED <<cacheVars, walkVars, timer, queueVars, clientVars, req, main, errs, client>>

\* Next returns the items of a closed queue before it returns an error.
NextFails(r) ==
    /\ send[r] = "next"
    /\ queue[r] = <<>>
    /\ closed[r] \/ CtxDone(r)
    /\ Goto(r, "done", NoItem)
    /\ Err(r)
    /\ UNCHANGED <<cacheVars, walkVars, timer, queueVars, clientVars, req, main, client>>

\* The client gets what is being sent.
Sent(r) ==
    /\ send[r] = "send"
    /\ ~CtxDone(r)
    /\ LET l == item[r][2] IN
          /\ view' = [view EXCEPT ![r][l] =
                        IF item[r][1] = "delete" THEN "none"
                        ELSE IF fresh[r] /\ item[r] = Update(l, gen[l]) THEN "current"
                        ELSE "old"]
          /\ owed' = [owed EXCEPT ![r] = @ \ {l}]
    /\ Goto(r, "next", NoItem)
    /\ timer' = [timer EXCEPT ![r] = IF @ = "armed" THEN "stopped" ELSE @]
    /\ UNCHANGED <<cacheVars, walkVars, queueVars, asks, req, main, errs, client>>

SentSync(r) ==
    /\ send[r] = "sync"
    /\ ~CtxDone(r)
    /\ asks' = [asks EXCEPT ![r] = IF @ = "hasty" THEN @ ELSE "answered"]
    /\ Goto(r, "next", NoItem)
    /\ UNCHANGED <<cacheVars, walkVars, timer, queueVars, view, owed, req, main, errs,
                   client>>

\* Mutant: the loop goes on with the next item.
SendFailsGoesOn(r) ==
    /\ send[r] \in {"send", "sync"}
    /\ CtxDone(r)
    /\ Goto(r, "next", NoItem)
    /\ Err(r)
    /\ timer' = [timer EXCEPT ![r] = IF @ = "armed" THEN "stopped" ELSE @]
    /\ UNCHANGED <<cacheVars, walkVars, queueVars, clientVars, req, main, client>>

SendFails(r) ==
    /\ send[r] \in {"send", "sync"}
    /\ CtxDone(r)
    /\ Goto(r, "done", NoItem)
    /\ Err(r)
    /\ timer' = [timer EXCEPT ![r] = IF @ = "armed" THEN "stopped" ELSE @]
    /\ UNCHANGED <<cacheVars, walkVars, queueVars, clientVars, req, main, client>>

TimerFires(r) ==
    /\ timer[r] = "armed"
    /\ timer' = [timer EXCEPT ![r] = "fired"]
    /\ UNCHANGED <<cacheVars, walkVars, send, item, queueVars, clientVars, fresh, req, main,
                   errs, client>>

\* Mutant: the timeout is logged only.
TimerErrLogs(r) ==
    /\ timer[r] = "fired"
    /\ timer' = [timer EXCEPT ![r] = "ended"]
    /\ UNCHANGED <<cacheVars, walkVars, send, item, queueVars, clientVars, fresh, req, main,
                   errs, client>>

TimerErr(r) ==
    /\ timer[r] = "fired"
    /\ timer' = [timer EXCEPT ![r] = "ended"]
    /\ Err(r)
    /\ UNCHANGED <<cacheVars, walkVars, send, item, queueVars, clientVars, fresh, req, main,
                   client>>

TimerDone(r) ==
    /\ send[r] = "done" /\ timer[r] # "ended"
    /\ timer' = [timer EXCEPT ![r] = "ended"]
    /\ UNCHANGED <<cacheVars, walkVars, send, item, queueVars, clientVars, fresh, req, main,
                   errs, client>>

Sender(r) ==
    NextSync(r) \/ NextItem(r) \/ NextNotForwardable(r) \/ NextFails(r) \/ SendFails(r)

Timer(r) == TimerFires(r) \/ TimerErr(r) \/ TimerDone(r)

-----------------------------------------------------------------------------
(* The client of an RPC (external). *)

\* Only a polling RPC receives, and so sees it.
HalfClose(r) ==
    /\ main[r] = "wait" /\ client[r] = "open" /\ req[r].mode = "POLL"
    /\ client' = [client EXCEPT ![r] = "eof"]
    /\ UNCHANGED <<cacheVars, walkVars, sendVars, queueVars, clientVars, fresh, req, main, errs>>

Cancel(r) ==
    /\ main[r] = "wait" /\ client[r] # "cancelled"
    /\ client' = [client EXCEPT ![r] = "cancelled"]
    /\ UNCHANGED <<cacheVars, walkVars, sendVars, queueVars, clientVars, fresh, req, main, errs>>

Next ==
    \/ \E l \in Leaf : CacheUpdate(l) \/ CacheReset(l) \/ Send(l)
    \/ ServerUpdate
    \/ \E r \in Rpc :
          \/ Subscribe(r) \/ SubscribeRejected(r) \/ SubscribeReturns(r)
          \/ AcquireSlot(r) \/ Walker(r) \/ PollAgain(r)
          \/ Sender(r) \/ Sent(r) \/ SentSync(r) \/ Timer(r)
          \/ HalfClose(r) \/ Cancel(r)

Spec == Init /\ [][Next]_vars

\* Goroutines run, and goroutines that wait for a slot are served in turn.  A
\* client may stop reading: nothing is assumed of Sent and SentSync.
Fairness ==
    /\ \A l \in Leaf : WF_vars(Send(l))
    /\ WF_vars(ServerUpdate)
    /\ \A r \in Rpc :
          /\ WF_vars(SubscribeReturns(r)) /\ WF_vars(Walker(r)) /\ SF_vars(AcquireSlot(r))
          /\ WF_vars(Sender(r)) /\ WF_vars(Timer(r))

FairSpec == Spec /\ Fairness

-----------------------------------------------------------------------------
(* Properties. *)

InBuffer(i) == Contains(buffer, i)

\* An update of l is on its way to r: before or in the buffer, in the queue, in
\* the sender's hands with no later one, or in the part not walked yet.
OnItsWay(r, l) ==
    \/ out[l] = Update(l, gen[l]) \/ InBuffer(Update(l, gen[l]))
    \/ Contains(queue[r], Update(l, gen[l]))
    \/ item[r] = Update(l, gen[l]) /\ fresh[r]
    \/ walk[r] = "slot" \/ l \in left[r]

\* While a target is not reset, no update is lost to a stream that is served: not
\* between addSubscription, the walk and the buffer, and not by coalescing with a
\* leaf that is being sent (server.go:281-285, 405-418, 475-522).
NoLostUpdate ==
    \A r \in Rpc, l \in Leaf :
        /\ Registered(r) /\ ~req[r].only /\ ~closed[r] /\ send[r] # "done"
        /\ l \in req[r].leaves \cap present /\ gen[l] = 0
        => view[r][l] = "current" \/ OnItsWay(r, l)

\* "subscribeSync is a response indicating that a Subscribe RPC has successfully
\* returned all matching nodes once" (server.go:332-334): when it is sent, every
\* leaf that the cache had when the client asked has been sent.  Of a client that
\* polls again before it has its answer nothing is said: markers coalesce.
SyncAfterLeaves == \A r \in Rpc : send[r] = "sync" => owed[r] = {}

\* errC "is buffered to accept errors from all goroutines spawned for this RPC"
\* (server.go:258-261): with a capacity of 3 none of them ever blocks on it.
ErrCHoldsAll == \A r \in Rpc : errs[r] <= 3

\* The slots that are taken are those of the walks that run, whichever way each of
\* them ends (server.go:380-396).
SlotsMatchWalks ==
    SubscriptionLimit > 0 => slots = Cardinality({r \in Rpc : walk[r] = "walk"})

\* No goroutine of the RPC is left, and the RPC has returned.
GoroutinesEnded(r) == walk[r] = "done" /\ send[r] = "done" /\ timer[r] = "ended"
Ended(r) == main[r] = "done" /\ GoroutinesEnded(r)

\* An RPC that has not begun has no goroutines, no queue that could be closed and a
\* client that is there.
IdleHasNone ==
    \A r \in Rpc : main[r] = "idle" => /\ GoroutinesEnded(r) /\ errs[r] = 0 /\ ~closed[r]
                                       /\ client[r] = "open"

Once(b) == IF b THEN 1 ELSE 0

\* Each goroutine answers on errC at most once, as its last step.
ErrsAccounted ==
    \A r \in Rpc :
        errs[r] <= Once(walk[r] = "done") + Once(send[r] = "done") + Once(timer[r] = "ended")

\* What is sent with a value that is not the newest does not replace the newest.
StaleIsOutdated ==
    \A r \in Rpc, l \in Leaf :
        item[r] = Update(l, gen[l]) /\ ~fresh[r] => view[r][l] # "current"

\* Between two sends the sender has nothing in its hands.
ItemIsSent == \A r \in Rpc : send[r] # "send" => item[r] = NoItem

\* What is on its way is of a generation that there has been, an update of the
\* present one only if there is the leaf, and a delete of one that has been reset.
NotEarly ==
    {i \in QueueItem \cup {NoItem} :
        /\ i[1] = "update" => \/ i[3] < gen[i[2]]
                              \/ i[3] = gen[i[2]] /\ i[2] \in present
        /\ i[1] = "delete" => i[3] < gen[i[2]]}

NothingIsEarly ==
    /\ out \in [Leaf -> NotEarly] /\ buffer \in Seq(NotEarly)
    /\ queue \in [Rpc -> Seq(NotEarly)] /\ item \in [Rpc -> NotEarly]

\* Leaves are left to visit only while a walk runs.
LeftMeansWalking == \A r \in Rpc : left[r] # {} => walk[r] = "walk"

\* A client has nothing that was never in the cache.
ViewWasCached ==
    \A r \in Rpc, l \in Leaf : view[r][l] # "none" => l \in present \/ gen[l] > 0

\* The sender and the timer of an RPC are there, its queue is open but behind the
\* whole walk of a ONCE request, and the polling goroutine ends only for a client
\* that polls no more.
StillServed(r) ==
    /\ send[r] # "done" /\ timer[r] # "ended"
    /\ closed[r] => req[r].mode = "ONCE" /\ walk[r] = "done"
    /\ req[r].mode = "POLL" /\ walk[r] = "done" => client[r] # "open"
    /\ walk[r] = "recv" => req[r].mode = "POLL"

\* An RPC that waits on errC and has no answer yet is still served: each way out of
\* its goroutines, but those of StillServed, leaves an answer for return <-errC
\* (server.go:294, 348-377, 405-425, 463-522); a cluster member's may not, see
\* SenderEndsRpc.
AnswerIsLeft ==
    \A r \in Rpc : main[r] = "wait" /\ errs[r] = 0 /\ ~req[r].member => StillServed(r)

\* The inductive invariant from which these are proved (SubscribeProofs): the types,
\* the answers and slots of the goroutines, and what is on its way to a client.
IInv ==
    /\ TypeOK
    /\ SlotsMatchWalks
    /\ IdleHasNone
    /\ ErrsAccounted
    /\ NoLostUpdate
    /\ StaleIsOutdated
    /\ ItemIsSent
    /\ NothingIsEarly
    /\ LeftMeansWalking
    /\ ViewWasCached
    /\ AnswerIsLeft

\* A stream whose target has not been reset converges: when nothing is on its way
\* any more, the client has what the cache has, whatever the order in which
\* walk, updates and sends were done and coalesced (server.go:281-285, 405-418,
\* 475-522).  With a reset that is not so, see ClientConverges.
ConvergesWithoutReset ==
    \A r \in Rpc, l \in Leaf :
        /\ Registered(r) /\ ~req[r].only /\ ~closed[r] /\ l \in req[r].leaves
        /\ walk[r] = "done" /\ send[r] = "next" /\ queue[r] = <<>>
        /\ buffer = <<>> /\ out[l] = NoItem /\ gen[l] = 0
        => view[r][l] = (IF l \in present THEN "current" ELSE "none")

\* Once the client has gone the RPC returns and none of its goroutines is left
\* behind (server.go:294, 437-446, 475-483, 520), unless it was a cluster member:
\* see SenderEndsRpc.
AbandonedEnds ==
    \A r \in Rpc : client[r] = "cancelled" /\ ~req[r].member ~> Ended(r)

\* What the goroutines of an RPC have yet to do when its client has gone: the walk,
\* the item in the sender's hands, the timer, and return <-errC.
WalkSteps(r) == CASE walk[r] = "slot" -> Cardinality(Leaf) + 3
                  [] walk[r] = "walk" -> Cardinality(left[r]) + 2
                  [] walk[r] = "recv" -> 1
                  [] walk[r] = "done" -> 0
SendSteps(r) == CASE send[r] = "next" -> 3 [] send[r] = "done" -> 0 [] OTHER -> 1
TimerSteps(r) == CASE timer[r] = "armed" -> 2 [] timer[r] = "ended" -> 0 [] OTHER -> 1
Steps(r) == WalkSteps(r) + SendSteps(r) + TimerSteps(r) + Once(main[r] = "wait")

\* Of an RPC whose client has gone every goroutine goes towards its end and never
\* back, whatever the others do and however much there is in the queue; where there
\* is nothing left to do, the RPC has ended (server.go:294, 387-425, 437-522).
\* This is what AbandonedEnds rests on, for members too.
AbandonedWindsDown ==
    [][\A r \in Rpc : client[r] = "cancelled" =>
          /\ client'[r] = "cancelled"
          /\ Steps(r) = 0 => Ended(r)
          /\ \/ Steps(r)' < Steps(r)
             \/ UNCHANGED <<main[r], walk[r], left[r], send[r], item[r], timer[r]>>]_vars

\* "If a send doesn't occur within the timeout, close the stream" (server.go:464):
\* the send of a notification does not last for ever, also if the client does
\* not read; nor does it leave a goroutine behind.
StalledSendEnds ==
    \A r \in Rpc : send[r] = "send" ~> send[r] = "next" \/ Ended(r)

\* A walk that waits for a subscription slot gets one (server.go:380-396), while
\* other RPCs take slots again and again: the walk that has one neither keeps it
\* nor waits in it for a client of its own that does not read.
SlotIsFreed == \A r \in Rpc : walk[r] = "slot" ~> walk[r] # "slot"

-----------------------------------------------------------------------------
(* What comments of the repository say, and the code does not do.          *)

\* "Streaming queries send responses for the initial walk of the results as well
\* as streamed updates and use a queue to ensure order" (server.go:304-307): when
\* nothing is on its way any more, a client that has read everything has what
\* the cache has.
ClientConverges ==
    \A r \in Rpc, l \in Leaf :
        /\ Registered(r) /\ ~req[r].only /\ l \in req[r].leaves
        /\ walk[r] = "done" /\ send[r] = "next" /\ queue[r] = <<>>
        /\ buffer = <<>> /\ out[l] = NoItem
        => view[r][l] = (IF l \in present THEN "current" ELSE "none")

\* "Only the first is ever read and returned causing the RPC to terminate"
\* (server.go:258-260): when sendStreamingResults has returned, so does the RPC.
SenderEndsRpc == \A r \in Rpc : main[r] = "wait" /\ send[r] = "done" ~> main[r] = "done"
=============================================================================
