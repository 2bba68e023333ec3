------------------------------- MODULE ZkLock -------------------------------
(***************************************************************************)
(* ZookeeperNonBlockingLock (gateway/locking/zookeeper.go): the per-target *)
(* lock with which gateways agree on which of them connects to a target.   *)
(* Every lock instance here has the same id, so that all of them compete.  *)
(*                                                                         *)
(* An instance is used by the goroutine of connectWithLock (its User) and  *)
(* by the watchState goroutines that successful calls of Try start.  The   *)
(* server, the sessions and the client library's connection state machine  *)
(* are external: they are modelled as far as the lock can observe them.    *)
(***************************************************************************)
EXTENDS Integers, FiniteSets

CONSTANTS
    Lock,        \* lock instances, one per ConnectionState that uses the lock
    Conn,        \* ZooKeeper client connections, one per gateway process
    ConnOf,      \* the connection each instance was created with
    User,        \* the connectWithLock goroutine of an instance
    Watcher,     \* watchState goroutines one instance may have at one time
    NoThread,    \* "nobody holds unlockMutex"
    MaxSeq,      \* bound: sequence numbers the server hands out
    MaxFaults    \* bound: dropped connections and expired sessions

ASSUME ConnAssumption   == ConnOf \in [Lock -> Conn]
ASSUME ThreadAssumption == User \notin Watcher /\ NoThread \notin Watcher \cup {User}
ASSUME BoundAssumption  == MaxSeq \in Nat /\ MaxFaults \in Nat

Thread == Watcher \cup {User}
Seq1   == 1 .. MaxSeq
NoPath == 0           \* lockPath = "", and "no node created yet" for made

VARIABLES
    parent,      \* TRUE iff the node that is the parent of the lock nodes exists
    nextSeq,     \* the sequence number the server gives to the next lock node
    znodes,      \* the lock nodes: their number and the instance that made them
    sess,        \* state of each connection's session at the server
    connState,   \* zk.Conn.State() of each connection
    faults,      \* faults so far
    lockPath,    \* l.lockPath, reduced to its sequence number
    acquired,    \* l.acquired
    mutex,       \* holder of l.unlockMutex
    pc,          \* control state of each goroutine of each instance
    made,        \* local of try: the node that Create made
    seen,        \* local of try: the lowest sequence number read
    reply,       \* the server's answer to Unlock's Delete
    connLock     \* t.ConnectionLockAcquired of the instance's user

serverVars == <<parent, nextSeq, znodes>>
clientVars == <<sess, connState, faults>>
fieldVars  == <<lockPath, acquired, mutex>>
localVars  == <<made, seen, reply>>
vars == <<serverVars, clientVars, fieldVars, localVars, pc, connLock>>

Node == [seq : Seq1, lock : Lock]

UserPC  == {"idle", "create", "mkparent", "children", "decide", "undo",
            "noLock", "gotLock", "connected"}
UnlockPC == {"unlock", "delete", "clear"}
WatchPC == {"off", "watch", "check"}

\* Watchers never try, and connectWithLock never watches.
OwnPlaces ==
    \A l \in Lock, t \in Thread :
        pc[l][t] \in UnlockPC \cup (IF t = User THEN UserPC ELSE WatchPC)

TypeOK ==
    /\ parent \in BOOLEAN
    /\ nextSeq \in 1 .. MaxSeq + 1
    /\ znodes \subseteq Node
    /\ sess \in [Conn -> {"none", "live", "expired"}]
    /\ connState \in [Conn -> {"Disconnected", "Connected", "HasSession"}]
    /\ faults \in 0 .. MaxFaults
    /\ lockPath \in [Lock -> Seq1 \cup {NoPath}]
    /\ acquired \in [Lock -> BOOLEAN]
    /\ mutex \in [Lock -> Thread \cup {NoThread}]
    /\ pc \in [Lock -> [Thread -> UserPC \cup UnlockPC \cup WatchPC]]
    /\ OwnPlaces
    /\ made \in [Lock -> Seq1 \cup {NoPath}]
    /\ seen \in [Lock -> Seq1 \cup {NoPath}]
    /\ reply \in [Lock -> {"none", "ok", "nonode"}]
    /\ connLock \in [Lock -> BOOLEAN]

Init ==
    /\ parent \in BOOLEAN
    /\ nextSeq = 1
    /\ znodes = {}
    /\ sess = [c \in Conn |-> "none"]
    /\ connState = [c \in Conn |-> "Disconnected"]
    /\ faults = 0
    /\ lockPath = [l \in Lock |-> NoPath]
    /\ acquired = [l \in Lock |-> FALSE]
    /\ mutex = [l \in Lock |-> NoThread]
    /\ pc = [l \in Lock |-> [t \in Thread |-> IF t = User THEN "idle" ELSE "off"]]
    /\ made = [l \in Lock |-> NoPath]
    /\ seen = [l \in Lock |-> NoPath]
    /\ reply = [l \in Lock |-> "none"]
    /\ connLock = [l \in Lock |-> FALSE]

At(l, t, p) == pc[l][t] = p
Goto(l, t, p) == pc' = [pc EXCEPT ![l][t] = p]

\* The condition under which Try calls try, and watchState keeps waiting.
Up(l) == connState[ConnOf[l]] \in {"Connected", "HasSession"}
HasSession(l) == connState[ConnOf[l]] = "HasSession"
\* The server executes a request only in a live session that is connected.
Online(l) == HasSession(l) /\ sess[ConnOf[l]] = "live"

NodeExists(l, s) == [seq |-> s, lock |-> l] \in znodes
Remove(l, s) == znodes' = znodes \ {[seq |-> s, lock |-> l]}

-----------------------------------------------------------------------------
(* The connection, its session and the network (external). *)

Dial(c) ==
    /\ connState[c] = "Disconnected"
    /\ connState' = [connState EXCEPT ![c] = "Connected"]
    /\ UNCHANGED <<serverVars, sess, faults, fieldVars, localVars, pc, connLock>>

Authenticate(c) ==
    /\ connState[c] = "Connected"
    /\ sess[c] # "expired"
    /\ connState' = [connState EXCEPT ![c] = "HasSession"]
    /\ sess' = [sess EXCEPT ![c] = "live"]
    /\ UNCHANGED <<serverVars, faults, fieldVars, localVars, pc, connLock>>

\* The client learns only on reconnection that its session has expired.
RejectSession(c) ==
    /\ connState[c] = "Connected"
    /\ sess[c] = "expired"
    /\ connState' = [connState EXCEPT ![c] = "Disconnected"]
    /\ sess' = [sess EXCEPT ![c] = "none"]
    /\ UNCHANGED <<serverVars, faults, fieldVars, localVars, pc, connLock>>

\* A server drops the connection of an expired session in any case; other
\* losses of the connection are faults.
Drop(c) ==
    /\ connState[c] # "Disconnected"
    /\ \/ sess[c] = "expired" /\ UNCHANGED faults
       \/ sess[c] # "expired" /\ faults < MaxFaults /\ faults' = faults + 1
    /\ connState' = [connState EXCEPT ![c] = "Disconnected"]
    /\ UNCHANGED <<serverVars, sess, fieldVars, localVars, pc, connLock>>

\* The server expires a session and removes its ephemeral nodes.
Expire(c) ==
    /\ sess[c] = "live"
    /\ faults < MaxFaults
    /\ faults' = faults + 1
    /\ sess' = [sess EXCEPT ![c] = "expired"]
    /\ znodes' = {z \in znodes : ConnOf[z.lock] # c}
    /\ UNCHANGED <<parent, nextSeq, connState, fieldVars, localVars, pc, connLock>>

-----------------------------------------------------------------------------
(* Try and try, called by connectWithLock.  While the connection is not up *)
(* Try changes nothing, so that call is not a step.                        *)

\* lockPath != "": try returns true and ErrDeadlock.
TryDeadlock(l) ==
    /\ At(l, User, "idle")
    /\ Up(l)
    /\ lockPath[l] # NoPath
    /\ Goto(l, User, "gotLock")
    /\ UNCHANGED <<serverVars, clientVars, fieldVars, localVars, connLock>>

\* Mutant: the check for ErrDeadlock is missing.
TryCreateAlways(l) ==
    /\ At(l, User, "idle")
    /\ Up(l)
    /\ Goto(l, User, "create")
    /\ UNCHANGED <<serverVars, clientVars, fieldVars, localVars, connLock>>

TryCreate(l) ==
    /\ At(l, User, "idle")
    /\ Up(l)
    /\ lockPath[l] = NoPath
    /\ Goto(l, User, "create")
    /\ UNCHANGED <<serverVars, clientVars, fieldVars, localVars, connLock>>

\* The server executes the Create of CreateProtectedEphemeralSequential.
ZkCreate(l) ==
    /\ At(l, User, "create")
    /\ Online(l)
    /\ parent
    /\ made[l] = NoPath
    /\ nextSeq <= MaxSeq
    /\ znodes' = znodes \cup {[seq |-> nextSeq, lock |-> l]}
    /\ made' = [made EXCEPT ![l] = nextSeq]
    /\ nextSeq' = nextSeq + 1
    /\ UNCHANGED <<parent, clientVars, fieldVars, seen, reply, pc, connLock>>

\* The call returns the node it made: from the server's answer or, when that
\* was lost, from its search for the node among the children.
CreateReturns(l) ==
    /\ At(l, User, "create")
    /\ HasSession(l)
    /\ NodeExists(l, made[l])
    /\ Goto(l, User, "children")
    /\ UNCHANGED <<serverVars, clientVars, fieldVars, localVars, connLock>>

\* The session that made the node expired: the call creates another one.
CreateAgain(l) ==
    /\ At(l, User, "create")
    /\ Online(l)
    /\ made[l] # NoPath
    /\ ~NodeExists(l, made[l])
    /\ made' = [made EXCEPT ![l] = NoPath]
    /\ UNCHANGED <<serverVars, clientVars, fieldVars, seen, reply, pc, connLock>>

\* The call gives up; a node it made stays until the session ends.
CreateFails(l) ==
    /\ At(l, User, "create")
    /\ ~HasSession(l)
    /\ Goto(l, User, "noLock")
    /\ UNCHANGED <<serverVars, clientVars, fieldVars, localVars, connLock>>

\* ErrNoNode: try creates the parents and calls Create again.
CreateNoParent(l) ==
    /\ At(l, User, "create")
    /\ Online(l)
    /\ ~parent
    /\ Goto(l, User, "mkparent")
    /\ UNCHANGED <<serverVars, clientVars, fieldVars, localVars, connLock>>

CreateParentPath(l) ==
    /\ At(l, User, "mkparent")
    /\ Online(l)
    /\ parent' = TRUE
    /\ Goto(l, User, "create")
    /\ UNCHANGED <<nextSeq, znodes, clientVars, fieldVars, localVars, connLock>>

CreateParentPathFails(l) ==
    /\ At(l, User, "mkparent")
    /\ ~HasSession(l)
    /\ Goto(l, User, "noLock")
    /\ UNCHANGED <<serverVars, clientVars, fieldVars, localVars, connLock>>

\* What lowestSeqChild returns for the children cs; NoPath stands for its -1.
IsLowest(s, cs) ==
    \/ \E z \in cs : s = z.seq /\ \A y \in cs : s <= y.seq
    \/ cs = {} /\ s = NoPath

\* Mutant: the comparison of the numbers is the wrong way round.
HighestSeqChild(l) ==
    /\ At(l, User, "children")
    /\ Online(l)
    /\ \E s \in Seq1 \cup {NoPath} :
          /\ \/ \E z \in znodes : s = z.seq /\ \A y \in znodes : s >= y.seq
             \/ znodes = {} /\ s = NoPath
          /\ seen' = [seen EXCEPT ![l] = s]
    /\ Goto(l, User, "decide")
    /\ UNCHANGED <<serverVars, clientVars, fieldVars, made, reply, connLock>>

\* Mutant: any other node, older or not, counts as one that was there first.
OtherSeqChild(l) ==
    /\ At(l, User, "children")
    /\ Online(l)
    /\ LET others == {z \in znodes : z.lock # l}
       IN \E s \in Seq1 \cup {NoPath} :
             /\ IsLowest(s, IF others = {} THEN znodes ELSE others)
             /\ seen' = [seen EXCEPT ![l] = s]
    /\ Goto(l, User, "decide")
    /\ UNCHANGED <<serverVars, clientVars, fieldVars, made, reply, connLock>>

LowestSeqChild(l) ==
    /\ At(l, User, "children")
    /\ Online(l)
    /\ \E s \in Seq1 \cup {NoPath} :
          /\ IsLowest(s, znodes)
          /\ seen' = [seen EXCEPT ![l] = s]
    /\ Goto(l, User, "decide")
    /\ UNCHANGED <<serverVars, clientVars, fieldVars, made, reply, connLock>>

LowestSeqChildFails(l) ==
    /\ At(l, User, "children")
    /\ ~HasSession(l)
    /\ Goto(l, User, "undo")
    /\ UNCHANGED <<serverVars, clientVars, fieldVars, localVars, connLock>>

\* Mutant: the lock is taken without comparing.
TakeLockAlways(l) ==
    /\ At(l, User, "decide")
    /\ lockPath' = [lockPath EXCEPT ![l] = made[l]]
    /\ Goto(l, User, "gotLock")
    /\ UNCHANGED <<serverVars, clientVars, acquired, mutex, localVars, connLock>>

\* seq == lowestSeq: the lock is taken from what was read, however old.
TakeLock(l) ==
    /\ At(l, User, "decide")
    /\ seen[l] = made[l]
    /\ lockPath' = [lockPath EXCEPT ![l] = made[l]]
    /\ Goto(l, User, "gotLock")
    /\ UNCHANGED <<serverVars, clientVars, acquired, mutex, localVars, connLock>>

\* Mutant: try returns without deleting the node that lost.
NotLowestKeepsNode(l) ==
    /\ At(l, User, "decide")
    /\ seen[l] # made[l]
    /\ Goto(l, User, "noLock")
    /\ UNCHANGED <<serverVars, clientVars, fieldVars, localVars, connLock>>

NotLowest(l) ==
    /\ At(l, User, "decide")
    /\ seen[l] # made[l]
    /\ Goto(l, User, "undo")
    /\ UNCHANGED <<serverVars, clientVars, fieldVars, localVars, connLock>>

\* The Delete of a node that did not become the lock.  try returns false
\* whatever its outcome, so the answer is not a step of its own.
UndoCreate(l) ==
    /\ At(l, User, "undo")
    /\ Online(l)
    /\ Remove(l, made[l])
    /\ Goto(l, User, "noLock")
    /\ UNCHANGED <<parent, nextSeq, clientVars, fieldVars, localVars, connLock>>

UndoCreateFails(l) ==
    /\ At(l, User, "undo")
    /\ ~HasSession(l)
    /\ Goto(l, User, "noLock")
    /\ UNCHANGED <<serverVars, clientVars, fieldVars, localVars, connLock>>

\* The locals of try are gone once it has returned.
ForgetLocals(l) ==
    /\ made' = [made EXCEPT ![l] = NoPath]
    /\ seen' = [seen EXCEPT ![l] = NoPath]
    /\ UNCHANGED reply

\* try returned true: Try sets acquired and starts watchState.
TryTrue(l) ==
    /\ At(l, User, "gotLock")
    /\ acquired' = [acquired EXCEPT ![l] = TRUE]
    /\ connLock' = [connLock EXCEPT ![l] = TRUE]
    /\ \E w \in Watcher :
          /\ At(l, w, "off")
          /\ pc' = [pc EXCEPT ![l][User] = "connected", ![l][w] = "watch"]
    /\ ForgetLocals(l)
    /\ UNCHANGED <<serverVars, clientVars, lockPath, mutex>>

TryFalse(l) ==
    /\ At(l, User, "noLock")
    /\ acquired' = [acquired EXCEPT ![l] = FALSE]
    /\ ForgetLocals(l)
    /\ Goto(l, User, "idle")
    /\ UNCHANGED <<serverVars, clientVars, lockPath, mutex, connLock>>

\* doConnect has returned to connectWithLock, which unlocks if the lock says
\* that it is acquired.
DoConnectReturns(l) ==
    /\ At(l, User, "connected")
    /\ \/ /\ acquired[l]
          /\ Goto(l, User, "unlock")
          /\ UNCHANGED connLock
       \/ /\ ~acquired[l]
          /\ Goto(l, User, "idle")
          /\ connLock' = [connLock EXCEPT ![l] = FALSE]
    /\ UNCHANGED <<serverVars, clientVars, fieldVars, localVars>>

-----------------------------------------------------------------------------
(* Unlock, called by connectWithLock and by watchState. *)

\* Mutant: watchState, too, tries for the lock again once it has unlocked.
UnlockReturnsRetries(l, t) ==
    /\ Goto(l, t, "idle")
    /\ connLock' = [connLock EXCEPT ![l] = connLock[l] /\ t # User]

\* What the caller t does once Unlock has returned, with or without an error.
UnlockReturns(l, t) ==
    IF t = User
    THEN /\ Goto(l, t, "idle")
         /\ connLock' = [connLock EXCEPT ![l] = FALSE]
    ELSE /\ Goto(l, t, "off")
         /\ UNCHANGED connLock

UnlockNotLocked(l, t) ==
    /\ At(l, t, "unlock")
    /\ mutex[l] = NoThread
    /\ lockPath[l] = NoPath
    /\ UnlockReturns(l, t)
    /\ UNCHANGED <<serverVars, clientVars, fieldVars, localVars>>

UnlockBegin(l, t) ==
    /\ At(l, t, "unlock")
    /\ mutex[l] = NoThread
    /\ lockPath[l] # NoPath
    /\ mutex' = [mutex EXCEPT ![l] = t]
    /\ Goto(l, t, "delete")
    /\ UNCHANGED <<serverVars, clientVars, lockPath, acquired, localVars, connLock>>

\* The server executes the Delete.
ZkDelete(l, t) ==
    /\ At(l, t, "delete")
    /\ Online(l)
    /\ reply[l] = "none"
    /\ Remove(l, lockPath[l])
    /\ reply' = [reply EXCEPT ![l] = IF NodeExists(l, lockPath[l]) THEN "ok" ELSE "nonode"]
    /\ UNCHANGED <<parent, nextSeq, clientVars, fieldVars, made, seen, pc, connLock>>

\* Any error of Delete leaves lockPath and acquired as they were.  When the
\* connection is lost the Delete may or may not have been executed.
DeleteFails(l, t) ==
    /\ At(l, t, "delete")
    /\ reply[l] = "nonode" \/ ~HasSession(l)
    /\ mutex' = [mutex EXCEPT ![l] = NoThread]
    /\ reply' = [reply EXCEPT ![l] = "none"]
    /\ UnlockReturns(l, t)
    /\ UNCHANGED <<serverVars, clientVars, lockPath, acquired, made, seen>>

\* Mutant: Unlock does not reset lockPath.
DeleteOkKeepsPath(l, t) ==
    /\ At(l, t, "delete")
    /\ reply[l] = "ok"
    /\ reply' = [reply EXCEPT ![l] = "none"]
    /\ Goto(l, t, "clear")
    /\ UNCHANGED <<serverVars, clientVars, fieldVars, made, seen, connLock>>

DeleteOk(l, t) ==
    /\ At(l, t, "delete")
    /\ reply[l] = "ok"
    /\ lockPath' = [lockPath EXCEPT ![l] = NoPath]
    /\ reply' = [reply EXCEPT ![l] = "none"]
    /\ Goto(l, t, "clear")
    /\ UNCHANGED <<serverVars, clientVars, acquired, mutex, made, seen, connLock>>

ClearAcquired(l, t) ==
    /\ At(l, t, "clear")
    /\ acquired' = [acquired EXCEPT ![l] = FALSE]
    /\ mutex' = [mutex EXCEPT ![l] = NoThread]
    /\ UnlockReturns(l, t)
    /\ UNCHANGED <<serverVars, clientVars, lockPath, localVars>>

-----------------------------------------------------------------------------
(* watchState.  The state it tests may be 500ms old, which no step of its  *)
(* own shows: a watcher that is slow to test is one that steps late.       *)

WatchEnds(l, w) ==
    /\ At(l, w, "watch")
    /\ ~acquired[l] \/ ~Up(l)
    /\ Goto(l, w, "check")
    /\ UNCHANGED <<serverVars, clientVars, fieldVars, localVars, connLock>>

WatchUnlocks(l, w) ==
    /\ At(l, w, "check")
    /\ Goto(l, w, IF acquired[l] THEN "unlock" ELSE "off")
    /\ UNCHANGED <<serverVars, clientVars, fieldVars, localVars, connLock>>

-----------------------------------------------------------------------------
TryStep(l) ==
    \/ TryDeadlock(l) \/ TryCreate(l) \/ ZkCreate(l) \/ CreateReturns(l)
    \/ CreateAgain(l) \/ CreateFails(l) \/ CreateNoParent(l)
    \/ CreateParentPath(l) \/ CreateParentPathFails(l) \/ LowestSeqChild(l)
    \/ LowestSeqChildFails(l) \/ TakeLock(l) \/ NotLowest(l) \/ UndoCreate(l)
    \/ UndoCreateFails(l) \/ TryTrue(l) \/ TryFalse(l)

UnlockStep(l, t) ==
    \/ UnlockNotLocked(l, t) \/ UnlockBegin(l, t) \/ ZkDelete(l, t)
    \/ DeleteFails(l, t) \/ DeleteOk(l, t) \/ ClearAcquired(l, t)

WatchStep(l, w) == WatchEnds(l, w) \/ WatchUnlocks(l, w)

ConnStep(c) == Dial(c) \/ Authenticate(c) \/ RejectSession(c)

FaultStep(c) == Drop(c) \/ Expire(c)

Next ==
    \/ \E c \in Conn : ConnStep(c) \/ FaultStep(c)
    \/ \E l \in Lock : TryStep(l) \/ DoConnectReturns(l)
    \/ \E l \in Lock, t \in Thread : UnlockStep(l, t)
    \/ \E l \in Lock, w \in Watcher : WatchStep(l, w)

Spec == Init /\ [][Next]_vars

\* Goroutines run, the server answers and the client library reconnects.  No
\* fairness of DoConnectReturns: a subscription may last for ever.
Fairness ==
    /\ \A l \in Lock : WF_vars(TryStep(l))
    /\ \A l \in Lock, t \in Thread : WF_vars(UnlockStep(l, t))
    /\ \A l \in Lock, w \in Watcher : WF_vars(WatchStep(l, w))
    /\ \A c \in Conn : WF_vars(ConnStep(c))

FairSpec == Spec /\ Fairness

-----------------------------------------------------------------------------
(* Properties. *)

\* The instance that holds the lock at the server: its node is still there.
Holds(l) == lockPath[l] # NoPath /\ NodeExists(l, lockPath[l])

\* Of all nodes, the one of an instance that holds the lock is the oldest: so
\* GetMember names the holder, and every other instance that tries while the
\* node exists gives up.  zookeeper.go:168-186 decides from a list of children
\* that is old by the time it is used, while other instances create and delete.
HeldIsLowest ==
    \A l \in Lock : Holds(l) => \A z \in znodes : lockPath[l] <= z.seq

\* At most one instance holds the lock, whatever is dropped or expires while
\* it is tried and released by several goroutines (zookeeper.go:134-187).
HeldByOne ==
    \A l1, l2 \in Lock : Holds(l1) /\ Holds(l2) => l1 = l2

InTry(l) == pc[l][User] \in {"create", "mkparent", "children", "decide", "undo"}

\* Without faults no node is left behind: each is the lock of its instance or
\* the node of a call of try that still runs and will delete it or keep it
\* (zookeeper.go:142-186, the Deletes on every path that returns false).
NoOrphans ==
    faults = 0 =>
        \A z \in znodes :
            \/ lockPath[z.lock] = z.seq
            \/ made[z.lock] = z.seq /\ InTry(z.lock)

\* The inductive invariant from which the properties above are proved.

\* Every number in use is one that the server has handed out.
SeqsUsed ==
    /\ \A z \in znodes : z.seq < nextSeq
    /\ \A l \in Lock : lockPath[l] < nextSeq /\ made[l] < nextSeq /\ seen[l] < nextSeq

OneNodePerSeq == \A y, z \in znodes : y.seq = z.seq => y = z

\* A list of children may be old, but no node can appear below what it showed.
ReadStaysLowest ==
    \A l \in Lock : At(l, User, "decide") => \A z \in znodes : seen[l] <= z.seq

TryHasNoLock == \A l \in Lock : InTry(l) => lockPath[l] = NoPath

ReplyMeansGone ==
    \A l \in Lock : reply[l] = "ok" => lockPath[l] # NoPath /\ ~Holds(l)

SessionsLast ==
    faults = 0 =>
        /\ \A c \in Conn : sess[c] # "expired"
        /\ \A l \in Lock : made[l] # NoPath \/ lockPath[l] # NoPath => HasSession(l)

\* unlockMutex: one goroutine at a time is between its Lock and its Unlock.
UnlockExcludes ==
    \A l \in Lock, t \in Thread :
        At(l, t, "delete") \/ At(l, t, "clear") => mutex[l] = t

\* What Unlock relies on while nothing fails.  A call of try past its Create
\* has its node; so has an instance with a path, until Delete is answered.
NodesLast ==
    faults = 0 =>
        \A l \in Lock :
            /\ pc[l][User] \in {"children", "decide", "undo"} => NodeExists(l, made[l])
            /\ lockPath[l] # NoPath /\ reply[l] # "ok" => Holds(l)
            /\ reply[l] # "nonode"

\* An instance with a path is on its way from TakeLock to Unlock, and cannot
\* pass connectWithLock's test of acquired without calling Unlock.  That is so
\* also while another goroutine is between the reset of the path and that of
\* acquired (zookeeper.go:268-270).
PathMeansLocked ==
    faults = 0 =>
        \A l \in Lock :
            /\ \A t \in Thread : At(l, t, "delete") => lockPath[l] # NoPath
            /\ lockPath[l] # NoPath =>
                  /\ pc[l][User] \in {"gotLock", "connected", "unlock", "delete"}
                  /\ At(l, User, "connected") => acquired[l]
            /\ \A w \in Watcher : At(l, w, "clear") =>
                  /\ lockPath[l] = NoPath
                  /\ pc[l][User] \in {"gotLock", "connected", "unlock"}
                  /\ At(l, User, "connected") => acquired[l]

\* Together these are preserved by every step (checked by TLC, proved in
\* ZkLockProofs): the numbering of nodes, what try and Unlock know, and what
\* the goroutines of an instance may rely on while nothing has failed.
IInv ==
    /\ TypeOK
    /\ SeqsUsed
    /\ OneNodePerSeq
    /\ ReadStaysLowest
    /\ HeldIsLowest
    /\ TryHasNoLock
    /\ ReplyMeansGone
    /\ SessionsLast
    /\ NoOrphans
    /\ UnlockExcludes
    /\ NodesLast
    /\ PathMeansLocked

\* The lock implements the abstract one: it is taken only while nobody holds
\* it, and an instance keeps it until it is released or its session expires.
Abstract == INSTANCE ExclusiveLock WITH holders <- {l \in Lock : Holds(l)}
ImplementsExclusiveLock == Abstract!Spec

\* Try answers true and ErrDeadlock only after a fault (zookeeper.go:135-137):
\* until then the unlocking of connectWithLock and of watchState, in whatever
\* order, has reset lockPath before connectWithLock tries again.  After one it
\* may have the lock or not: the session expires, lockPath stays, and Try
\* answers true for a lock that another instance may have.
DeadlockOnlyAfterFault ==
    [][\A l \in Lock : TryDeadlock(l) => faults > 0]_vars

\* The attempt of l has lost, and its node is still there or about to be.
Loses(l) ==
    \/ At(l, User, "undo")
    \/ At(l, User, "decide") /\ seen[l] # made[l]

\* Some attempt is under way, or about to begin with no node in its way, and
\* none has lost.  MaxSeq bounds the attempts that lead here, not those after.
OpenContest ==
    /\ faults = 0
    /\ \A l \in Lock : ~Loses(l)
    /\ \/ znodes # {}
       \/ nextSeq <= MaxSeq /\ \E l \in Lock : At(l, User, "idle")

\* Whoever tries, one attempt succeeds, as long as there are no faults: out of
\* those under way, none of which has lost yet, or the first to come when no
\* node is left (zookeeper.go:134-187).  That an attempt has lost and not yet
\* deleted its node is the one excuse: the next attempt may see that node, lose
\* to it and be in the way of another, and so for ever.  Only the second that
\* connectWithLock sleeps between attempts (state.go:265) keeps them apart.
Progress == OpenContest ~> (\E l \in Lock : Holds(l)) \/ faults > 0

-----------------------------------------------------------------------------
(* What a comment of the repository says, and the code does not do.         *)

\* The gateway is for "maintaining a single connection to gNMI targets"
\* (README.md:16-17) and makes it "after the lock for the target is acquired"
\* (state.go:234): no two instances are in doConnect at once.
SingleConnection ==
    \A k1, k2 \in Lock :
        At(k1, User, "connected") /\ At(k2, User, "connected") => k1 = k2
=============================================================================
