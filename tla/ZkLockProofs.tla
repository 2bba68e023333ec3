---------------------------- MODULE ZkLockProofs ----------------------------
(* Proofs about ZkLock, for every set of gateways, locks and watchers and   *)
(* every bound.  IInv is inductive; the properties follow from it.          *)
EXTENDS ZkLock, TLAPS

USE ConnAssumption, ThreadAssumption, BoundAssumption

\* A goroutine that goes to a place of its own leaves all in their places.
LEMMA GotoOwnPlace ==
  ASSUME TypeOK, NEW l \in Lock, NEW t \in Thread, NEW p, Goto(l, t, p),
         p \in UnlockPC \cup (IF t = User THEN UserPC ELSE WatchPC)
  PROVE  /\ pc' \in [Lock -> [Thread -> UserPC \cup UnlockPC \cup WatchPC]]
         /\ OwnPlaces'
<1>1. p \in UserPC \cup UnlockPC \cup WatchPC
  OBVIOUS
<1>2. pc' \in [Lock -> [Thread -> UserPC \cup UnlockPC \cup WatchPC]]
  BY <1>1 DEF TypeOK, Goto
<1>3. ASSUME NEW k \in Lock, NEW u \in Thread
      PROVE  pc'[k][u] \in UnlockPC \cup (IF u = User THEN UserPC ELSE WatchPC)
  <2>1. CASE k = l /\ u = t BY <2>1 DEF TypeOK, Goto
  <2>2. CASE ~(k = l /\ u = t) BY <2>2 DEF TypeOK, Goto, OwnPlaces
  <2>3. QED BY <2>1, <2>2
<1>4. QED BY <1>2, <1>3 DEF OwnPlaces

\* The steps of try keep the types.
LEMMA TypeTry ==
  ASSUME TypeOK, NEW l \in Lock, TryStep(l)
  PROVE  TypeOK'
<1>a. ASSUME NEW p \in UserPC, Goto(l, User, p)
      PROVE  /\ pc' \in [Lock -> [Thread -> UserPC \cup UnlockPC \cup WatchPC]]
             /\ OwnPlaces'
  BY <1>a, GotoOwnPlace DEF Thread
<1>b. ASSUME UNCHANGED pc PROVE OwnPlaces'
  BY <1>b DEF TypeOK, OwnPlaces
<1>c. {"create", "mkparent", "children", "decide", "undo", "noLock", "gotLock",
       "idle"} \subseteq UserPC
  BY DEF UserPC
<1> USE DEF TypeOK, Seq1, NoPath, Node, serverVars, clientVars, fieldVars, localVars
<1>1. CASE TryDeadlock(l) BY <1>1, <1>a, <1>b, <1>c DEF TryDeadlock
<1>2. CASE TryCreate(l) BY <1>2, <1>a, <1>b, <1>c DEF TryCreate
<1>3. CASE ZkCreate(l)
  <2>1. nextSeq \in Seq1 /\ nextSeq' \in 1 .. MaxSeq + 1 BY <1>3 DEF ZkCreate
  <2>2. [seq |-> nextSeq, lock |-> l] \in Node BY <2>1
  <2>3. znodes' \subseteq Node BY <1>3, <2>2 DEF ZkCreate
  <2>4. made' \in [Lock -> Seq1 \cup {NoPath}] BY <1>3, <2>1 DEF ZkCreate
  <2>5. QED BY <1>3, <1>b, <2>1, <2>3, <2>4 DEF ZkCreate
<1>4. CASE CreateReturns(l) BY <1>4, <1>a, <1>b, <1>c DEF CreateReturns
<1>5. CASE CreateAgain(l) BY <1>5, <1>a, <1>b, <1>c DEF CreateAgain
<1>6. CASE CreateFails(l) BY <1>6, <1>a, <1>b, <1>c DEF CreateFails
<1>7. CASE CreateNoParent(l) BY <1>7, <1>a, <1>b, <1>c DEF CreateNoParent
<1>8. CASE CreateParentPath(l) BY <1>8, <1>a, <1>b, <1>c DEF CreateParentPath
<1>9. CASE CreateParentPathFails(l) BY <1>9, <1>a, <1>b, <1>c DEF CreateParentPathFails
<1>10. CASE LowestSeqChild(l) BY <1>10, <1>a, <1>b, <1>c DEF LowestSeqChild
<1>11. CASE LowestSeqChildFails(l) BY <1>11, <1>a, <1>b, <1>c DEF LowestSeqChildFails
<1>12. CASE TakeLock(l) BY <1>12, <1>a, <1>b, <1>c DEF TakeLock
<1>13. CASE NotLowest(l) BY <1>13, <1>a, <1>b, <1>c DEF NotLowest
<1>14. CASE UndoCreate(l) BY <1>14, <1>a, <1>b, <1>c DEF UndoCreate, Remove
<1>15. CASE UndoCreateFails(l) BY <1>15, <1>a, <1>b, <1>c DEF UndoCreateFails
<1>16. CASE TryTrue(l)
  <2>1. PICK w \in Watcher : pc' = [pc EXCEPT ![l][User] = "connected", ![l][w] = "watch"]
    BY <1>16 DEF TryTrue
  <2>2. pc' \in [Lock -> [Thread -> UserPC \cup UnlockPC \cup WatchPC]]
    BY <2>1 DEF Thread, UserPC, WatchPC
  <2>3. OwnPlaces'
    BY <2>1 DEF OwnPlaces, Thread, UserPC, WatchPC
  <2>4. QED BY <1>16, <2>2, <2>3 DEF TryTrue, ForgetLocals
<1>17. CASE TryFalse(l) BY <1>17, <1>a, <1>b, <1>c DEF TryFalse, ForgetLocals
<1>18. QED
  BY <1>1, <1>2, <1>3, <1>4, <1>5, <1>6, <1>7, <1>8, <1>9, <1>10, <1>11,
     <1>12, <1>13, <1>14, <1>15, <1>16, <1>17 DEF TryStep

LEMMA TypeUnlockReturns ==
  ASSUME TypeOK, NEW l \in Lock, NEW t \in Thread, UnlockReturns(l, t)
  PROVE  /\ pc' \in [Lock -> [Thread -> UserPC \cup UnlockPC \cup WatchPC]]
         /\ OwnPlaces'
         /\ connLock' \in [Lock -> BOOLEAN]
<1> DEFINE p == IF t = User THEN "idle" ELSE "off"
<1>1. p \in UnlockPC \cup (IF t = User THEN UserPC ELSE WatchPC)
  BY DEF UserPC, WatchPC
<1>2. Goto(l, t, p)
  BY DEF UnlockReturns
<1>3. /\ pc' \in [Lock -> [Thread -> UserPC \cup UnlockPC \cup WatchPC]]
      /\ OwnPlaces'
  <2> HIDE DEF p
  <2>1. QED BY <1>1, <1>2, GotoOwnPlace
<1>4. connLock' \in [Lock -> BOOLEAN]
  BY DEF TypeOK, UnlockReturns
<1>5. QED BY <1>3, <1>4

\* So do the steps of Unlock and of watchState.
LEMMA TypeUnlock ==
  ASSUME TypeOK, NEW l \in Lock, NEW t \in Thread, UnlockStep(l, t)
  PROVE  TypeOK'
<1>a. ASSUME NEW p \in UnlockPC, Goto(l, t, p)
      PROVE  /\ pc' \in [Lock -> [Thread -> UserPC \cup UnlockPC \cup WatchPC]]
             /\ OwnPlaces'
  BY <1>a, GotoOwnPlace
<1>b. "delete" \in UnlockPC /\ "clear" \in UnlockPC
  BY DEF UnlockPC
<1> USE DEF TypeOK, serverVars, clientVars, fieldVars, localVars
<1>1. CASE UnlockNotLocked(l, t)
  BY <1>1, TypeUnlockReturns DEF UnlockNotLocked
<1>2. CASE UnlockBegin(l, t) BY <1>2, <1>a, <1>b DEF UnlockBegin
<1>3. CASE ZkDelete(l, t) BY <1>3 DEF ZkDelete, Remove, OwnPlaces
<1>4. CASE DeleteFails(l, t)
  BY <1>4, TypeUnlockReturns DEF DeleteFails
<1>5. CASE DeleteOk(l, t) BY <1>5, <1>a, <1>b DEF DeleteOk, NoPath
<1>6. CASE ClearAcquired(l, t)
  BY <1>6, TypeUnlockReturns DEF ClearAcquired
<1>7. QED BY <1>1, <1>2, <1>3, <1>4, <1>5, <1>6 DEF UnlockStep

LEMMA TypeWatch ==
  ASSUME TypeOK, NEW l \in Lock, NEW w \in Watcher, WatchStep(l, w)
  PROVE  TypeOK'
<1>1. PICK p \in {"check", "unlock", "off"} : Goto(l, w, p)
  BY DEF WatchStep, WatchEnds, WatchUnlocks
<1>2. /\ w \in Thread /\ w # User
      /\ p \in UnlockPC \cup WatchPC
  BY DEF Thread, UnlockPC, WatchPC
<1>3. /\ pc' \in [Lock -> [Thread -> UserPC \cup UnlockPC \cup WatchPC]]
      /\ OwnPlaces'
  BY <1>1, <1>2, GotoOwnPlace
<1>4. QED
  BY <1>3 DEF WatchStep, WatchEnds, WatchUnlocks, TypeOK, serverVars, clientVars,
              fieldVars, localVars

\* And those of the connection.
LEMMA TypeConn ==
  ASSUME TypeOK, NEW c \in Conn, ConnStep(c) \/ FaultStep(c)
  PROVE  TypeOK'
<1> USE DEF TypeOK, OwnPlaces, serverVars, fieldVars, localVars
<1>1. CASE Dial(c) BY <1>1 DEF Dial
<1>2. CASE Authenticate(c) BY <1>2 DEF Authenticate
<1>3. CASE RejectSession(c) BY <1>3 DEF RejectSession
<1>4. CASE Drop(c) BY <1>4 DEF Drop
<1>5. CASE Expire(c) BY <1>5 DEF Expire
<1>6. QED BY <1>1, <1>2, <1>3, <1>4, <1>5 DEF ConnStep, FaultStep

LEMMA TypeStep == TypeOK /\ [Next]_vars => TypeOK'
<1> SUFFICES ASSUME TypeOK, [Next]_vars PROVE TypeOK'
  OBVIOUS
<1>1. CASE UNCHANGED vars
  BY <1>1 DEF TypeOK, OwnPlaces, vars, serverVars, clientVars, fieldVars, localVars
<1>2. ASSUME NEW l \in Lock, DoConnectReturns(l) PROVE TypeOK'
  <2>1. connLock' \in [Lock -> BOOLEAN]
    BY <1>2 DEF DoConnectReturns, TypeOK
  <2>2. PICK q \in {"unlock", "idle"} : Goto(l, User, q)
    BY <1>2 DEF DoConnectReturns
  <2>3. /\ pc' \in [Lock -> [Thread -> UserPC \cup UnlockPC \cup WatchPC]]
        /\ OwnPlaces'
    BY <2>2, GotoOwnPlace DEF Thread, UserPC, UnlockPC
  <2>4. QED
    BY <1>2, <2>1, <2>3 DEF DoConnectReturns, TypeOK, serverVars, clientVars,
                            fieldVars, localVars
<1>3. ASSUME NEW c \in Conn, ConnStep(c) \/ FaultStep(c) PROVE TypeOK'
  BY <1>3, TypeConn
<1>4. ASSUME NEW l \in Lock, TryStep(l) PROVE TypeOK'
  BY <1>4, TypeTry
<1>5. ASSUME NEW l \in Lock, NEW t \in Thread, UnlockStep(l, t) PROVE TypeOK'
  BY <1>5, TypeUnlock
<1>6. ASSUME NEW l \in Lock, NEW w \in Watcher, WatchStep(l, w) PROVE TypeOK'
  BY <1>6, TypeWatch
<1>7. QED BY <1>1, <1>2, <1>3, <1>4, <1>5, <1>6 DEF Next

LEMMA TypeInit == Init => TypeOK
BY DEF Init, TypeOK, OwnPlaces, Node, Seq1, NoPath, Thread, UserPC, UnlockPC, WatchPC

\* Type correctness: every field of a lock, the nodes at the server and the
\* place of every goroutine stay in their ranges.
THEOREM TypeCorrect == Spec => []TypeOK
<1>1. QED BY TypeInit, TypeStep, PTL DEF Spec

-----------------------------------------------------------------------------
(* Which steps change what: each line names the only actions that disturb  *)
(* one piece of state, so that the proofs below look at no others.         *)

NodesChange ==
    \/ znodes' \subseteq znodes /\ nextSeq' = nextSeq
    \/ \E l \in Lock : ZkCreate(l)

PathChanges(k) ==
    lockPath'[k] = lockPath[k] \/ TakeLock(k) \/ \E t \in Thread : DeleteOk(k, t)

MadeChanges(k) == made'[k] \in {made[k], NoPath} \/ ZkCreate(k)

SeenChanges(k) == seen'[k] \in {seen[k], NoPath} \/ LowestSeqChild(k)

ReplyChanges(k) ==
    reply'[k] \in {reply[k], "none"} \/ \E t \in Thread : ZkDelete(k, t)

TryBegins(k) == InTry(k)' => InTry(k) \/ TryCreate(k)

DecideBegins(k) ==
    At(k, User, "decide")' =>
        \/ LowestSeqChild(k)
        \/ At(k, User, "decide") /\ seen'[k] = seen[k]

TryEnds(k) ==
    InTry(k) =>
        \/ InTry(k)' /\ made'[k] = made[k]
        \/ ZkCreate(k) \/ CreateAgain(k) \/ TakeLock(k) \/ UndoCreate(k)
        \/ CreateFails(k) \/ CreateParentPathFails(k) \/ UndoCreateFails(k)

Changes(k) ==
    /\ NodesChange
    /\ PathChanges(k)
    /\ MadeChanges(k)
    /\ SeenChanges(k)
    /\ ReplyChanges(k)
    /\ TryBegins(k)
    /\ DecideBegins(k)
    /\ TryEnds(k)

LEMMA TryChanges ==
  ASSUME TypeOK, NEW l \in Lock, TryStep(l), NEW k \in Lock
  PROVE  Changes(k)
<1> USE DEF TypeOK, Thread, serverVars, clientVars, fieldVars, localVars, At, Goto,
            InTry, Changes, NodesChange, PathChanges, MadeChanges, SeenChanges,
            ReplyChanges, TryBegins, DecideBegins, TryEnds
<1>1. CASE TryDeadlock(l) BY <1>1 DEF TryDeadlock
<1>2. CASE TryCreate(l) BY <1>2 DEF TryCreate
<1>3. CASE ZkCreate(l) BY <1>3 DEF ZkCreate
<1>4. CASE CreateReturns(l) BY <1>4 DEF CreateReturns
<1>5. CASE CreateAgain(l) BY <1>5 DEF CreateAgain
<1>6. CASE CreateFails(l) BY <1>6 DEF CreateFails
<1>7. CASE CreateNoParent(l) BY <1>7 DEF CreateNoParent
<1>8. CASE CreateParentPath(l) BY <1>8 DEF CreateParentPath
<1>9. CASE CreateParentPathFails(l) BY <1>9 DEF CreateParentPathFails
<1>10. CASE LowestSeqChild(l)
  <2>1. k # l => seen'[k] = seen[k]
    BY <1>10 DEF LowestSeqChild
  <2>2. pc'[k][User] = IF k = l THEN "decide" ELSE pc[k][User]
    BY <1>10 DEF LowestSeqChild
  <2>3. UNCHANGED <<nextSeq, znodes, lockPath, made, reply>>
    BY <1>10 DEF LowestSeqChild
  <2>4. k = l => InTry(k) /\ LowestSeqChild(k)
    BY <1>10 DEF LowestSeqChild
  <2>5. QED BY <2>1, <2>2, <2>3, <2>4
<1>11. CASE LowestSeqChildFails(l) BY <1>11 DEF LowestSeqChildFails
<1>12. CASE TakeLock(l) BY <1>12 DEF TakeLock
<1>13. CASE NotLowest(l) BY <1>13 DEF NotLowest
<1>14. CASE UndoCreate(l) BY <1>14 DEF UndoCreate, Remove
<1>15. CASE UndoCreateFails(l) BY <1>15 DEF UndoCreateFails
<1>16. CASE TryTrue(l)
  <2>1. PICK w \in Watcher : pc' = [pc EXCEPT ![l][User] = "connected", ![l][w] = "watch"]
    BY <1>16 DEF TryTrue
  <2>2. pc'[k][User] = IF k = l THEN "connected" ELSE pc[k][User]
    BY <2>1
  <2>3. QED BY <1>16, <2>2 DEF TryTrue, ForgetLocals
<1>17. CASE TryFalse(l) BY <1>17 DEF TryFalse, ForgetLocals
<1>18. QED
  BY <1>1, <1>2, <1>3, <1>4, <1>5, <1>6, <1>7, <1>8, <1>9, <1>10, <1>11,
     <1>12, <1>13, <1>14, <1>15, <1>16, <1>17 DEF TryStep

LEMMA UnlockChanges ==
  ASSUME TypeOK, NEW l \in Lock, NEW t \in Thread, UnlockStep(l, t), NEW k \in Lock
  PROVE  Changes(k)
<1> USE DEF TypeOK, Thread, serverVars, clientVars, fieldVars, localVars, At, Goto,
            InTry, Changes, NodesChange, PathChanges, MadeChanges, SeenChanges,
            ReplyChanges, TryBegins, DecideBegins, TryEnds, UnlockReturns
<1>1. CASE UnlockNotLocked(l, t) BY <1>1 DEF UnlockNotLocked
<1>2. CASE UnlockBegin(l, t) BY <1>2 DEF UnlockBegin
<1>3. CASE ZkDelete(l, t) BY <1>3 DEF ZkDelete, Remove
<1>4. CASE DeleteFails(l, t) BY <1>4 DEF DeleteFails
<1>5. CASE DeleteOk(l, t)
  <2>1. NodesChange BY <1>5 DEF DeleteOk
  <2>2. PathChanges(k) BY <1>5 DEF DeleteOk
  <2>3. MadeChanges(k) /\ SeenChanges(k) /\ ReplyChanges(k) BY <1>5 DEF DeleteOk
  <2>4. TryBegins(k) /\ DecideBegins(k) /\ TryEnds(k) BY <1>5 DEF DeleteOk
  <2>5. QED BY <2>1, <2>2, <2>3, <2>4
<1>6. CASE ClearAcquired(l, t) BY <1>6 DEF ClearAcquired
<1>7. QED BY <1>1, <1>2, <1>3, <1>4, <1>5, <1>6 DEF UnlockStep

LEMMA OtherChanges ==
  ASSUME TypeOK, NEW k \in Lock,
         \/ UNCHANGED vars
         \/ \E l \in Lock : DoConnectReturns(l)
         \/ \E l \in Lock, w \in Watcher : WatchStep(l, w)
         \/ \E c \in Conn : ConnStep(c) \/ FaultStep(c)
  PROVE  Changes(k)
<1> USE DEF TypeOK, Thread, serverVars, clientVars, fieldVars, localVars, At, Goto,
            InTry, Changes, NodesChange, PathChanges, MadeChanges, SeenChanges,
            ReplyChanges, TryBegins, DecideBegins, TryEnds
<1>1. CASE UNCHANGED vars BY <1>1 DEF vars
<1>2. ASSUME NEW l \in Lock, DoConnectReturns(l) PROVE Changes(k)
  BY <1>2 DEF DoConnectReturns
<1>3. ASSUME NEW l \in Lock, NEW w \in Watcher, WatchStep(l, w) PROVE Changes(k)
  <2>1. CASE WatchEnds(l, w) BY <2>1 DEF WatchEnds
  <2>2. CASE WatchUnlocks(l, w)
    <3>1. pc'[k][User] = pc[k][User] BY <2>2 DEF WatchUnlocks
    <3>2. QED BY <2>2, <3>1 DEF WatchUnlocks
  <2>3. QED BY <1>3, <2>1, <2>2 DEF WatchStep
<1>4. ASSUME NEW c \in Conn, ConnStep(c) \/ FaultStep(c) PROVE Changes(k)
  BY <1>4 DEF ConnStep, FaultStep, Dial, Authenticate, RejectSession, Drop, Expire
<1>5. QED BY <1>1, <1>2, <1>3, <1>4

LEMMA StepChanges ==
  ASSUME TypeOK, [Next]_vars, NEW k \in Lock
  PROVE  Changes(k)
<1>1. ASSUME NEW l \in Lock, TryStep(l) PROVE Changes(k)
  BY <1>1, TryChanges
<1>2. ASSUME NEW l \in Lock, NEW t \in Thread, UnlockStep(l, t) PROVE Changes(k)
  BY <1>2, UnlockChanges
<1>3. QED BY <1>1, <1>2, OtherChanges DEF Next

LEMMA StepNodes ==
  ASSUME TypeOK, [Next]_vars
  PROVE  NodesChange
<1>1. CASE UNCHANGED vars BY <1>1 DEF vars, serverVars, NodesChange
<1>2. ASSUME NEW c \in Conn, ConnStep(c) \/ FaultStep(c) PROVE NodesChange
  BY <1>2 DEF ConnStep, FaultStep, Dial, Authenticate, RejectSession, Drop, Expire,
              serverVars, NodesChange
<1>3. ASSUME NEW l \in Lock PROVE NodesChange
  BY StepChanges DEF Changes
<1>4. QED BY <1>1, <1>2, <1>3 DEF Next

-----------------------------------------------------------------------------
(* The same for what the goroutines of an instance do to each other. *)

DeleteBegins(k) ==
    \A t \in Thread : At(k, t, "delete")' => At(k, t, "delete") \/ UnlockBegin(k, t)

ClearBegins(k) ==
    \A t \in Thread : At(k, t, "clear")' => At(k, t, "clear") \/ DeleteOk(k, t)

MutexChanges(k) ==
    \/ mutex'[k] = mutex[k]
    \/ \E t \in Thread : UnlockBegin(k, t) \/ DeleteFails(k, t) \/ ClearAcquired(k, t)

AcquiredChanges(k) ==
    \/ acquired'[k] = acquired[k]
    \/ TryTrue(k) \/ TryFalse(k) \/ \E t \in Thread : ClearAcquired(k, t)

\* The steps by which the user of an instance leaves a place where it may have
\* the lock.
UserLeaves(k) ==
    pc[k][User] \in {"gotLock", "connected", "unlock", "delete"} =>
        \/ pc'[k][User] = pc[k][User]
        \/ TryTrue(k) \/ DoConnectReturns(k) \/ UnlockStep(k, User)

ConnectedBegins(k) ==
    At(k, User, "connected")' => At(k, User, "connected") \/ TryTrue(k)

PastCreate(k) == pc[k][User] \in {"children", "decide", "undo"}

PastCreateBegins(k) ==
    PastCreate(k)' => (PastCreate(k) /\ made'[k] = made[k]) \/ CreateReturns(k)

AnswerChanges(k) ==
    \/ reply'[k] = reply[k]
    \/ \E t \in Thread : ZkDelete(k, t) \/ DeleteOk(k, t) \/ DeleteFails(k, t)

Moves(k) ==
    /\ DeleteBegins(k)
    /\ ClearBegins(k)
    /\ MutexChanges(k)
    /\ AcquiredChanges(k)
    /\ UserLeaves(k)
    /\ ConnectedBegins(k)
    /\ PastCreateBegins(k)
    /\ AnswerChanges(k)

LEMMA TryMoves ==
  ASSUME TypeOK, NEW l \in Lock, TryStep(l), NEW k \in Lock
  PROVE  Moves(k)
<1> USE DEF TypeOK, Thread, serverVars, clientVars, fieldVars, localVars, At, Goto,
            Moves, DeleteBegins, ClearBegins, MutexChanges, AcquiredChanges, UserLeaves,
            ConnectedBegins, PastCreate, PastCreateBegins, AnswerChanges
<1>1. CASE TryDeadlock(l) BY <1>1 DEF TryDeadlock
<1>2. CASE TryCreate(l) BY <1>2 DEF TryCreate
<1>3. CASE ZkCreate(l) BY <1>3 DEF ZkCreate
<1>4. CASE CreateReturns(l) BY <1>4 DEF CreateReturns
<1>5. CASE CreateAgain(l) BY <1>5 DEF CreateAgain
<1>6. CASE CreateFails(l) BY <1>6 DEF CreateFails
<1>7. CASE CreateNoParent(l) BY <1>7 DEF CreateNoParent
<1>8. CASE CreateParentPath(l) BY <1>8 DEF CreateParentPath
<1>9. CASE CreateParentPathFails(l) BY <1>9 DEF CreateParentPathFails
<1>10. CASE LowestSeqChild(l) BY <1>10 DEF LowestSeqChild
<1>11. CASE LowestSeqChildFails(l) BY <1>11 DEF LowestSeqChildFails
<1>12. CASE TakeLock(l) BY <1>12 DEF TakeLock
<1>13. CASE NotLowest(l) BY <1>13 DEF NotLowest
<1>14. CASE UndoCreate(l) BY <1>14 DEF UndoCreate
<1>15. CASE UndoCreateFails(l) BY <1>15 DEF UndoCreateFails
<1>16. CASE TryTrue(l)
  <2>1. PICK w \in Watcher : pc' = [pc EXCEPT ![l][User] = "connected", ![l][w] = "watch"]
    BY <1>16 DEF TryTrue
  <2>2. \A t \in Thread : pc'[k][t] = IF k # l THEN pc[k][t]
                                      ELSE IF t = User THEN "connected"
                                      ELSE IF t = w THEN "watch" ELSE pc[k][t]
    BY <2>1
  <2>3. k # l => acquired'[k] = acquired[k] /\ made'[k] = made[k]
    BY <1>16 DEF TryTrue, ForgetLocals
  <2>4. UNCHANGED <<mutex, reply>> BY <1>16 DEF TryTrue, ForgetLocals
  <2>5. QED BY <1>16, <2>2, <2>3, <2>4
<1>17. CASE TryFalse(l) BY <1>17 DEF TryFalse, ForgetLocals
<1>18. QED
  BY <1>1, <1>2, <1>3, <1>4, <1>5, <1>6, <1>7, <1>8, <1>9, <1>10, <1>11,
     <1>12, <1>13, <1>14, <1>15, <1>16, <1>17 DEF TryStep

\* Whoever has called Unlock, only that goroutine goes on.
LEMMA UnlockReturnsMoves ==
  ASSUME TypeOK, NEW l \in Lock, NEW u \in Thread, UnlockReturns(l, u),
         NEW k \in Lock, NEW t \in Thread
  PROVE  \/ pc'[k][t] = pc[k][t]
         \/ k = l /\ t = u /\ pc'[k][t] \in {"idle", "off"}
<1>1. CASE u = User BY <1>1 DEF UnlockReturns, Goto, TypeOK
<1>2. CASE u # User BY <1>2 DEF UnlockReturns, Goto, TypeOK
<1>3. QED BY <1>1, <1>2

LEMMA UnlockMoves ==
  ASSUME TypeOK, NEW l \in Lock, NEW u \in Thread, UnlockStep(l, u), NEW k \in Lock
  PROVE  Moves(k)
<1> USE DEF TypeOK, Thread, serverVars, clientVars, fieldVars, localVars, At, Goto,
            Moves, DeleteBegins, ClearBegins, MutexChanges, AcquiredChanges, UserLeaves,
            ConnectedBegins, PastCreate, PastCreateBegins, AnswerChanges
<1>0. k = l /\ u = User => UserLeaves(k) OBVIOUS
<1>1. CASE UnlockNotLocked(l, u) BY <1>0, <1>1 DEF UnlockNotLocked, UnlockReturns
<1>2. CASE UnlockBegin(l, u)
  <2>1. \A t \in Thread : \/ pc'[k][t] = pc[k][t]
                          \/ k = l /\ t = u /\ pc'[k][t] = "delete"
    BY <1>2 DEF UnlockBegin
  <2>2. k # l => mutex'[k] = mutex[k] BY <1>2 DEF UnlockBegin
  <2>3. UNCHANGED <<acquired, reply, made>> BY <1>2 DEF UnlockBegin
  <2>4. DeleteBegins(k) /\ MutexChanges(k) BY <1>2, <2>1, <2>2
  <2>5. QED BY <1>0, <2>1, <2>3, <2>4
<1>3. CASE ZkDelete(l, u) BY <1>0, <1>3 DEF ZkDelete
<1>4. CASE DeleteFails(l, u)
  <2>1. \A t \in Thread : \/ pc'[k][t] = pc[k][t]
                          \/ k = l /\ t = u /\ pc'[k][t] \in {"idle", "off"}
    BY <1>4, UnlockReturnsMoves DEF DeleteFails
  <2>2. k # l => mutex'[k] = mutex[k] /\ reply'[k] = reply[k]
    BY <1>4 DEF DeleteFails
  <2>3. UNCHANGED <<acquired, made>> BY <1>4 DEF DeleteFails
  <2>4. MutexChanges(k) /\ AcquiredChanges(k) /\ AnswerChanges(k) BY <1>4, <2>2, <2>3
  <2>5. QED BY <1>0, <2>1, <2>3, <2>4
<1>5. CASE DeleteOk(l, u)
  <2>1. \A t \in Thread : \/ pc'[k][t] = pc[k][t]
                          \/ k = l /\ t = u /\ pc'[k][t] = "clear"
    BY <1>5 DEF DeleteOk
  <2>2. k # l => reply'[k] = reply[k] BY <1>5 DEF DeleteOk
  <2>3. UNCHANGED <<acquired, mutex, made>> BY <1>5 DEF DeleteOk
  <2>4. ClearBegins(k) /\ AnswerChanges(k) BY <1>5, <2>1, <2>2
  <2>5. QED BY <1>0, <2>1, <2>3, <2>4
<1>6. CASE ClearAcquired(l, u)
  <2>1. \A t \in Thread : \/ pc'[k][t] = pc[k][t]
                          \/ k = l /\ t = u /\ pc'[k][t] \in {"idle", "off"}
    BY <1>6, UnlockReturnsMoves DEF ClearAcquired
  <2>2. k # l => mutex'[k] = mutex[k] /\ acquired'[k] = acquired[k]
    BY <1>6 DEF ClearAcquired
  <2>3. UNCHANGED <<reply, made>> BY <1>6 DEF ClearAcquired
  <2>4. MutexChanges(k) /\ AcquiredChanges(k) /\ AnswerChanges(k) BY <1>6, <2>2, <2>3
  <2>5. QED BY <1>0, <2>1, <2>3, <2>4
<1>7. QED BY <1>1, <1>2, <1>3, <1>4, <1>5, <1>6 DEF UnlockStep

LEMMA OtherMoves ==
  ASSUME TypeOK, NEW k \in Lock,
         \/ UNCHANGED vars
         \/ \E l \in Lock : DoConnectReturns(l)
         \/ \E l \in Lock, w \in Watcher : WatchStep(l, w)
         \/ \E c \in Conn : ConnStep(c) \/ FaultStep(c)
  PROVE  Moves(k)
<1> USE DEF TypeOK, Thread, serverVars, clientVars, fieldVars, localVars, At, Goto,
            Moves, DeleteBegins, ClearBegins, MutexChanges, AcquiredChanges, UserLeaves,
            ConnectedBegins, PastCreate, PastCreateBegins, AnswerChanges
<1>1. CASE UNCHANGED vars BY <1>1 DEF vars
<1>2. ASSUME NEW l \in Lock, DoConnectReturns(l) PROVE Moves(k)
  <2>1. \A t \in Thread : \/ pc'[k][t] = pc[k][t]
                          \/ k = l /\ t = User /\ pc'[k][t] \in {"unlock", "idle"}
    BY <1>2 DEF DoConnectReturns
  <2>2. UNCHANGED <<mutex, acquired, reply, made>> BY <1>2 DEF DoConnectReturns
  <2>3. UserLeaves(k) BY <1>2, <2>1
  <2>4. QED BY <2>1, <2>2, <2>3
<1>3. ASSUME NEW l \in Lock, NEW w \in Watcher, WatchStep(l, w) PROVE Moves(k)
  <2>1. \A t \in Thread : \/ pc'[k][t] = pc[k][t]
                          \/ t = w /\ pc'[k][t] \in {"check", "unlock", "off"}
    <3>1. PICK q \in {"check", "unlock", "off"} : pc' = [pc EXCEPT ![l][w] = q]
      BY <1>3 DEF WatchStep, WatchEnds, WatchUnlocks
    <3>2. QED BY <3>1
  <2>2. UNCHANGED <<mutex, acquired, reply, made>>
    BY <1>3 DEF WatchStep, WatchEnds, WatchUnlocks
  <2>3. QED BY <2>1, <2>2
<1>4. ASSUME NEW c \in Conn, ConnStep(c) \/ FaultStep(c) PROVE Moves(k)
  BY <1>4 DEF ConnStep, FaultStep, Dial, Authenticate, RejectSession, Drop, Expire
<1>5. QED BY <1>1, <1>2, <1>3, <1>4

LEMMA StepMoves ==
  ASSUME TypeOK, [Next]_vars, NEW k \in Lock
  PROVE  Moves(k)
<1>1. ASSUME NEW l \in Lock, TryStep(l) PROVE Moves(k)
  BY <1>1, TryMoves
<1>2. ASSUME NEW l \in Lock, NEW t \in Thread, UnlockStep(l, t) PROVE Moves(k)
  BY <1>2, UnlockMoves
<1>3. QED BY <1>1, <1>2, OtherMoves DEF Next

\* Only the two Deletes and the end of a session remove nodes.
LEMMA NodesRemoved ==
  ASSUME [Next]_vars
  PROVE  \/ znodes \subseteq znodes'
         \/ \E l \in Lock : UndoCreate(l)
         \/ \E l \in Lock, t \in Thread : ZkDelete(l, t)
         \/ \E c \in Conn : Expire(c)
<1> USE DEF serverVars
<1>1. CASE UNCHANGED vars BY <1>1 DEF vars
<1>2. ASSUME NEW l \in Lock, TryStep(l) PROVE UndoCreate(l) \/ znodes \subseteq znodes'
  BY <1>2 DEF TryStep, TryDeadlock, TryCreate, ZkCreate, CreateReturns, CreateAgain,
     CreateFails, CreateNoParent, CreateParentPath, CreateParentPathFails,
     LowestSeqChild, LowestSeqChildFails, TakeLock, NotLowest,
     UndoCreateFails, TryTrue, TryFalse
<1>3. ASSUME NEW l \in Lock, DoConnectReturns(l) PROVE UNCHANGED znodes
  BY <1>3 DEF DoConnectReturns
<1>4. ASSUME NEW l \in Lock, NEW t \in Thread, UnlockStep(l, t)
      PROVE  ZkDelete(l, t) \/ UNCHANGED znodes
  BY <1>4 DEF UnlockStep, UnlockNotLocked, UnlockBegin, DeleteFails,
     DeleteOk, ClearAcquired
<1>5. ASSUME NEW l \in Lock, NEW w \in Watcher, WatchStep(l, w)
      PROVE  UNCHANGED znodes
  BY <1>5 DEF WatchStep, WatchEnds, WatchUnlocks
<1>6. ASSUME NEW c \in Conn, ConnStep(c) \/ FaultStep(c)
      PROVE  Expire(c) \/ UNCHANGED znodes
  BY <1>6 DEF ConnStep, FaultStep, Dial, Authenticate, RejectSession, Drop
<1>7. QED BY <1>1, <1>2, <1>3, <1>4, <1>5, <1>6 DEF Next

-----------------------------------------------------------------------------
(* IInv is inductive. *)

LEMMA SeqsUsedStep ==
  ASSUME IInv, [Next]_vars
  PROVE  SeqsUsed'
<1> USE DEF IInv, TypeOK, SeqsUsed, Node, Seq1, NoPath
<1>0. TypeOK' BY TypeStep
<1>1. nextSeq <= nextSeq' /\ \A z \in znodes' : z.seq < nextSeq'
  <2>1. CASE \E l \in Lock : ZkCreate(l)
    <3>1. nextSeq' = nextSeq + 1 BY <2>1 DEF ZkCreate
    <3>2. \A z \in znodes' : z \in znodes \/ z.seq = nextSeq BY <2>1 DEF ZkCreate
    <3>3. QED BY <3>1, <3>2
  <2>2. CASE znodes' \subseteq znodes /\ nextSeq' = nextSeq BY <2>2
  <2>3. QED BY <2>1, <2>2, StepNodes DEF NodesChange
<1>2. ASSUME NEW k \in Lock PROVE lockPath'[k] < nextSeq'
  <2>1. CASE lockPath'[k] = lockPath[k]
    <3>1. lockPath[k] \in Int /\ lockPath[k] < nextSeq OBVIOUS
    <3>2. nextSeq \in Int /\ nextSeq' \in Int BY <1>0
    <3>3. QED BY <1>1, <2>1, <3>1, <3>2
  <2>2. CASE TakeLock(k) BY <1>0, <1>1, <2>2 DEF TakeLock
  <2>3. CASE \E t \in Thread : DeleteOk(k, t)
    <3>1. lockPath'[k] = NoPath BY <2>3 DEF DeleteOk
    <3>2. QED BY <1>0, <3>1
  <2>4. QED BY <2>1, <2>2, <2>3, StepChanges DEF Changes, PathChanges
<1>3. ASSUME NEW k \in Lock PROVE made'[k] < nextSeq'
  <2>1. CASE made'[k] \in {made[k], NoPath} BY <1>0, <1>1, <2>1
  <2>2. CASE ZkCreate(k) BY <2>2 DEF ZkCreate
  <2>3. QED BY <2>1, <2>2, StepChanges DEF Changes, MadeChanges
<1>4. ASSUME NEW k \in Lock PROVE seen'[k] < nextSeq'
  <2>1. CASE seen'[k] \in {seen[k], NoPath} BY <1>0, <1>1, <2>1
  <2>2. CASE LowestSeqChild(k)
    <3>1. PICK s \in Seq1 \cup {NoPath} :
             IsLowest(s, znodes) /\ seen' = [seen EXCEPT ![k] = s]
      BY <2>2 DEF LowestSeqChild
    <3>2. s < nextSeq BY <3>1 DEF IsLowest
    <3>3. QED BY <1>0, <1>1, <3>1, <3>2
  <2>3. QED BY <2>1, <2>2, StepChanges DEF Changes, SeenChanges
<1>5. QED BY <1>1, <1>2, <1>3, <1>4

\* Nodes are added with a new number, and then only one.
LEMMA OneNodePerSeqStep ==
  ASSUME IInv, [Next]_vars
  PROVE  OneNodePerSeq'
<1> USE DEF IInv, OneNodePerSeq
<1>1. CASE znodes' \subseteq znodes BY <1>1
<1>2. CASE \E l \in Lock : ZkCreate(l)
  BY <1>2 DEF ZkCreate, SeqsUsed, TypeOK, Node, Seq1
<1>3. QED BY <1>1, <1>2, StepNodes DEF NodesChange

LEMMA ReadStaysLowestStep ==
  ASSUME IInv, [Next]_vars
  PROVE  ReadStaysLowest'
<1> USE DEF IInv, TypeOK, Node, Seq1, NoPath
<1> SUFFICES ASSUME NEW k \in Lock, At(k, User, "decide")', NEW z \in znodes'
             PROVE  seen'[k] <= z.seq
  BY DEF ReadStaysLowest
<1>1. CASE LowestSeqChild(k)
  <2>1. PICK s \in Seq1 \cup {NoPath} :
           IsLowest(s, znodes) /\ seen' = [seen EXCEPT ![k] = s]
    BY <1>1 DEF LowestSeqChild
  <2>2. z \in znodes BY <1>1 DEF LowestSeqChild, serverVars
  <2>3. QED BY <2>1, <2>2 DEF IsLowest
<1>2. CASE At(k, User, "decide") /\ seen'[k] = seen[k]
  <2>1. CASE z \in znodes BY <1>2, <2>1 DEF ReadStaysLowest
  <2>2. CASE z \notin znodes
    <3>1. z.seq = nextSeq
      BY <2>2, StepNodes DEF NodesChange, ZkCreate
    <3>2. QED BY <1>2, <3>1 DEF SeqsUsed
  <2>3. QED BY <2>1, <2>2
<1>3. QED BY <1>1, <1>2, StepChanges DEF Changes, DecideBegins

LEMMA TryHasNoLockStep ==
  ASSUME IInv, [Next]_vars
  PROVE  TryHasNoLock'
<1> USE DEF IInv, TypeOK
<1> SUFFICES ASSUME NEW k \in Lock, InTry(k)' PROVE lockPath'[k] = NoPath
  BY DEF TryHasNoLock
<1>1. CASE TryCreate(k) BY <1>1 DEF TryCreate, fieldVars
<1>2. CASE InTry(k)
  <2>1. lockPath[k] = NoPath BY <1>2 DEF TryHasNoLock
  <2>2. CASE TakeLock(k)
    BY <2>2 DEF TakeLock, Goto, InTry, Thread
  <2>3. CASE \E t \in Thread : DeleteOk(k, t) BY <2>3 DEF DeleteOk
  <2>4. QED BY <2>1, <2>2, <2>3, StepChanges DEF Changes, PathChanges
<1>3. QED BY <1>1, <1>2, StepChanges DEF Changes, TryBegins

\* Only TakeLock makes an instance a holder: a node that appears has a number
\* that no lockPath contains.
LEMMA HoldsBegins ==
  ASSUME IInv, [Next]_vars, NEW k \in Lock, Holds(k)'
  PROVE  (Holds(k) /\ lockPath'[k] = lockPath[k]) \/ TakeLock(k)
<1> USE DEF IInv, TypeOK, Node, Seq1, NoPath
<1>1. CASE \E t \in Thread : DeleteOk(k, t)
  <2>1. lockPath'[k] = NoPath BY <1>1 DEF DeleteOk
  <2>2. QED BY <2>1 DEF Holds
<1>2. CASE lockPath'[k] = lockPath[k]
  <2>1. lockPath[k] < nextSeq BY DEF SeqsUsed
  <2>2. \A y \in znodes' : y \in znodes \/ y.seq = nextSeq
    BY StepNodes DEF NodesChange, ZkCreate
  <2>3. QED BY <1>2, <2>1, <2>2 DEF Holds, NodeExists
<1>3. QED BY <1>1, <1>2, StepChanges DEF Changes, PathChanges

LEMMA HeldIsLowestStep ==
  ASSUME IInv, [Next]_vars
  PROVE  HeldIsLowest'
<1> USE DEF IInv, TypeOK, Node, Seq1, NoPath
<1> SUFFICES ASSUME NEW k \in Lock, Holds(k)', NEW z \in znodes'
             PROVE  lockPath'[k] <= z.seq
  BY DEF HeldIsLowest
<1>1. CASE TakeLock(k)
  <2>1. lockPath'[k] = seen[k] /\ At(k, User, "decide") /\ z \in znodes
    BY <1>1 DEF TakeLock, serverVars
  <2>2. QED BY <2>1 DEF ReadStaysLowest
<1>2. CASE Holds(k) /\ lockPath'[k] = lockPath[k]
  <2>1. z \in znodes \/ z.seq = nextSeq
    BY StepNodes DEF NodesChange, ZkCreate
  <2>2. lockPath[k] < nextSeq BY <1>2 DEF SeqsUsed, Holds, NodeExists
  <2>3. QED BY <1>2, <2>1, <2>2 DEF HeldIsLowest
<1>3. QED BY <1>1, <1>2, HoldsBegins

LEMMA ReplyMeansGoneStep ==
  ASSUME IInv, [Next]_vars
  PROVE  ReplyMeansGone'
<1> USE DEF IInv, TypeOK, Node, Seq1, NoPath
<1> SUFFICES ASSUME NEW k \in Lock, reply'[k] = "ok"
             PROVE  lockPath'[k] # NoPath /\ ~Holds(k)'
  BY DEF ReplyMeansGone
<1>1. CASE \E t \in Thread : ZkDelete(k, t)
  BY <1>1 DEF ZkDelete, Remove, NodeExists, Holds, fieldVars
<1>2. CASE reply[k] = "ok"
  <2>1. lockPath[k] # NoPath /\ ~Holds(k) BY <1>2 DEF ReplyMeansGone
  <2>2. lockPath'[k] = lockPath[k]
    <3>1. ~TakeLock(k) BY <2>1 DEF TakeLock, At, InTry, TryHasNoLock
    <3>2. ~\E t \in Thread : DeleteOk(k, t) BY DEF DeleteOk
    <3>3. QED BY <3>1, <3>2, StepChanges DEF Changes, PathChanges
  <2>3. CASE znodes' \subseteq znodes BY <2>1, <2>2, <2>3 DEF Holds, NodeExists
  <2>4. CASE \E l \in Lock : ZkCreate(l)
    <3>1. \A y \in znodes' : y \in znodes \/ y.seq = nextSeq BY <2>4 DEF ZkCreate
    <3>2. lockPath[k] < nextSeq BY DEF SeqsUsed
    <3>3. QED BY <2>1, <2>2, <3>1, <3>2 DEF Holds, NodeExists
  <2>5. QED BY <2>3, <2>4, StepNodes DEF NodesChange
<1>3. QED BY <1>1, <1>2, StepChanges DEF Changes, ReplyChanges

\* Only steps of a connection change the state of a connection.
LEMMA StepClients ==
  ASSUME [Next]_vars
  PROVE  UNCHANGED clientVars \/ \E c \in Conn : ConnStep(c) \/ FaultStep(c)
<1>1. CASE UNCHANGED vars BY <1>1 DEF vars
<1>2. ASSUME NEW l \in Lock, TryStep(l) PROVE UNCHANGED clientVars
  BY <1>2 DEF TryStep, TryDeadlock, TryCreate, ZkCreate, CreateReturns, CreateAgain,
     CreateFails, CreateNoParent, CreateParentPath, CreateParentPathFails,
     LowestSeqChild, LowestSeqChildFails, TakeLock, NotLowest, UndoCreate,
     UndoCreateFails, TryTrue, TryFalse
<1>3. ASSUME NEW l \in Lock, DoConnectReturns(l) PROVE UNCHANGED clientVars
  BY <1>3 DEF DoConnectReturns
<1>4. ASSUME NEW l \in Lock, NEW t \in Thread, UnlockStep(l, t)
      PROVE  UNCHANGED clientVars
  BY <1>4 DEF UnlockStep, UnlockNotLocked, UnlockBegin, ZkDelete, DeleteFails,
     DeleteOk, ClearAcquired
<1>5. ASSUME NEW l \in Lock, NEW w \in Watcher, WatchStep(l, w)
      PROVE  UNCHANGED clientVars
  BY <1>5 DEF WatchStep, WatchEnds, WatchUnlocks
<1>6. QED BY <1>1, <1>2, <1>3, <1>4, <1>5 DEF Next

LEMMA NoFaultYet ==
  ASSUME TypeOK, [Next]_vars, faults' = 0
  PROVE  faults = 0
<1>1. CASE UNCHANGED clientVars BY <1>1 DEF clientVars
<1>2. ASSUME NEW c \in Conn, ConnStep(c) \/ FaultStep(c) PROVE faults = 0
  BY <1>2 DEF ConnStep, FaultStep, Dial, Authenticate, RejectSession, Drop, Expire, TypeOK
<1>3. QED BY <1>1, <1>2, StepClients

LEMMA SessionsLastStep ==
  ASSUME IInv, [Next]_vars
  PROVE  SessionsLast'
<1> USE DEF IInv, TypeOK
<1>1. CASE \E c \in Conn : ConnStep(c) \/ FaultStep(c)
  <2> PICK c \in Conn : ConnStep(c) \/ FaultStep(c) BY <1>1
  <2> USE DEF SessionsLast, HasSession, serverVars, fieldVars, localVars
  <2>1. CASE Dial(c) BY <2>1 DEF Dial
  <2>2. CASE Authenticate(c) BY <2>2 DEF Authenticate
  <2>3. CASE RejectSession(c) BY <2>3 DEF RejectSession
  <2>4. CASE Drop(c) BY <2>4 DEF Drop
  <2>5. CASE Expire(c) BY <2>5 DEF Expire
  <2>6. QED BY <2>1, <2>2, <2>3, <2>4, <2>5 DEF ConnStep, FaultStep
<1>2. CASE UNCHANGED clientVars
  <2>1. ASSUME NEW k \in Lock, faults = 0, made'[k] # NoPath PROVE HasSession(k)
    <3>1. CASE ZkCreate(k) BY <3>1 DEF ZkCreate, Online
    <3>2. CASE made'[k] = made[k] BY <2>1, <3>2 DEF SessionsLast
    <3>3. QED BY <2>1, <3>1, <3>2, StepChanges DEF Changes, MadeChanges
  <2>2. ASSUME NEW k \in Lock, faults = 0, lockPath'[k] # NoPath PROVE HasSession(k)
    <3>1. CASE lockPath'[k] = lockPath[k] BY <2>2, <3>1 DEF SessionsLast
    <3>2. CASE TakeLock(k)
      <4>1. made[k] # NoPath BY <2>2, <3>2 DEF TakeLock
      <4>2. QED BY <2>2, <4>1 DEF SessionsLast
    <3>3. CASE \E t \in Thread : DeleteOk(k, t) BY <2>2, <3>3 DEF DeleteOk
    <3>4. QED BY <3>1, <3>2, <3>3, StepChanges DEF Changes, PathChanges
  <2>3. QED BY <1>2, <2>1, <2>2 DEF SessionsLast, clientVars, HasSession
<1>3. QED BY <1>1, <1>2, StepClients

LEMMA NoOrphansStep ==
  ASSUME IInv, [Next]_vars
  PROVE  NoOrphans'
<1> USE DEF IInv, TypeOK, Node, Seq1, NoPath
<1> SUFFICES ASSUME faults' = 0, NEW z \in znodes'
             PROVE  \/ lockPath'[z.lock] = z.seq
                    \/ made'[z.lock] = z.seq /\ InTry(z.lock)'
  BY DEF NoOrphans
<1>1. faults = 0 BY NoFaultYet
<1>2. CASE z \notin znodes
  <2>1. PICK l \in Lock : ZkCreate(l) BY <1>2, StepNodes DEF NodesChange
  <2>2. z = [seq |-> nextSeq, lock |-> l] BY <1>2, <2>1 DEF ZkCreate
  <2>3. z.seq = nextSeq /\ z.lock = l BY <2>2
  <2>4. made'[l] = nextSeq BY <2>1 DEF ZkCreate
  <2>5. InTry(l)' BY <2>1 DEF ZkCreate, InTry, At
  <2>6. QED BY <2>3, <2>4, <2>5
<1>3. CASE z \in znodes
  <2> DEFINE k == z.lock
  <2>1. k \in Lock /\ z.seq # NoPath /\ z = [seq |-> z.seq, lock |-> k] BY <1>3
  <2>2. CASE lockPath[k] = z.seq
    <3>1. Holds(k) BY <1>3, <2>1, <2>2 DEF Holds, NodeExists
    <3>2. ~TakeLock(k) BY <2>1, <2>2 DEF TakeLock, At, InTry, TryHasNoLock
    <3>3. ~\E t \in Thread : DeleteOk(k, t)
      BY <2>1, <3>1 DEF DeleteOk, ReplyMeansGone
    <3>4. QED BY <2>1, <2>2, <3>2, <3>3, StepChanges DEF Changes, PathChanges
  <2>3. CASE made[k] = z.seq /\ InTry(k)
    <3>1. HasSession(k) BY <1>1, <2>1, <2>3 DEF SessionsLast
    <3>2. ~ZkCreate(k) BY <2>1, <2>3 DEF ZkCreate
    <3>3. ~CreateAgain(k) BY <1>3, <2>1, <2>3 DEF CreateAgain, NodeExists
    <3>4. ~UndoCreate(k) BY <1>3, <2>1, <2>3 DEF UndoCreate, Remove
    <3>5. ~(CreateFails(k) \/ CreateParentPathFails(k) \/ UndoCreateFails(k))
      BY <3>1 DEF CreateFails, CreateParentPathFails, UndoCreateFails
    <3>6. CASE TakeLock(k) BY <2>1, <2>3, <3>6 DEF TakeLock
    <3>7. CASE InTry(k)' /\ made'[k] = made[k] BY <2>3, <3>7
    <3>8. QED
      BY <2>1, <2>3, <3>2, <3>3, <3>4, <3>5, <3>6, <3>7, StepChanges
      DEF Changes, TryEnds
  <2>4. QED BY <1>1, <1>3, <2>2, <2>3 DEF NoOrphans
<1>4. QED BY <1>2, <1>3

LEMMA UnlockExcludesStep ==
  ASSUME IInv, [Next]_vars
  PROVE  UnlockExcludes'
<1> USE DEF IInv
<1> SUFFICES ASSUME NEW k \in Lock, NEW t \in Thread,
                    At(k, t, "delete")' \/ At(k, t, "clear")'
             PROVE  mutex'[k] = t
  BY DEF UnlockExcludes
<1>1. CASE UnlockBegin(k, t) BY <1>1 DEF UnlockBegin, TypeOK
<1>2. CASE At(k, t, "delete") \/ At(k, t, "clear") \/ DeleteOk(k, t)
  <2>1. mutex[k] = t BY <1>2 DEF DeleteOk, UnlockExcludes
  <2>2. ASSUME NEW u \in Thread, UnlockBegin(k, u) PROVE FALSE
    BY <2>1, <2>2 DEF UnlockBegin, Thread
  <2>3. ASSUME NEW u \in Thread, DeleteFails(k, u) \/ ClearAcquired(k, u) PROVE FALSE
    <3>1. u = t BY <2>1, <2>3 DEF DeleteFails, ClearAcquired, UnlockExcludes
    <3>2. pc'[k][t] \in {"idle", "off"}
      BY <2>3, <3>1 DEF DeleteFails, ClearAcquired, UnlockReturns, Goto, TypeOK
    <3>3. QED BY <3>2 DEF At
  <2>4. QED BY <2>1, <2>2, <2>3, StepMoves DEF Moves, MutexChanges
<1>3. QED BY <1>1, <1>2, StepMoves DEF Moves, DeleteBegins, ClearBegins

\* While nothing fails, a Delete in progress does not fail.
LEMMA DeleteSucceeds ==
  ASSUME IInv, faults = 0, NEW k \in Lock, NEW t \in Thread
  PROVE  ~DeleteFails(k, t)
<1> SUFFICES ASSUME DeleteFails(k, t) PROVE FALSE
  OBVIOUS
<1>1. lockPath[k] # NoPath BY DEF DeleteFails, IInv, PathMeansLocked
<1>2. HasSession(k) BY <1>1 DEF IInv, SessionsLast
<1>3. QED BY <1>2 DEF DeleteFails, IInv, NodesLast

LEMMA NodesLastStep ==
  ASSUME IInv, [Next]_vars
  PROVE  NodesLast'
<1> USE DEF IInv, TypeOK, Node, Seq1, NoPath
<1> SUFFICES ASSUME faults' = 0, NEW k \in Lock
             PROVE  /\ PastCreate(k)' => NodeExists(k, made[k])'
                    /\ lockPath'[k] # NoPath /\ reply'[k] # "ok" => Holds(k)'
                    /\ reply'[k] # "nonode"
  BY DEF NodesLast, PastCreate
<1>1. faults = 0 BY NoFaultYet
<1>2. ASSUME NEW s \in Seq1, NodeExists(k, s)
      PROVE  \/ NodeExists(k, s)'
             \/ UndoCreate(k) /\ s = made[k]
             \/ \E t \in Thread : ZkDelete(k, t) /\ s = lockPath[k]
  <2>1. CASE znodes \subseteq znodes' BY <1>2, <2>1 DEF NodeExists
  <2>2. ASSUME NEW l \in Lock, UndoCreate(l)
        PROVE  NodeExists(k, s)' \/ (UndoCreate(k) /\ s = made[k])
    BY <1>2, <2>2 DEF UndoCreate, Remove, NodeExists
  <2>3. ASSUME NEW l \in Lock, NEW t \in Thread, ZkDelete(l, t)
        PROVE  NodeExists(k, s)' \/ (ZkDelete(k, t) /\ s = lockPath[k])
    BY <1>2, <2>3 DEF ZkDelete, Remove, NodeExists
  <2>4. ASSUME NEW c \in Conn, Expire(c) PROVE FALSE
    BY <1>1, <2>4 DEF Expire
  <2>5. QED BY <2>1, <2>2, <2>3, <2>4, NodesRemoved
<1>3. ASSUME NEW t \in Thread, ZkDelete(k, t)
      PROVE  lockPath[k] # NoPath /\ Holds(k) /\ reply'[k] = "ok"
  <2>1. lockPath[k] # NoPath BY <1>1, <1>3 DEF ZkDelete, PathMeansLocked
  <2>2. Holds(k) BY <1>1, <1>3, <2>1 DEF ZkDelete, NodesLast
  <2>3. QED BY <1>3, <2>1, <2>2 DEF ZkDelete, Holds
<1>4. ASSUME PastCreate(k)' PROVE NodeExists(k, made[k])'
  <2>1. made'[k] = made[k] /\ NodeExists(k, made[k])
    <3>1. CASE CreateReturns(k) BY <3>1 DEF CreateReturns, localVars
    <3>2. CASE PastCreate(k) /\ made'[k] = made[k]
      BY <1>1, <3>2 DEF NodesLast, PastCreate
    <3>3. QED BY <1>4, <3>1, <3>2, StepMoves DEF Moves, PastCreateBegins
  <2>2. made[k] \in Seq1 BY <2>1 DEF NodeExists
  <2>3. ~UndoCreate(k)
    <3>1. UndoCreate(k) => pc'[k][User] = "noLock" BY DEF UndoCreate, Goto, Thread
    <3>2. QED BY <1>4, <3>1 DEF PastCreate
  <2>4. ASSUME NEW t \in Thread, ZkDelete(k, t), made[k] = lockPath[k] PROVE FALSE
    <3>1. PastCreate(k)
      BY <1>4, <2>4, StepMoves
      DEF Moves, PastCreateBegins, PastCreate, CreateReturns, ZkDelete, Goto, At
    <3>2. QED
      BY <2>2, <2>4, <3>1 DEF PastCreate, InTry, TryHasNoLock
  <2>5. NodeExists(k, made[k])' BY <1>2, <2>1, <2>2, <2>3, <2>4 DEF NodeExists
  <2>6. QED BY <2>5
<1>5. ASSUME lockPath'[k] # NoPath, reply'[k] # "ok" PROVE Holds(k)'
  <2>1. lockPath'[k] \in Seq1 /\ NodeExists(k, lockPath'[k]) /\ ~UndoCreate(k)
    <3>1. CASE TakeLock(k)
      <4>1. NodeExists(k, made[k])
        BY <1>1, <3>1 DEF TakeLock, At, NodesLast
      <4>2. ~UndoCreate(k) BY <3>1 DEF TakeLock, UndoCreate, At
      <4>3. QED BY <1>5, <3>1, <4>1, <4>2 DEF TakeLock
    <3>2. CASE lockPath'[k] = lockPath[k]
      <4>1. reply[k] # "ok"
        <5>1. CASE reply'[k] = reply[k] BY <1>5, <5>1
        <5>2. CASE \E t \in Thread : ZkDelete(k, t) BY <5>2 DEF ZkDelete
        <5>3. CASE \E t \in Thread : DeleteOk(k, t)
          BY <1>5, <5>3 DEF DeleteOk
        <5>4. QED
          BY <1>1, <5>1, <5>2, <5>3, DeleteSucceeds, StepMoves DEF Moves, AnswerChanges
      <4>2. Holds(k) BY <1>1, <1>5, <3>2, <4>1 DEF NodesLast
      <4>3. ~UndoCreate(k) BY <4>2 DEF Holds, UndoCreate, At, InTry, TryHasNoLock
      <4>4. QED BY <1>5, <3>2, <4>2, <4>3 DEF Holds
    <3>3. CASE \E t \in Thread : DeleteOk(k, t) BY <1>5, <3>3 DEF DeleteOk
    <3>4. QED BY <3>1, <3>2, <3>3, StepChanges DEF Changes, PathChanges
  <2>2. ~\E t \in Thread : ZkDelete(k, t) BY <1>3, <1>5
  <2>3. [seq |-> lockPath'[k], lock |-> k] \in znodes'
    BY <1>2, <2>1, <2>2 DEF NodeExists
  <2>4. QED BY <1>5, <2>3 DEF Holds, NodeExists
<1>6. reply'[k] # "nonode"
  <2>1. reply[k] # "nonode" BY <1>1 DEF NodesLast
  <2>2. CASE \E t \in Thread : DeleteOk(k, t) BY <2>2 DEF DeleteOk
  <2>3. QED
    BY <1>1, <1>3, <2>1, <2>2, DeleteSucceeds, StepMoves DEF Moves, AnswerChanges
<1>7. QED BY <1>4, <1>5, <1>6

LEMMA PathMeansLockedStep ==
  ASSUME IInv, [Next]_vars
  PROVE  PathMeansLocked'
<1> USE DEF IInv, TypeOK
<1> DEFINE Keeping == {"gotLock", "connected", "unlock", "delete"}
<1> SUFFICES ASSUME faults' = 0, NEW k \in Lock
             PROVE  /\ \A t \in Thread : At(k, t, "delete")' => lockPath'[k] # NoPath
                    /\ lockPath'[k] # NoPath =>
                          /\ pc'[k][User] \in Keeping
                          /\ At(k, User, "connected")' => acquired'[k]
                    /\ \A w \in Watcher : At(k, w, "clear")' =>
                          /\ lockPath'[k] = NoPath
                          /\ pc'[k][User] \in {"gotLock", "connected", "unlock"}
                          /\ At(k, User, "connected")' => acquired'[k]
  BY DEF PathMeansLocked
<1>1. faults = 0 BY NoFaultYet
<1>2. User \in Thread /\ \A w \in Watcher : w \in Thread /\ w # User BY DEF Thread
<1>3. ASSUME NEW t \in Thread, At(k, t, "delete")' PROVE lockPath'[k] # NoPath
  <2>1. CASE UnlockBegin(k, t) BY <2>1 DEF UnlockBegin
  <2>2. CASE At(k, t, "delete")
    <3>1. lockPath[k] # NoPath BY <1>1, <2>2 DEF PathMeansLocked
    <3>2. ~TakeLock(k) BY <3>1 DEF TakeLock, At, InTry, TryHasNoLock
    <3>3. ASSUME NEW u \in Thread, DeleteOk(k, u) PROVE FALSE
      <4>1. u = t BY <2>2, <3>3 DEF DeleteOk, UnlockExcludes
      <4>2. QED BY <1>3, <3>3, <4>1 DEF DeleteOk, Goto, At
    <3>4. QED BY <3>1, <3>2, <3>3, StepChanges DEF Changes, PathChanges
  <2>3. QED BY <1>3, <2>1, <2>2, StepMoves DEF Moves, DeleteBegins
\* Common to both: the user keeps to the places between TakeLock and Unlock.
<1>4. ASSUME pc[k][User] \in Keeping, At(k, User, "connected") => acquired[k],
             ~\E t \in {User} : ClearAcquired(k, t) \/ DeleteOk(k, t),
             ~UnlockNotLocked(k, User)
      PROVE  pc'[k][User] \in Keeping
  <2>1. CASE TryTrue(k)
    <3>1. PICK w \in Watcher :
            pc' = [pc EXCEPT ![k][User] = "connected", ![k][w] = "watch"]
      BY <2>1 DEF TryTrue
    <3>2. QED BY <1>2, <3>1
  <2>2. CASE DoConnectReturns(k) BY <1>2, <1>4, <2>2 DEF DoConnectReturns, Goto
  <2>3. CASE UnlockStep(k, User)
    BY <1>1, <1>2, <1>4, <2>3, DeleteSucceeds DEF UnlockStep, UnlockBegin, ZkDelete, Goto
  <2>4. QED BY <1>4, <2>1, <2>2, <2>3, StepMoves DEF Moves, UserLeaves
<1>5. ASSUME At(k, User, "connected") => acquired[k],
             At(k, User, "connected")',
             ~\E t \in Thread : ClearAcquired(k, t)
      PROVE  acquired'[k]
  <2>1. CASE TryTrue(k) BY <2>1 DEF TryTrue
  <2>2. CASE At(k, User, "connected")
    <3>1. ~TryFalse(k) BY <2>2 DEF TryFalse, At
    <3>2. QED BY <1>5, <2>1, <2>2, <3>1, StepMoves DEF Moves, AcquiredChanges
  <2>3. QED BY <1>5, <2>1, <2>2, StepMoves DEF Moves, ConnectedBegins
<1>6. ASSUME lockPath'[k] # NoPath
      PROVE  /\ pc'[k][User] \in Keeping
             /\ At(k, User, "connected")' => acquired'[k]
  <2>1. CASE TakeLock(k) BY <1>2, <2>1 DEF TakeLock, Goto, At
  <2>2. CASE lockPath'[k] = lockPath[k]
    <3>1. /\ pc[k][User] \in Keeping
          /\ At(k, User, "connected") => acquired[k]
      BY <1>1, <1>6, <2>2 DEF PathMeansLocked
    <3>2. ASSUME NEW t \in Thread, ClearAcquired(k, t) PROVE FALSE
      <4>1. CASE t \in Watcher
        BY <1>1, <1>6, <2>2, <3>2, <4>1 DEF ClearAcquired, PathMeansLocked
      <4>2. CASE t = User BY <3>1, <3>2, <4>2 DEF ClearAcquired, At
      <4>3. QED BY <4>1, <4>2 DEF Thread
    <3>3. ~DeleteOk(k, User) BY <1>6 DEF DeleteOk
    <3>4. ~UnlockNotLocked(k, User) BY <1>6, <2>2 DEF UnlockNotLocked
    <3>5. QED BY <1>2, <1>4, <1>5, <3>1, <3>2, <3>3, <3>4
  <2>3. CASE \E t \in Thread : DeleteOk(k, t) BY <1>6, <2>3 DEF DeleteOk
  <2>4. QED BY <2>1, <2>2, <2>3, StepChanges DEF Changes, PathChanges
<1>7. ASSUME NEW w \in Watcher, At(k, w, "clear")'
      PROVE  /\ lockPath'[k] = NoPath
             /\ pc'[k][User] \in {"gotLock", "connected", "unlock"}
             /\ At(k, User, "connected")' => acquired'[k]
  <2>1. CASE DeleteOk(k, w)
    <3>1. lockPath[k] # NoPath /\ lockPath'[k] = NoPath
      BY <2>1 DEF DeleteOk, ReplyMeansGone
    <3>2. mutex[k] = w BY <1>2, <2>1 DEF DeleteOk, UnlockExcludes
    <3>3. ~At(k, User, "delete") BY <1>2, <3>2 DEF UnlockExcludes
    <3>4. pc'[k][User] = pc[k][User] /\ acquired' = acquired
      BY <1>2, <2>1 DEF DeleteOk, Goto
    <3>5. QED BY <1>1, <3>1, <3>3, <3>4 DEF PathMeansLocked, At
  <2>2. CASE At(k, w, "clear")
    <3>1. /\ lockPath[k] = NoPath
          /\ pc[k][User] \in {"gotLock", "connected", "unlock"}
          /\ At(k, User, "connected") => acquired[k]
      BY <1>1, <2>2 DEF PathMeansLocked
    <3>2. mutex[k] = w /\ mutex[k] # NoThread
      BY <1>2, <2>2 DEF UnlockExcludes, Thread
    <3>3. ~TakeLock(k) BY <3>1 DEF TakeLock, At
    <3>4. lockPath'[k] = NoPath
      BY <3>1, <3>3, StepChanges DEF Changes, PathChanges, DeleteOk
    <3>5. ASSUME NEW t \in Thread, ClearAcquired(k, t) PROVE FALSE
      <4>1. t = w BY <3>2, <3>5 DEF ClearAcquired, UnlockExcludes
      <4>2. pc'[k][w] = "off"
        BY <1>2, <3>5, <4>1 DEF ClearAcquired, UnlockReturns, Goto
      <4>3. QED BY <1>7, <4>2 DEF At
    <3>6. ~DeleteOk(k, User) /\ ~UnlockNotLocked(k, User)
      BY <3>1, <3>2 DEF DeleteOk, UnlockNotLocked, At
    <3>7. pc'[k][User] \in Keeping BY <1>2, <1>4, <3>1, <3>5, <3>6
    <3>8. ~At(k, User, "delete")'
      <4>1. ~UnlockBegin(k, User) BY <3>2 DEF UnlockBegin
      <4>2. ~At(k, User, "delete") BY <3>1 DEF At
      <4>3. QED BY <1>2, <4>1, <4>2, StepMoves DEF Moves, DeleteBegins
    <3>9. At(k, User, "connected")' => acquired'[k] BY <1>5, <3>1, <3>5
    <3>10. QED BY <3>4, <3>7, <3>8, <3>9 DEF At
  <2>3. QED BY <1>2, <1>7, <2>1, <2>2, StepMoves DEF Moves, ClearBegins
<1>8. QED BY <1>3, <1>6, <1>7

LEMMA IInvInit == Init => IInv
<1> SUFFICES ASSUME Init PROVE IInv
  OBVIOUS
<1> USE DEF Init, NoPath
<1>1. TypeOK BY TypeInit
<1>2. SeqsUsed BY DEF SeqsUsed
<1>3. OneNodePerSeq /\ ReadStaysLowest /\ HeldIsLowest /\ NoOrphans
  BY DEF OneNodePerSeq, ReadStaysLowest, HeldIsLowest, NoOrphans
<1>4. TryHasNoLock /\ ReplyMeansGone
  BY DEF TryHasNoLock, ReplyMeansGone
<1>5. SessionsLast
  BY DEF SessionsLast
<1>6. UnlockExcludes /\ NodesLast /\ PathMeansLocked
  BY DEF UnlockExcludes, NodesLast, PathMeansLocked, At, Thread
<1>7. QED BY <1>1, <1>2, <1>3, <1>4, <1>5, <1>6 DEF IInv

LEMMA IInvStep == IInv /\ [Next]_vars => IInv'
<1> SUFFICES ASSUME IInv, [Next]_vars PROVE IInv'
  OBVIOUS
<1>1. TypeOK' BY TypeStep DEF IInv
<1>2. QED
  BY <1>1, SeqsUsedStep, OneNodePerSeqStep, ReadStaysLowestStep, HeldIsLowestStep,
     TryHasNoLockStep, ReplyMeansGoneStep, SessionsLastStep, NoOrphansStep, UnlockExcludesStep,
     NodesLastStep, PathMeansLockedStep DEF IInv

\* The inductive invariant holds in every reachable state.
THEOREM Invariant == Spec => []IInv
<1>1. QED BY IInvInit, IInvStep, PTL DEF Spec

\* The node of an instance that holds the lock is the oldest one, whatever is
\* lost or expires while other instances try and give up.
THEOREM HolderIsLowest == Spec => []HeldIsLowest
<1>1. IInv => HeldIsLowest BY DEF IInv
<1>2. QED BY <1>1, Invariant, PTL

LEMMA OneHolder == IInv => HeldByOne
<1> SUFFICES ASSUME IInv, NEW l1 \in Lock, NEW l2 \in Lock, Holds(l1), Holds(l2)
             PROVE  l1 = l2
  BY DEF HeldByOne
<1> DEFINE z1 == [seq |-> lockPath[l1], lock |-> l1]
           z2 == [seq |-> lockPath[l2], lock |-> l2]
<1>1. z1 \in znodes /\ z2 \in znodes BY DEF Holds, NodeExists
<1>2. lockPath[l1] <= lockPath[l2] /\ lockPath[l2] <= lockPath[l1]
  BY <1>1 DEF IInv, HeldIsLowest
<1>3. lockPath[l1] \in Int /\ lockPath[l2] \in Int
  BY DEF IInv, TypeOK, Seq1, NoPath
<1>4. z1 = z2 BY <1>1, <1>2, <1>3 DEF IInv, OneNodePerSeq
<1>5. QED BY <1>4

\* At most one instance holds the lock at the server.
THEOREM MutualExclusion == Spec => []HeldByOne
<1>1. QED BY OneHolder, Invariant, PTL

\* While nothing has failed, every node belongs to a holder or to a running try.
THEOREM NothingLeftBehind == Spec => []NoOrphans
<1>1. IInv => NoOrphans BY DEF IInv
<1>2. QED BY <1>1, Invariant, PTL

\* While nothing has failed, an instance whose lockPath is set has the lock at
\* the server until its own Delete is answered.
THEOREM PathIsTrue == Spec => []NodesLast
<1>1. IInv => NodesLast BY DEF IInv
<1>2. QED BY <1>1, Invariant, PTL

\* Try answers with ErrDeadlock only after a fault: until then, whoever unlocks
\* (connectWithLock, or watchState at the same time) leaves no path behind.
THEOREM NoDeadlockWithoutFault == Spec => DeadlockOnlyAfterFault
<1>1. ASSUME IInv, NEW l \in Lock, TryDeadlock(l) PROVE faults > 0
  <2>1. faults # 0 BY <1>1 DEF TryDeadlock, At, IInv, PathMeansLocked
  <2>2. QED BY <1>1, <2>1 DEF IInv, TypeOK
<1>2. IInv /\ [Next]_vars => [\A l \in Lock : TryDeadlock(l) => faults > 0]_vars
  BY <1>1
<1>3. QED BY <1>2, Invariant, PTL DEF Spec, DeadlockOnlyAfterFault

-----------------------------------------------------------------------------
(* The lock implements ExclusiveLock. *)

LEMMA AbstractInit == Init => Abstract!Init
BY DEF Init, Abstract!Init, Holds

LEMMA AbstractStep ==
  ASSUME IInv, [Next]_vars
  PROVE  [Abstract!Next]_{l \in Lock : Holds(l)}
<1> DEFINE h == {l \in Lock : Holds(l)}
<1>1. ASSUME NEW l \in Lock, TakeLock(l)
      PROVE  /\ ~Holds(l)
             /\ Holds(l)' <=> NodeExists(l, made[l])
             /\ \A k \in Lock \ {l} : Holds(k)' <=> Holds(k)
  <2> USE DEF IInv, TypeOK, Node, Seq1, NoPath
  <2>1. lockPath[l] = NoPath BY <1>1 DEF TakeLock, At, InTry, TryHasNoLock
  <2>2. UNCHANGED znodes /\ lockPath' = [lockPath EXCEPT ![l] = made[l]]
    BY <1>1 DEF TakeLock, serverVars
  <2>3. NodeExists(l, made[l]) => made[l] # NoPath BY DEF NodeExists
  <2>4. QED BY <2>1, <2>2, <2>3 DEF Holds, NodeExists
<1>2. ASSUME NEW l \in Lock, TakeLock(l), NodeExists(l, made[l])
      PROVE  Abstract!Acquire(l)
  <2>1. ASSUME NEW k \in Lock, Holds(k) PROVE FALSE
    <3> DEFINE zk == [seq |-> lockPath[k], lock |-> k]
               zl == [seq |-> made[l], lock |-> l]
    <3>1. zk \in znodes /\ zl \in znodes BY <1>2, <2>1 DEF Holds, NodeExists
    <3>2. lockPath[k] <= made[l] BY <2>1, <3>1 DEF IInv, HeldIsLowest
    <3>3. made[l] <= lockPath[k]
      BY <1>2, <3>1 DEF TakeLock, IInv, ReadStaysLowest
    <3>4. lockPath[k] \in Int /\ made[l] \in Int
      BY DEF IInv, TypeOK, Seq1, NoPath
    <3>5. zk = zl BY <3>1, <3>2, <3>3, <3>4 DEF IInv, OneNodePerSeq
    <3>6. k = l BY <3>5
    <3>7. QED BY <1>1, <1>2, <2>1, <3>6
  <2>2. h = {} BY <2>1
  <2>3. h' = {l} BY <1>1, <1>2, <2>2
  <2>4. QED BY <2>2, <2>3 DEF Abstract!Acquire
<1>3. ASSUME NEW l \in Lock, TakeLock(l), ~NodeExists(l, made[l])
      PROVE  h' = h
  BY <1>1, <1>3
<1>4. ASSUME ~\E l \in Lock : TakeLock(l)
      PROVE  h' = h \/ \E l \in Lock : Abstract!Release(l)
  <2>1. h' \subseteq h BY <1>4, HoldsBegins
  <2>2. CASE h' # h
    <3>1. PICK l \in h : l \notin h' BY <2>1, <2>2
    <3>2. h = {l} BY <3>1, OneHolder DEF HeldByOne
    <3>3. h' = h \ {l} BY <2>1, <3>1, <3>2
    <3>4. QED BY <3>1, <3>3 DEF Abstract!Release
  <2>3. QED BY <2>2
<1>5. QED BY <1>2, <1>3, <1>4 DEF Abstract!Next

\* Every behaviour of the lock at the server is one of the abstract lock: it is
\* taken only while nobody holds it, and given up by its holder alone.
THEOREM Refinement == Spec => ImplementsExclusiveLock
<1>1. QED
  BY AbstractInit, AbstractStep, Invariant, PTL
  DEF Spec, ImplementsExclusiveLock, Abstract!Spec
=============================================================================
