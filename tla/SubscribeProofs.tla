-------------------------- MODULE SubscribeProofs --------------------------
(* Proofs about Subscribe, for every set of RPCs and leaves, every request   *)
(* and every bound.  IInv is inductive; the properties follow from it.       *)
EXTENDS Subscribe, FiniteSetTheorems, SequenceTheorems, TLAPS

USE RpcAssumption, LeafAssumption, RequestsAssumption, RemoteAssumption, BoundsAssumption

-----------------------------------------------------------------------------
(* Sequences. *)

\* What a queue contains is there still when something is appended.
LEMMA AppendKeeps ==
  ASSUME NEW S, NEW q \in Seq(S), NEW i \in S
  PROVE  /\ Append(q, i) \in Seq(S)
         /\ Contains(Append(q, i), i)
         /\ \A e : Contains(q, e) => Contains(Append(q, i), e)
         /\ \A n \in 1 .. Len(Append(q, i)) :
               Append(q, i)[n] = i \/ \E k \in 1 .. Len(q) : Append(q, i)[n] = q[k]
<1>1. /\ Append(q, i) \in Seq(S)
      /\ Len(Append(q, i)) = Len(q) + 1
      /\ Append(q, i)[Len(q) + 1] = i
      /\ \A k \in 1 .. Len(q) : Append(q, i)[k] = q[k]
  OBVIOUS
<1>2. Len(q) \in Nat
  OBVIOUS
<1>3. Contains(Append(q, i), i)
  BY <1>1, <1>2 DEF Contains
<1>4. \A e : Contains(q, e) => Contains(Append(q, i), e)
  BY <1>1, <1>2 DEF Contains
<1>5. QED BY <1>1, <1>2, <1>3, <1>4

\* Insert puts the item into the queue, and takes nothing out of it.
LEMMA InsertKeeps ==
  ASSUME NEW S, NEW q \in Seq(S), NEW i \in S
  PROVE  /\ Insert(q, i) \in Seq(S)
         /\ Contains(Insert(q, i), i)
         /\ \A e : Contains(q, e) => Contains(Insert(q, i), e)
         /\ \A n \in 1 .. Len(Insert(q, i)) :
               Insert(q, i)[n] = i \/ \E k \in 1 .. Len(q) : Insert(q, i)[n] = q[k]
<1>1. CASE Contains(q, i) BY <1>1 DEF Insert
<1>2. CASE ~Contains(q, i) BY <1>2, AppendKeeps DEF Insert
<1>3. QED BY <1>1, <1>2

\* Of what a queue contains only the head is taken.
LEMMA TailKeeps ==
  ASSUME NEW S, NEW q \in Seq(S), q # <<>>
  PROVE  /\ Tail(q) \in Seq(S)
         /\ Head(q) \in S
         /\ \E k \in 1 .. Len(q) : Head(q) = q[k]
         /\ \A e : Contains(q, e) => Head(q) = e \/ Contains(Tail(q), e)
         /\ \A n \in 1 .. Len(Tail(q)) : \E k \in 1 .. Len(q) : Tail(q)[n] = q[k]
<1>1. /\ Len(q) \in Nat \ {0}
      /\ Head(q) = q[1]
      /\ Head(q) \in S
      /\ Tail(q) \in Seq(S)
      /\ Len(Tail(q)) = Len(q) - 1
      /\ \A n \in 1 .. Len(Tail(q)) : Tail(q)[n] = q[n + 1]
  OBVIOUS
<1>2. ASSUME NEW e, Contains(q, e) PROVE Head(q) = e \/ Contains(Tail(q), e)
  <2>1. PICK k \in 1 .. Len(q) : q[k] = e BY <1>2 DEF Contains
  <2>2. CASE k = 1 BY <1>1, <2>1, <2>2
  <2>3. CASE k # 1
    <3>1. k - 1 \in 1 .. Len(Tail(q)) BY <1>1, <2>3
    <3>2. Tail(q)[k - 1] = e BY <1>1, <2>1, <3>1
    <3>3. QED BY <3>1, <3>2 DEF Contains
  <2>4. QED BY <2>2, <2>3
<1>3. QED BY <1>1, <1>2

-----------------------------------------------------------------------------
(* Types. *)

\* What the cache sends is an item of the present generation, and neither of the
\* two values that mean something else.
LEMMA Items ==
  /\ \A l \in Leaf, g \in 0 .. MaxResets : Update(l, g) \in Item /\ Delete(l, g) \in Item
  /\ \A i \in Item : i[2] \in Leaf /\ i[3] \in 0 .. MaxResets /\ i # NoItem /\ i # SyncMarker
  /\ NoItem # SyncMarker
BY DEF Item, Update, Delete, NoItem, SyncMarker

\* The steps of the cache and of the server keep the types.
LEMMA TypeCache ==
  ASSUME TypeOK, NEW l \in Leaf, CacheUpdate(l) \/ CacheReset(l) \/ Send(l)
  PROVE  TypeOK'
<1> USE DEF TypeOK, walkVars, sendVars, queueVars, clientVars
<1>1. gen[l] \in 0 .. MaxResets /\ Update(l, gen[l]) \in Item /\ Delete(l, gen[l]) \in Item
  BY Items
<1>2. ASSUME Outdated(l) PROVE view' \in [Rpc -> [Leaf -> {"none", "old", "current"}]]
  BY <1>2 DEF Outdated
<1>3. CASE CacheUpdate(l)
  <2>1. fresh' \in [Rpc -> BOOLEAN] BY <1>3 DEF CacheUpdate
  <2>2. QED BY <1>1, <1>2, <1>3, <2>1 DEF CacheUpdate
<1>4. CASE CacheReset(l)
  <2>1. gen' \in [Leaf -> 0 .. MaxResets] BY <1>1, <1>4 DEF CacheReset
  <2>2. owed' \in [Rpc -> SUBSET Leaf] BY <1>4 DEF CacheReset
  <2>3. QED BY <1>1, <1>2, <1>4, <2>1, <2>2 DEF CacheReset
<1>5. CASE Send(l)
  <2>1. out[l] \in Item BY <1>5 DEF Send
  <2>2. buffer' \in Seq(Item) /\ Len(buffer') <= BufferSize
    BY <1>5, <2>1 DEF Send
  <2>3. QED BY <1>5, <2>2 DEF Send
<1>6. QED BY <1>3, <1>4, <1>5

LEMMA TypeServerUpdate ==
  ASSUME TypeOK, ServerUpdate
  PROVE  TypeOK'
<1> USE DEF TypeOK, walkVars, sendVars, clientVars
<1>1. Head(buffer) \in QueueItem /\ buffer' \in Seq(Item) /\ Len(buffer') <= BufferSize
  BY TailKeeps DEF ServerUpdate, QueueItem
<1>2. \A r \in Rpc : Insert(queue[r], Head(buffer)) \in Seq(QueueItem)
  BY <1>1, InsertKeeps DEF QueueItem
<1>3. queue' \in [Rpc -> Seq(QueueItem)]
  BY <1>2 DEF ServerUpdate, QueueItem
<1>4. QED BY <1>1, <1>3 DEF ServerUpdate, QueueItem

\* A new RPC.
LEMMA TypeSubscribe ==
  ASSUME TypeOK, NEW r \in Rpc, Subscribe(r) \/ SubscribeRejected(r) \/ SubscribeReturns(r)
  PROVE  TypeOK'
<1> USE DEF TypeOK, cacheVars, walkVars, sendVars, queueVars, clientVars
<1>1. CASE Subscribe(r)
  <2>1. <<SyncMarker>> \in Seq(QueueItem) /\ <<>> \in Seq(QueueItem) BY DEF QueueItem
  <2>2. queue' \in [Rpc -> Seq(QueueItem)] BY <1>1, <2>1 DEF Subscribe
  <2>3. walk' \in [Rpc -> {"slot", "walk", "recv", "done"}] BY <1>1 DEF Subscribe
  <2>4. owed' \in [Rpc -> SUBSET Leaf] BY <1>1 DEF Subscribe
  <2>5. QED BY <1>1, <2>2, <2>3, <2>4 DEF Subscribe
<1>2. CASE SubscribeRejected(r) BY <1>2 DEF SubscribeRejected
<1>3. CASE SubscribeReturns(r)
  <2>1. view' \in [Rpc -> [Leaf -> {"none", "old", "current"}]]
    BY <1>3 DEF SubscribeReturns, Nothing
  <2>2. errs[r] - 1 \in Nat BY <1>3 DEF SubscribeReturns
  <2>3. errs' \in [Rpc -> Nat] BY <1>3, <2>2 DEF SubscribeReturns
  <2>4. QED BY <1>3, <2>1, <2>3 DEF SubscribeReturns
<1>4. QED BY <1>1, <1>2, <1>3

LEMMA TypeErr ==
  ASSUME TypeOK, NEW r \in Rpc, Err(r)
  PROVE  errs' \in [Rpc -> Nat]
BY DEF TypeOK, Err

\* The walk of the cache; that slots stays in its range is due to SlotsMatchWalks.
LEMMA TypeWalk ==
  ASSUME TypeOK, NEW r \in Rpc, AcquireSlot(r) \/ Walker(r) \/ PollAgain(r),
         slots' \in 0 .. SubscriptionLimit
  PROVE  TypeOK'
<1> USE TypeErr DEF TypeOK, cacheVars, sendVars, queueVars, clientVars
<1>0. req[r].leaves \subseteq Leaf BY DEF Request
<1>1. CASE AcquireSlot(r)
  <2>1. left' \in [Rpc -> SUBSET Leaf] BY <1>0, <1>1 DEF AcquireSlot
  <2>2. QED BY <1>1, <2>1 DEF AcquireSlot
<1>2. ASSUME NEW l \in Leaf, VisitLeaf(r, l) PROVE TypeOK'
  <2>1. Update(l, gen[l]) \in QueueItem BY Items DEF QueueItem
  <2>2. Insert(queue[r], Update(l, gen[l])) \in Seq(QueueItem) BY <2>1, InsertKeeps
  <2>3. queue' \in [Rpc -> Seq(QueueItem)] BY <1>2, <2>2 DEF VisitLeaf
  <2>4. QED BY <1>2, <2>3 DEF VisitLeaf
<1>3. CASE WalkFails(r) BY <1>3 DEF WalkFails
<1>4. CASE WalkEnds(r)
  <2>1. Insert(queue[r], SyncMarker) \in Seq(QueueItem) BY InsertKeeps DEF QueueItem
  <2>2. queue' \in [Rpc -> Seq(QueueItem)] BY <1>4, <2>1 DEF WalkEnds
  <2>3. walk' \in [Rpc -> {"slot", "walk", "recv", "done"}] BY <1>4 DEF WalkEnds
  <2>4. closed' \in [Rpc -> BOOLEAN] BY <1>4 DEF WalkEnds
  <2>5. QED BY <1>4, <2>2, <2>3, <2>4 DEF WalkEnds
<1>5. CASE PollAgain(r)
  <2>1. owed' \in [Rpc -> SUBSET Leaf] BY <1>5 DEF PollAgain
  <2>2. asks' \in [Rpc -> {"waits", "answered", "hasty"}] BY <1>5 DEF PollAgain
  <2>3. QED BY <1>5, <2>1, <2>2 DEF PollAgain
<1>6. CASE PollEof(r) BY <1>6 DEF PollEof
<1>7. CASE PollFails(r) BY <1>7 DEF PollFails
<1>8. QED BY <1>1, <1>2, <1>3, <1>4, <1>5, <1>6, <1>7 DEF Walker

LEMMA TypeGoto ==
  ASSUME TypeOK, NEW r \in Rpc, NEW p \in {"next", "send", "sync", "done"},
         NEW i \in Item \cup {NoItem}, Goto(r, p, i)
  PROVE  /\ send' \in [Rpc -> {"next", "send", "sync", "done"}]
         /\ item' \in [Rpc -> Item \cup {NoItem}]
         /\ fresh' \in [Rpc -> BOOLEAN]
BY DEF TypeOK, Goto

\* Sending.
LEMMA TypeSend ==
  ASSUME TypeOK, NEW r \in Rpc, Sender(r) \/ Sent(r) \/ SentSync(r)
  PROVE  TypeOK'
<1> USE TypeErr, TypeGoto DEF TypeOK, cacheVars, walkVars, queueVars, clientVars
<1>1. queue[r] # <<>> => /\ Tail(queue[r]) \in Seq(QueueItem)
                         /\ Head(queue[r]) \in QueueItem
  BY TailKeeps
<1>2. CASE NextSync(r) BY <1>1, <1>2 DEF NextSync
<1>3. CASE NextItem(r)
  <2>1. Head(queue[r]) \in Item BY <1>1, <1>3 DEF NextItem, QueueItem
  <2>2. timer' \in [Rpc -> {"stopped", "armed", "fired", "ended"}] BY <1>3 DEF NextItem
  <2>3. queue' \in [Rpc -> Seq(QueueItem)] BY <1>1, <1>3 DEF NextItem
  <2>4. QED BY <1>3, <2>1, <2>2, <2>3 DEF NextItem
<1>4. CASE NextNotForwardable(r) BY <1>1, <1>4 DEF NextNotForwardable
<1>5. CASE NextFails(r) BY <1>5 DEF NextFails
<1>6. CASE SendFails(r)
  <2>1. timer' \in [Rpc -> {"stopped", "armed", "fired", "ended"}] BY <1>6 DEF SendFails
  <2>2. QED BY <1>6, <2>1 DEF SendFails
<1>7. CASE Sent(r)
  <2>1. timer' \in [Rpc -> {"stopped", "armed", "fired", "ended"}] BY <1>7 DEF Sent
  <2>2. PICK v \in {"none", "old", "current"} :
          view' = [view EXCEPT ![r][item[r][2]] = v]
    BY <1>7 DEF Sent
  <2>3. view' \in [Rpc -> [Leaf -> {"none", "old", "current"}]] BY <2>2
  <2>4. owed' \in [Rpc -> SUBSET Leaf] BY <1>7 DEF Sent
  <2>5. QED BY <1>7, <2>1, <2>3, <2>4 DEF Sent
<1>8. CASE SentSync(r)
  <2>1. asks' \in [Rpc -> {"waits", "answered", "hasty"}] BY <1>8 DEF SentSync
  <2>2. QED BY <1>8, <2>1 DEF SentSync
<1>9. QED BY <1>2, <1>3, <1>4, <1>5, <1>6, <1>7, <1>8 DEF Sender

LEMMA TypeRest ==
  ASSUME TypeOK, NEW r \in Rpc, Timer(r) \/ HalfClose(r) \/ Cancel(r)
  PROVE  TypeOK'
<1> USE TypeErr DEF TypeOK, cacheVars, walkVars, sendVars, queueVars, clientVars
<1>1. CASE TimerFires(r) BY <1>1 DEF TimerFires
<1>2. CASE TimerErr(r) BY <1>2 DEF TimerErr
<1>3. CASE TimerDone(r) BY <1>3 DEF TimerDone
<1>4. CASE HalfClose(r) BY <1>4 DEF HalfClose
<1>5. CASE Cancel(r) BY <1>5 DEF Cancel
<1>6. QED BY <1>1, <1>2, <1>3, <1>4, <1>5 DEF Timer

-----------------------------------------------------------------------------
(* Slots. *)

Walks == {r \in Rpc : walk[r] = "walk"}

LEMMA WalksFinite == IsFiniteSet(Walks) /\ IsFiniteSet(Walks')
<1>1. Walks \subseteq Rpc /\ Walks' \subseteq Rpc BY DEF Walks
<1>2. QED BY <1>1, FS_Subset

SlotsOK == slots \in 0 .. SubscriptionLimit /\ SlotsMatchWalks

\* Most steps neither begin nor end a walk.
LEMMA SlotsSame ==
  ASSUME TypeOK, SlotsMatchWalks, UNCHANGED slots, Walks' = Walks
  PROVE  SlotsOK'
BY DEF SlotsOK, SlotsMatchWalks, Walks, TypeOK

\* A walk begins with a slot and ends without it.
LEMMA SlotsAcquired ==
  ASSUME TypeOK, SlotsMatchWalks, NEW r \in Rpc, AcquireSlot(r)
  PROVE  SlotsOK'
<1>1. Walks' = Walks \cup {r} /\ r \notin Walks BY DEF AcquireSlot, Walks, TypeOK
<1>2. Cardinality(Walks') = Cardinality(Walks) + 1
  BY <1>1, WalksFinite, FS_AddElement
<1>3. QED BY <1>2 DEF AcquireSlot, SlotsOK, SlotsMatchWalks, Walks, TypeOK

LEMMA SlotsReleased ==
  ASSUME TypeOK, SlotsMatchWalks, NEW r \in Rpc, WalkFails(r) \/ WalkEnds(r)
  PROVE  SlotsOK'
<1>1. Walks' = Walks \ {r} /\ r \in Walks BY DEF WalkFails, WalkEnds, Walks, TypeOK
<1>2. Cardinality(Walks') = Cardinality(Walks) - 1
  BY <1>1, WalksFinite, FS_RemoveElement
<1>3. Cardinality(Walks') \in Nat BY WalksFinite, FS_CardinalityType
<1>4. slots' = IF SubscriptionLimit = 0 THEN 0 ELSE slots - 1
  BY DEF WalkFails, WalkEnds, ReleaseSlot
<1>5. SubscriptionLimit > 0 => slots = Cardinality(Walks) /\ slots' = slots - 1
  BY <1>4 DEF SlotsMatchWalks, Walks
<1>6. slots' \in 0 .. SubscriptionLimit
  BY <1>2, <1>3, <1>4, <1>5 DEF TypeOK
<1>7. QED BY <1>2, <1>5, <1>6 DEF SlotsOK, SlotsMatchWalks, Walks

LEMMA SlotsStep ==
  ASSUME TypeOK, SlotsMatchWalks, IdleHasNone, [Next]_vars
  PROVE  SlotsOK'
<1>1. UNCHANGED <<slots, walk>> => SlotsOK' BY SlotsSame DEF Walks
<1> USE DEF walkVars
<1>2. CASE UNCHANGED vars BY <1>1, <1>2 DEF vars
<1>3. CASE ServerUpdate BY <1>1, <1>3 DEF ServerUpdate
<1>4. ASSUME NEW l \in Leaf, CacheUpdate(l) \/ CacheReset(l) \/ Send(l) PROVE SlotsOK'
  BY <1>1, <1>4 DEF CacheUpdate, CacheReset, Send
<1>5. ASSUME NEW r \in Rpc, Subscribe(r) \/ SubscribeRejected(r) \/ SubscribeReturns(r)
      PROVE SlotsOK'
  <2>1. UNCHANGED slots BY <1>5 DEF Subscribe, SubscribeRejected, SubscribeReturns
  <2>2. Walks' = Walks
    BY <1>5 DEF Subscribe, SubscribeRejected, SubscribeReturns, IdleHasNone,
                GoroutinesEnded, Walks, TypeOK
  <2>3. QED BY <2>1, <2>2, SlotsSame
<1>6. ASSUME NEW r \in Rpc, Walker(r) \/ PollAgain(r) PROVE SlotsOK'
  <2>1. ASSUME PollEof(r) \/ PollFails(r) \/ PollAgain(r) PROVE SlotsOK'
    <3>1. UNCHANGED slots /\ Walks' = Walks
      BY <2>1 DEF PollEof, PollFails, PollAgain, Walks, TypeOK
    <3>2. QED BY <3>1, SlotsSame
  <2>2. ASSUME NEW l \in Leaf, VisitLeaf(r, l) PROVE SlotsOK'
    BY <1>1, <2>2 DEF VisitLeaf
  <2>3. QED BY <1>6, <2>1, <2>2, SlotsReleased DEF Walker
<1>7. ASSUME NEW r \in Rpc, Sender(r) \/ Sent(r) \/ SentSync(r) PROVE SlotsOK'
  BY <1>1, <1>7 DEF Sender, Sent, SentSync, NextSync, NextItem, NextNotForwardable,
                    NextFails, SendFails
<1>8. ASSUME NEW r \in Rpc, Timer(r) \/ HalfClose(r) \/ Cancel(r) PROVE SlotsOK'
  BY <1>1, <1>8 DEF Timer, TimerFires, TimerErr, TimerDone, HalfClose, Cancel
<1>9. QED
  BY <1>2, <1>3, <1>4, <1>5, <1>6, <1>7, <1>8, SlotsAcquired DEF Next

LEMMA TypeStep ==
  ASSUME TypeOK, SlotsMatchWalks, IdleHasNone, [Next]_vars
  PROVE  TypeOK'
<1>1. slots' \in 0 .. SubscriptionLimit BY SlotsStep DEF SlotsOK
<1>2. CASE UNCHANGED vars
  BY <1>2 DEF TypeOK, vars, cacheVars, walkVars, sendVars, queueVars, clientVars
<1>3. ASSUME NEW l \in Leaf, CacheUpdate(l) \/ CacheReset(l) \/ Send(l) PROVE TypeOK'
  BY <1>3, TypeCache
<1>4. CASE ServerUpdate BY <1>4, TypeServerUpdate
<1>5. ASSUME NEW r \in Rpc, Subscribe(r) \/ SubscribeRejected(r) \/ SubscribeReturns(r)
      PROVE TypeOK'
  BY <1>5, TypeSubscribe
<1>6. ASSUME NEW r \in Rpc, AcquireSlot(r) \/ Walker(r) \/ PollAgain(r) PROVE TypeOK'
  BY <1>1, <1>6, TypeWalk
<1>7. ASSUME NEW r \in Rpc, Sender(r) \/ Sent(r) \/ SentSync(r) PROVE TypeOK'
  BY <1>7, TypeSend
<1>8. ASSUME NEW r \in Rpc, Timer(r) \/ HalfClose(r) \/ Cancel(r) PROVE TypeOK'
  BY <1>8, TypeRest
<1>9. QED BY <1>2, <1>3, <1>4, <1>5, <1>6, <1>7, <1>8 DEF Next

-----------------------------------------------------------------------------
(* Answers on errC. *)

ErrsOK == IdleHasNone /\ ErrsAccounted

\* An answer is the last step of a goroutine, and nothing else is one.
LEMMA ErrsStep ==
  ASSUME TypeOK, IdleHasNone, ErrsAccounted, [Next]_vars
  PROVE  ErrsOK'
<1> USE DEF ErrsOK, IdleHasNone, ErrsAccounted, GoroutinesEnded, Once
<1>1. UNCHANGED <<main, walk, send, timer, errs, closed, client>> => ErrsOK' OBVIOUS
<1>2. CASE UNCHANGED vars BY <1>1, <1>2 DEF vars, walkVars, sendVars, queueVars
<1>3. CASE ServerUpdate BY <1>1, <1>3 DEF ServerUpdate, walkVars, sendVars, queueVars
<1>4. ASSUME NEW l \in Leaf, CacheUpdate(l) \/ CacheReset(l) \/ Send(l) PROVE ErrsOK'
  BY <1>1, <1>4 DEF CacheUpdate, CacheReset, Send, walkVars, sendVars, queueVars
<1> USE DEF TypeOK, walkVars, sendVars, queueVars, Err
<1>5. ASSUME NEW r \in Rpc, Subscribe(r) \/ SubscribeRejected(r) \/ SubscribeReturns(r)
      PROVE ErrsOK'
  <2>1. CASE Subscribe(r) BY <1>5, <2>1 DEF Subscribe
  <2>2. CASE SubscribeRejected(r) BY <1>5, <2>2 DEF SubscribeRejected
  <2>3. CASE SubscribeReturns(r) BY <1>5, <2>3 DEF SubscribeReturns
  <2>4. QED BY <1>5, <2>1, <2>2, <2>3
<1>6. ASSUME NEW r \in Rpc, AcquireSlot(r) \/ Walker(r) \/ PollAgain(r) PROVE ErrsOK'
  <2>1. CASE AcquireSlot(r) BY <2>1 DEF AcquireSlot
  <2>2. ASSUME NEW l \in Leaf, VisitLeaf(r, l) PROVE ErrsOK'
    BY <1>1, <2>2 DEF VisitLeaf
  <2>3. CASE WalkFails(r) BY <2>3 DEF WalkFails
  <2>4. CASE WalkEnds(r) BY <2>4 DEF WalkEnds
  <2>5. CASE PollAgain(r) BY <2>5 DEF PollAgain
  <2>6. CASE PollEof(r) BY <2>6 DEF PollEof
  <2>7. CASE PollFails(r) BY <2>7 DEF PollFails
  <2>8. QED BY <1>6, <2>1, <2>2, <2>3, <2>4, <2>5, <2>6, <2>7 DEF Walker
<1>7. ASSUME NEW r \in Rpc, Sender(r) \/ Sent(r) \/ SentSync(r) PROVE ErrsOK'
  <2> USE DEF Goto
  <2>1. CASE NextSync(r) BY <2>1 DEF NextSync
  <2>2. CASE NextItem(r) BY <2>2 DEF NextItem
  <2>3. CASE NextNotForwardable(r) BY <2>3 DEF NextNotForwardable
  <2>4. CASE NextFails(r) BY <2>4 DEF NextFails
  <2>5. CASE SendFails(r) BY <2>5 DEF SendFails
  <2>6. CASE Sent(r) BY <2>6 DEF Sent
  <2>7. CASE SentSync(r) BY <2>7 DEF SentSync
  <2>8. QED BY <1>7, <2>1, <2>2, <2>3, <2>4, <2>5, <2>6, <2>7 DEF Sender
<1>8. ASSUME NEW r \in Rpc, Timer(r) \/ HalfClose(r) \/ Cancel(r) PROVE ErrsOK'
  <2>1. CASE TimerFires(r) BY <2>1 DEF TimerFires
  <2>2. CASE TimerErr(r) BY <2>2 DEF TimerErr
  <2>3. CASE TimerDone(r) BY <2>3 DEF TimerDone
  <2>4. CASE HalfClose(r) BY <2>4 DEF HalfClose
  <2>5. CASE Cancel(r) BY <2>5 DEF Cancel
  <2>6. QED BY <1>8, <2>1, <2>2, <2>3, <2>4, <2>5 DEF Timer
<1>9. QED BY <1>2, <1>3, <1>4, <1>5, <1>6, <1>7, <1>8 DEF Next

-----------------------------------------------------------------------------
(* Generations. *)

\* Generations only grow, and while one lasts its leaf stays.
LEMMA GenGrows ==
  ASSUME TypeOK, [Next]_vars
  PROVE  \A l \in Leaf : \/ gen'[l] = gen[l] /\ (l \in present => l \in present')
                        \/ gen'[l] = gen[l] + 1
<1>1. \/ UNCHANGED gen /\ present \subseteq present'
      \/ \E l \in Leaf : gen' = [gen EXCEPT ![l] = @ + 1] /\ present' = present \ {l}
  <2>1. CASE UNCHANGED vars BY <2>1 DEF vars, cacheVars
  <2>2. CASE \E l \in Leaf : CacheUpdate(l) \/ CacheReset(l) \/ Send(l)
    BY <2>2 DEF CacheUpdate, CacheReset, Send
  <2>3. CASE ServerUpdate BY <2>3 DEF ServerUpdate
  <2>4. ASSUME NEW r \in Rpc, Subscribe(r) \/ SubscribeRejected(r) \/ SubscribeReturns(r)
        PROVE UNCHANGED <<gen, present>>
    BY <2>4 DEF Subscribe, SubscribeRejected, SubscribeReturns, cacheVars
  <2>5. ASSUME NEW r \in Rpc, AcquireSlot(r) \/ Walker(r) \/ PollAgain(r)
        PROVE UNCHANGED <<gen, present>>
    BY <2>5 DEF AcquireSlot, Walker, PollAgain, VisitLeaf, WalkFails, WalkEnds, PollEof,
                PollFails, cacheVars
  <2>6. ASSUME NEW r \in Rpc, Sender(r) \/ Sent(r) \/ SentSync(r) PROVE UNCHANGED <<gen, present>>
    BY <2>6 DEF Sender, Sent, SentSync, NextSync, NextItem, NextNotForwardable, NextFails,
                SendFails, cacheVars
  <2>7. ASSUME NEW r \in Rpc, Timer(r) \/ HalfClose(r) \/ Cancel(r) PROVE UNCHANGED <<gen, present>>
    BY <2>7 DEF Timer, TimerFires, TimerErr, TimerDone, HalfClose, Cancel, cacheVars
  <2>8. QED BY <2>1, <2>2, <2>3, <2>4, <2>5, <2>6, <2>7 DEF Next
<1>2. QED BY <1>1 DEF TypeOK

\* Nothing becomes early.
LEMMA NotEarlyGrows ==
  ASSUME TypeOK, [Next]_vars
  PROVE  NotEarly \subseteq NotEarly'
<1>1. \A l \in Leaf : \/ gen'[l] = gen[l] /\ (l \in present => l \in present')
                     \/ gen'[l] = gen[l] + 1
  BY GenGrows
<1>2. \A l \in Leaf : gen[l] \in Nat BY DEF TypeOK
<1>3. ASSUME NEW i \in NotEarly PROVE i \in NotEarly'
  <2>1. CASE i \in Item BY <1>1, <1>2, <1>3, <2>1, Items DEF NotEarly, QueueItem
  <2>2. CASE i \notin Item BY <2>2 DEF NotEarly, QueueItem, SyncMarker, NoItem
  <2>3. QED BY <2>1, <2>2
<1>4. QED BY <1>3

LEMMA EarlyStep ==
  ASSUME TypeOK, NothingIsEarly, [Next]_vars
  PROVE  NothingIsEarly'
<1> DEFINE D == NotEarly'
<1>1. /\ out \in [Leaf -> D] /\ item \in [Rpc -> D]
      /\ buffer \in Seq(D) /\ queue \in [Rpc -> Seq(D)]
  <2>1. NotEarly \subseteq D BY NotEarlyGrows
  <2> HIDE DEF D
  <2>2. buffer \in Seq(D) BY <2>1, SeqMonotonic DEF NothingIsEarly
  <2>3. \A r \in Rpc : queue[r] \in Seq(D) BY <2>1, SeqMonotonic DEF NothingIsEarly
  <2>4. QED BY <2>1, <2>2, <2>3 DEF NothingIsEarly
<1>2. /\ NoItem \in D /\ SyncMarker \in D
      /\ \A l \in present : Update(l, gen[l]) \in D
  <2>1. \A l \in present : Update(l, gen[l]) \in Item BY Items DEF TypeOK
  <2>2. \A l \in present : Update(l, gen[l]) \in NotEarly
    BY <2>1 DEF NotEarly, QueueItem, Update, TypeOK
  <2>3. QED BY <2>2, NotEarlyGrows DEF NotEarly, QueueItem, NoItem, SyncMarker
<1>3. SUFFICES /\ out' \in [Leaf -> D] /\ item' \in [Rpc -> D]
               /\ buffer' \in Seq(D) /\ queue' \in [Rpc -> Seq(D)]
  BY DEF NothingIsEarly
<1> DEFINE Goal == /\ out' \in [Leaf -> D] /\ item' \in [Rpc -> D]
                   /\ buffer' \in Seq(D) /\ queue' \in [Rpc -> Seq(D)]
<1>4. ASSUME NEW l \in Leaf, CacheUpdate(l) PROVE Update(l, gen[l]) \in D
  <2>1. gen' = gen /\ l \in present' BY <1>4 DEF CacheUpdate
  <2>2. Update(l, gen[l]) \in Item BY Items DEF TypeOK
  <2>3. QED BY <2>1, <2>2 DEF NotEarly, QueueItem, Update
<1>5. ASSUME NEW l \in Leaf, CacheReset(l) PROVE Delete(l, gen[l]) \in D
  <2>1. gen' = [gen EXCEPT ![l] = @ + 1] BY <1>5 DEF CacheReset
  <2>2. Delete(l, gen[l]) \in Item /\ gen[l] < gen'[l] BY <2>1, Items DEF TypeOK
  <2>3. QED BY <2>2 DEF NotEarly, QueueItem, Delete
<1> HIDE DEF D
<1> USE DEF cacheVars, walkVars, sendVars, queueVars
<1>6. CASE UNCHANGED vars BY <1>1, <1>6 DEF vars
<1>7. ASSUME NEW l \in Leaf, CacheUpdate(l) \/ CacheReset(l) \/ Send(l) PROVE Goal
  <2>1. CASE CacheUpdate(l) BY <1>1, <1>4, <2>1 DEF CacheUpdate
  <2>2. CASE CacheReset(l) BY <1>1, <1>5, <2>2 DEF CacheReset
  <2>3. CASE Send(l)
    <3>1. buffer' \in Seq(D) BY <1>1, <2>3, AppendKeeps DEF Send
    <3>2. QED BY <1>1, <1>2, <2>3, <3>1 DEF Send
  <2>4. QED BY <1>7, <2>1, <2>2, <2>3
<1>8. CASE ServerUpdate
  <2>1. Head(buffer) \in D /\ buffer' \in Seq(D) BY <1>1, <1>8, TailKeeps DEF ServerUpdate
  <2>2. \A r \in Rpc : Insert(queue[r], Head(buffer)) \in Seq(D)
    BY <1>1, <2>1, InsertKeeps
  <2>3. queue' \in [Rpc -> Seq(D)] BY <1>1, <1>8, <2>2 DEF ServerUpdate
  <2>4. QED BY <1>1, <1>8, <2>1, <2>3 DEF ServerUpdate
<1>9. ASSUME NEW r \in Rpc, Subscribe(r) \/ SubscribeRejected(r) \/ SubscribeReturns(r)
      PROVE Goal
  <2>1. CASE Subscribe(r)
    <3>1. <<SyncMarker>> \in Seq(D) /\ <<>> \in Seq(D) BY <1>2
    <3>2. queue' \in [Rpc -> Seq(D)] BY <1>1, <2>1, <3>1 DEF Subscribe
    <3>3. QED BY <1>1, <2>1, <3>2 DEF Subscribe
  <2>2. QED BY <1>1, <1>9, <2>1 DEF SubscribeRejected, SubscribeReturns
<1>10. ASSUME NEW r \in Rpc, AcquireSlot(r) \/ Walker(r) \/ PollAgain(r) PROVE Goal
  <2>1. ASSUME NEW l \in Leaf, VisitLeaf(r, l) PROVE Goal
    <3>1. l \in present => Insert(queue[r], Update(l, gen[l])) \in Seq(D)
      BY <1>1, <1>2, InsertKeeps
    <3>2. queue' \in [Rpc -> Seq(D)] BY <1>1, <2>1, <3>1 DEF VisitLeaf
    <3>3. QED BY <1>1, <2>1, <3>2 DEF VisitLeaf
  <2>2. CASE WalkEnds(r)
    <3>1. Insert(queue[r], SyncMarker) \in Seq(D) BY <1>1, <1>2, InsertKeeps
    <3>2. queue' \in [Rpc -> Seq(D)] BY <1>1, <2>2, <3>1 DEF WalkEnds
    <3>3. QED BY <1>1, <2>2, <3>2 DEF WalkEnds
  <2>3. QED BY <1>1, <1>10, <2>1, <2>2 DEF Walker, AcquireSlot, WalkFails, PollAgain,
                                         PollEof, PollFails
<1>11. ASSUME NEW r \in Rpc, Sender(r) \/ Sent(r) \/ SentSync(r) PROVE Goal
  <2>1. queue[r] # <<>> => Tail(queue[r]) \in Seq(D) /\ Head(queue[r]) \in D
    BY <1>1, TailKeeps
  <2>2. CASE NextSync(r) \/ NextItem(r) \/ NextNotForwardable(r)
    <3>1. queue' \in [Rpc -> Seq(D)]
      BY <1>1, <2>1, <2>2 DEF NextSync, NextItem, NextNotForwardable
    <3>2. item' \in [Rpc -> D]
      BY <1>1, <1>2, <2>1, <2>2 DEF NextSync, NextItem, NextNotForwardable, Goto
    <3>3. QED BY <1>1, <2>2, <3>1, <3>2 DEF NextSync, NextItem, NextNotForwardable
  <2>3. CASE NextFails(r) \/ SendFails(r) \/ Sent(r) \/ SentSync(r)
    <3>1. UNCHANGED <<out, buffer, queue>> /\ \E p : Goto(r, p, NoItem)
      BY <2>3 DEF NextFails, SendFails, Sent, SentSync
    <3>2. QED BY <1>1, <1>2, <3>1 DEF Goto
  <2>4. QED BY <1>11, <2>2, <2>3 DEF Sender
<1>12. ASSUME NEW r \in Rpc, Timer(r) \/ HalfClose(r) \/ Cancel(r) PROVE Goal
  BY <1>1, <1>12 DEF Timer, TimerFires, TimerErr, TimerDone, HalfClose, Cancel
<1>13. QED BY <1>6, <1>7, <1>8, <1>9, <1>10, <1>11, <1>12 DEF Next

-----------------------------------------------------------------------------
(* What the sender has in its hands. *)

\* Only the goroutine that sends takes an item, and every time with its value.
Sends(r) ==
  /\ \A k \in Rpc \ {r} : /\ item'[k] = item[k] /\ fresh'[k] = fresh[k]
                          /\ send'[k] = send[k] /\ view'[k] = view[k]
  /\ send'[r] # "send" => item'[r] = NoItem
  /\ fresh'[r] = (item'[r] # NoItem)
  /\ UNCHANGED gen

LEMMA GotoSends ==
  ASSUME TypeOK, NEW r \in Rpc, NEW p, NEW i, Goto(r, p, i), p # "send" => i = NoItem,
         UNCHANGED gen, \A k \in Rpc \ {r} : view'[k] = view[k]
  PROVE  Sends(r)
BY DEF Goto, Sends, TypeOK

LEMMA SenderSends ==
  ASSUME TypeOK, NEW r \in Rpc, Sender(r) \/ Sent(r) \/ SentSync(r)
  PROVE  Sends(r)
<1> USE DEF cacheVars, clientVars
<1>1. CASE NextSync(r)
  <2>1. Goto(r, "sync", NoItem) /\ UNCHANGED <<gen, view>> BY <1>1 DEF NextSync
  <2>2. QED BY <2>1, GotoSends
<1>2. CASE NextItem(r)
  <2>1. Goto(r, "send", Head(queue[r])) /\ UNCHANGED <<gen, view>> BY <1>2 DEF NextItem
  <2>2. QED BY <2>1, GotoSends
<1>3. CASE NextNotForwardable(r) \/ NextFails(r) \/ SendFails(r)
  <2>1. Goto(r, "done", NoItem) /\ UNCHANGED <<gen, view>>
    BY <1>3 DEF NextNotForwardable, NextFails, SendFails
  <2>2. QED BY <2>1, GotoSends
<1>4. CASE Sent(r)
  <2>1. Goto(r, "next", NoItem) /\ UNCHANGED gen BY <1>4 DEF Sent
  <2>2. \A k \in Rpc \ {r} : view'[k] = view[k] BY <1>4 DEF Sent, TypeOK
  <2>3. QED BY <2>1, <2>2, GotoSends
<1>5. CASE SentSync(r)
  <2>1. Goto(r, "next", NoItem) /\ UNCHANGED <<gen, view>> BY <1>5 DEF SentSync
  <2>2. QED BY <2>1, GotoSends
<1>6. QED BY <1>1, <1>2, <1>3, <1>4, <1>5 DEF Sender

\* Together with the values of a leaf, only these steps change it.
ItemSame == UNCHANGED <<send, item, fresh, view, gen>>

LEMMA ItemChanges ==
  ASSUME TypeOK, [Next]_vars
  PROVE  \/ ItemSame
         \/ \E l \in Leaf : CacheUpdate(l) \/ CacheReset(l)
         \/ \E r \in Rpc : Subscribe(r) \/ SubscribeReturns(r) \/ Sends(r)
<1> USE DEF ItemSame, cacheVars, walkVars, sendVars, queueVars, clientVars
<1>1. CASE UNCHANGED vars BY <1>1 DEF vars
<1>2. ASSUME NEW l \in Leaf, Send(l) PROVE ItemSame BY <1>2 DEF Send
<1>3. ServerUpdate => ItemSame BY DEF ServerUpdate
<1>4. ASSUME NEW r \in Rpc, SubscribeRejected(r) PROVE ItemSame BY <1>4 DEF SubscribeRejected
<1>5. ASSUME NEW r \in Rpc, AcquireSlot(r) \/ Walker(r) \/ PollAgain(r) PROVE ItemSame
  BY <1>5 DEF AcquireSlot, Walker, PollAgain, VisitLeaf, WalkFails, WalkEnds, PollEof,
              PollFails
<1>6. ASSUME NEW r \in Rpc, Timer(r) \/ HalfClose(r) \/ Cancel(r) PROVE ItemSame
  BY <1>6 DEF Timer, TimerFires, TimerErr, TimerDone, HalfClose, Cancel
<1> HIDE DEF ItemSame
<1>7. QED BY <1>1, <1>2, <1>3, <1>4, <1>5, <1>6, SenderSends DEF Next

LEMMA ItemIsSentStep ==
  ASSUME TypeOK, IdleHasNone, ItemIsSent, [Next]_vars
  PROVE  ItemIsSent'
<1> USE DEF ItemIsSent, TypeOK
<1>1. CASE ItemSame BY <1>1 DEF ItemSame
<1>2. ASSUME NEW l \in Leaf, CacheUpdate(l) \/ CacheReset(l) PROVE ItemIsSent'
  BY <1>2 DEF CacheUpdate, CacheReset, sendVars
<1>3. ASSUME NEW r \in Rpc, Subscribe(r) PROVE ItemIsSent'
  BY <1>3 DEF Subscribe, IdleHasNone, GoroutinesEnded
<1>4. ASSUME NEW r \in Rpc, SubscribeReturns(r) PROVE ItemIsSent'
  BY <1>4 DEF SubscribeReturns, sendVars
<1>5. ASSUME NEW r \in Rpc, Sends(r) PROVE ItemIsSent'
  BY <1>5 DEF Sends, Goto
<1>6. QED BY <1>1, <1>2, <1>3, <1>4, <1>5, ItemChanges

LEMMA StaleStep ==
  ASSUME TypeOK, StaleIsOutdated, [Next]_vars
  PROVE  StaleIsOutdated'
<1> USE DEF TypeOK
<1>1. SUFFICES ASSUME NEW k \in Rpc, NEW l \in Leaf,
                      item'[k] = Update(l, gen'[l]), ~fresh'[k]
               PROVE  view'[k][l] # "current"
  BY DEF StaleIsOutdated, Update
<1> USE <1>1 DEF StaleIsOutdated
<1>2. CASE ItemSame BY <1>2 DEF ItemSame
<1>3. ASSUME NEW m \in Leaf, Outdated(m)
      PROVE  view'[k][l] = IF l = m /\ view[k][l] = "current" THEN "old" ELSE view[k][l]
  BY <1>3 DEF Outdated
<1>4. ASSUME NEW m \in Leaf, CacheUpdate(m) PROVE view'[k][l] # "current"
  <2>1. /\ item'[k] = item[k] /\ gen' = gen /\ Outdated(m)
        /\ fresh'[k] = (fresh[k] /\ item[k] # Update(m, gen[m]))
    BY <1>4 DEF CacheUpdate, sendVars
  <2>2. CASE l = m BY <1>3, <2>1, <2>2
  <2>3. CASE l # m
    <3>1. Update(l, gen[l]) # Update(m, gen[m]) BY <2>3 DEF Update
    <3>2. ~fresh[k] BY <2>1, <3>1
    <3>3. QED BY <1>3, <2>1, <2>3, <3>2
  <2>4. QED BY <2>2, <2>3
<1>5. ASSUME NEW m \in Leaf, CacheReset(m) PROVE view'[k][l] # "current"
  <2>1. item' = item /\ fresh' = fresh /\ gen' = [gen EXCEPT ![m] = @ + 1] /\ Outdated(m)
    BY <1>5 DEF CacheReset, sendVars
  <2>2. CASE l = m BY <1>3, <2>1, <2>2
  <2>3. CASE l # m BY <1>3, <2>1, <2>3
  <2>4. QED BY <2>2, <2>3
<1>6. ASSUME NEW r \in Rpc, Subscribe(r) PROVE view'[k][l] # "current"
  BY <1>6 DEF Subscribe, cacheVars
<1>7. ASSUME NEW r \in Rpc, SubscribeReturns(r) PROVE view'[k][l] # "current"
  <2>1. UNCHANGED <<item, fresh, gen>> /\ view' = [view EXCEPT ![r] = Nothing]
    BY <1>7 DEF SubscribeReturns, sendVars, cacheVars
  <2>2. QED BY <2>1 DEF Nothing
<1>8. ASSUME NEW r \in Rpc, Sends(r) PROVE view'[k][l] # "current"
  <2>1. CASE k = r
    <3>1. fresh'[k] = (item'[k] # NoItem) BY <1>8, <2>1 DEF Sends
    <3>2. Update(l, gen'[l]) # NoItem BY DEF Update, NoItem
    <3>3. QED BY <3>1, <3>2
  <2>2. CASE k # r BY <1>8, <2>2 DEF Sends
  <2>3. QED BY <2>1, <2>2
<1>9. QED BY <1>2, <1>4, <1>5, <1>6, <1>7, <1>8, ItemChanges

-----------------------------------------------------------------------------
(* What is on its way to a client. *)

Served(k, l) ==
  /\ Registered(k) /\ ~req[k].only /\ ~closed[k] /\ send[k] # "done"
  /\ l \in req[k].leaves \cap present /\ gen[l] = 0

NotLost(k, l) == Served(k, l) => view[k][l] = "current" \/ OnItsWay(k, l)

\* Steps that have nothing to do with the leaf or with the RPC.
SameFor(k, l) ==
  /\ out'[l] = out[l] /\ gen'[l] = gen[l] /\ (l \in present' <=> l \in present)
  /\ buffer' = buffer
  /\ queue'[k] = queue[k] /\ item'[k] = item[k] /\ fresh'[k] = fresh[k]
  /\ walk'[k] = walk[k] /\ left'[k] = left[k] /\ view'[k][l] = view[k][l]
  /\ main'[k] = main[k] /\ closed'[k] = closed[k] /\ send'[k] = send[k]
  /\ req'[k] = req[k]

LEMMA LostSame ==
  ASSUME NEW k \in Rpc, NEW l \in Leaf, NotLost(k, l), SameFor(k, l)
  PROVE  NotLost(k, l)'
BY DEF NotLost, SameFor, Served, OnItsWay, InBuffer, Registered, Update

\* A step of one RPC says nothing of another one.
LEMMA LostOther ==
  ASSUME TypeOK, NEW k \in Rpc, NEW l \in Leaf, NotLost(k, l), NEW r \in Rpc \ {k},
         \/ Subscribe(r) \/ SubscribeRejected(r) \/ SubscribeReturns(r)
         \/ AcquireSlot(r) \/ Walker(r) \/ PollAgain(r)
         \/ Sender(r) \/ Sent(r) \/ SentSync(r) \/ Timer(r)
         \/ HalfClose(r) \/ Cancel(r)
  PROVE  NotLost(k, l)'
<1> USE DEF SameFor, TypeOK, cacheVars, walkVars, sendVars, queueVars, clientVars
<1>1. ASSUME Subscribe(r) \/ SubscribeRejected(r) \/ SubscribeReturns(r) PROVE SameFor(k, l)
  BY <1>1 DEF Subscribe, SubscribeRejected, SubscribeReturns
<1>2. ASSUME AcquireSlot(r) \/ PollAgain(r) PROVE SameFor(k, l)
  BY <1>2 DEF AcquireSlot, PollAgain
<1>3. ASSUME Walker(r) PROVE SameFor(k, l)
  <2>1. ASSUME NEW m \in Leaf, VisitLeaf(r, m) PROVE SameFor(k, l)
    BY <2>1 DEF VisitLeaf
  <2>2. CASE WalkFails(r) BY <2>2 DEF WalkFails
  <2>3. CASE WalkEnds(r) BY <2>3 DEF WalkEnds
  <2>4. CASE PollEof(r) \/ PollFails(r) BY <2>4 DEF PollEof, PollFails
  <2>5. QED BY <1>3, <2>1, <2>2, <2>3, <2>4 DEF Walker
<1>4. ASSUME Sender(r) \/ SentSync(r) PROVE SameFor(k, l)
  BY <1>4 DEF Sender, SentSync, NextSync, NextItem, NextNotForwardable, NextFails, SendFails,
              Goto
<1>5. ASSUME Sent(r) PROVE SameFor(k, l) BY <1>5 DEF Sent, Goto
<1>6. ASSUME Timer(r) \/ HalfClose(r) \/ Cancel(r) PROVE SameFor(k, l)
  BY <1>6 DEF Timer, TimerFires, TimerErr, TimerDone, HalfClose, Cancel
<1>7. QED BY <1>1, <1>2, <1>3, <1>4, <1>5, <1>6, LostSame

\* From the cache to the queues.
LEMMA LostCache ==
  ASSUME TypeOK, NEW k \in Rpc, NEW l \in Leaf, NotLost(k, l), NEW m \in Leaf,
         CacheUpdate(m) \/ CacheReset(m) \/ Send(m)
  PROVE  NotLost(k, l)'
<1> USE DEF TypeOK, walkVars, sendVars, queueVars, clientVars
<1>1. ASSUME CacheUpdate(m) \/ CacheReset(m), l # m PROVE NotLost(k, l)'
  <2>1. Update(m, gen[m]) # Update(l, gen[l]) BY <1>1 DEF Update
  <2>2. view'[k][l] = view[k][l] BY <1>1 DEF CacheUpdate, CacheReset, Outdated
  <2>3. CASE CacheUpdate(m)
    <3>1. item[k] = Update(l, gen[l]) => fresh'[k] = fresh[k]
      BY <2>1, <2>3 DEF CacheUpdate
    <3>2. QED
      BY <1>1, <2>2, <2>3, <3>1
         DEF CacheUpdate, NotLost, Served, OnItsWay, InBuffer, Registered, Update
  <2>4. CASE CacheReset(m)
    <3>1. SameFor(k, l) BY <1>1, <2>2, <2>4 DEF CacheReset, SameFor
    <3>2. QED BY <3>1, LostSame
  <2>5. QED BY <1>1, <2>3, <2>4
<1>2. ASSUME CacheUpdate(l) PROVE NotLost(k, l)'
  <2>1. out'[l] = Update(l, gen'[l]) BY <1>2 DEF CacheUpdate
  <2>2. QED BY <2>1 DEF NotLost, OnItsWay, Update
<1>3. ASSUME CacheReset(l) PROVE NotLost(k, l)'
  <2>1. gen'[l] = gen[l] + 1 BY <1>3 DEF CacheReset
  <2>2. gen'[l] # 0 BY <2>1
  <2>3. QED BY <2>2 DEF NotLost, Served
<1>4. ASSUME Send(m) PROVE NotLost(k, l)'
  <2>1. out[m] \in Item BY <1>4 DEF Send
  <2>2. \A e : Contains(buffer, e) \/ e = out[m] => Contains(buffer', e)
    BY <1>4, <2>1, AppendKeeps DEF Send
  <2>3. out[l] = Update(l, gen[l]) => out'[l] = out[l] \/ Contains(buffer', Update(l, gen[l]))
    BY <1>4, <2>2 DEF Send
  <2>4. UNCHANGED <<present, gen, queue, item, fresh, walk, left, view, main, closed, send,
                    req>>
    BY <1>4 DEF Send
  <2>5. QED
    BY <2>2, <2>3, <2>4 DEF NotLost, Served, OnItsWay, InBuffer, Registered, Update
<1>5. QED BY <1>1, <1>2, <1>3, <1>4

LEMMA LostUpdate ==
  ASSUME TypeOK, NEW k \in Rpc, NEW l \in Leaf, NotLost(k, l), ServerUpdate
  PROVE  NotLost(k, l)'
<1> DEFINE u == Update(l, gen[l])
<1> USE DEF TypeOK
<1>1. Head(buffer) \in QueueItem /\ buffer' = Tail(buffer)
  BY TailKeeps DEF ServerUpdate, QueueItem
<1>2. \A e : Contains(buffer, e) => Head(buffer) = e \/ Contains(buffer', e)
  BY TailKeeps DEF ServerUpdate
<1>3. /\ Contains(Insert(queue[k], Head(buffer)), Head(buffer))
      /\ \A e : Contains(queue[k], e) => Contains(Insert(queue[k], Head(buffer)), e)
  BY <1>1, InsertKeeps
<1>4. queue'[k] = IF Registered(k) /\ ~closed[k] /\ Head(buffer)[2] \in req[k].leaves
                  THEN Insert(queue[k], Head(buffer)) ELSE queue[k]
  BY DEF ServerUpdate
<1>5. UNCHANGED <<present, gen, out, item, fresh, walk, left, view, main, closed, send, req>>
  BY DEF ServerUpdate, walkVars, sendVars, clientVars
<1>6. u[2] = l BY DEF Update
<1>7. Contains(queue[k], u) => Contains(queue'[k], u) BY <1>3, <1>4
<1>8. Served(k, l) /\ Contains(buffer, u) => Contains(buffer', u) \/ Contains(queue'[k], u)
  BY <1>2, <1>3, <1>4, <1>6 DEF Served
<1>9. Served(k, l)' => Served(k, l) BY <1>5 DEF Served, Registered
<1>10. u' = u BY <1>5
<1>11. QED BY <1>5, <1>7, <1>8, <1>9, <1>10 DEF NotLost, OnItsWay, InBuffer

\* A walk that is to come counts for every leaf, one that runs for those it has yet
\* to visit, and the queue for those it has visited.
LEMMA LostWalk ==
  ASSUME TypeOK, NEW r \in Rpc, NEW l \in Leaf, NotLost(r, l),
         AcquireSlot(r) \/ Walker(r) \/ PollAgain(r)
  PROVE  NotLost(r, l)'
<1> USE DEF TypeOK, cacheVars, sendVars, queueVars, clientVars, NotLost, Served, Registered,
            OnItsWay, InBuffer
<1>1. CASE AcquireSlot(r)
  <2>1. Served(r, l)' => l \in left'[r] BY <1>1 DEF AcquireSlot
  <2>2. QED BY <2>1
<1>2. ASSUME NEW m \in Leaf, VisitLeaf(r, m) PROVE NotLost(r, l)'
  <2>1. Update(m, gen[m]) \in QueueItem BY Items DEF QueueItem
  <2>2. /\ Contains(Insert(queue[r], Update(m, gen[m])), Update(m, gen[m]))
        /\ \A e : Contains(queue[r], e) => Contains(Insert(queue[r], Update(m, gen[m])), e)
    BY <2>1, InsertKeeps
  <2>3. queue'[r] = IF m \in present THEN Insert(queue[r], Update(m, gen[m])) ELSE queue[r]
    BY <1>2 DEF VisitLeaf
  <2>4. left'[r] = left[r] \ {m} BY <1>2 DEF VisitLeaf
  <2>5. UNCHANGED <<present, gen, out, buffer, item, fresh, walk, view, main, closed, send,
                    req>>
    BY <1>2 DEF VisitLeaf
  <2>6. Contains(queue[r], Update(l, gen[l])) => Contains(queue'[r], Update(l, gen[l]))
    BY <2>2, <2>3
  <2>7. l = m /\ m \in present => Contains(queue'[r], Update(l, gen[l])) BY <2>2, <2>3
  <2>8. QED BY <2>4, <2>5, <2>6, <2>7
<1>3. CASE WalkFails(r)
  <2>1. closed'[r] BY <1>3 DEF WalkFails
  <2>2. QED BY <2>1
<1>4. CASE WalkEnds(r)
  <2>1. \A e : Contains(queue[r], e) => Contains(Insert(queue[r], SyncMarker), e)
    <3>1. SyncMarker \in QueueItem BY DEF QueueItem
    <3>2. QED BY <3>1, InsertKeeps
  <2>2. queue'[r] = Insert(queue[r], SyncMarker) /\ left'[r] = {} /\ left[r] = {}
        /\ walk[r] # "slot" /\ ~closed[r]
    BY <1>4 DEF WalkEnds
  <2>3. UNCHANGED <<present, gen, out, buffer, item, fresh, view, main, send, req>>
    BY <1>4 DEF WalkEnds
  <2>4. Contains(queue[r], Update(l, gen[l])) => Contains(queue'[r], Update(l, gen[l]))
    BY <2>1, <2>2
  <2>5. QED BY <2>2, <2>3, <2>4
<1>5. CASE PollAgain(r) BY <1>5 DEF PollAgain
<1>6. CASE PollEof(r) \/ PollFails(r)
  <2>1. walk[r] = "recv" BY <1>6 DEF PollEof, PollFails
  <2>2. UNCHANGED <<present, gen, out, buffer, queue, closed, left, item, fresh, view, main,
                    send, req>>
    BY <1>6 DEF PollEof, PollFails
  <2>3. QED BY <2>1, <2>2
<1>7. QED BY <1>1, <1>2, <1>3, <1>4, <1>5, <1>6 DEF Walker

\* An RPC that begins has its walk to come; one that returns is not served.
LEMMA LostMain ==
  ASSUME TypeOK, NEW r \in Rpc, NEW l \in Leaf, NotLost(r, l),
         \/ Subscribe(r) \/ SubscribeRejected(r) \/ SubscribeReturns(r)
         \/ Timer(r) \/ HalfClose(r) \/ Cancel(r)
  PROVE  NotLost(r, l)'
<1> USE DEF TypeOK, cacheVars, walkVars, sendVars, queueVars, clientVars
<1>1. CASE Subscribe(r)
  <2>1. ~req[r].only => walk'[r] = "slot" BY <1>1 DEF Subscribe
  <2>2. req' = req BY <1>1 DEF Subscribe
  <2>3. QED BY <2>1, <2>2 DEF NotLost, Served, OnItsWay
<1>2. CASE SubscribeRejected(r) \/ SubscribeReturns(r)
  <2>1. main'[r] = "done" BY <1>2 DEF SubscribeRejected, SubscribeReturns
  <2>2. QED BY <2>1 DEF NotLost, Served, Registered
<1>3. CASE Timer(r) \/ HalfClose(r) \/ Cancel(r)
  <2>1. SameFor(r, l)
    BY <1>3 DEF Timer, TimerFires, TimerErr, TimerDone, HalfClose, Cancel, SameFor
  <2>2. QED BY <2>1, LostSame
<1>4. QED BY <1>1, <1>2, <1>3

\* What is taken from the queue is being sent, with the value of this moment.
LEMMA LostSender ==
  ASSUME TypeOK, ItemIsSent, NEW r \in Rpc, NEW l \in Leaf, NotLost(r, l),
         Sender(r) \/ SentSync(r)
  PROVE  NotLost(r, l)'
<1> DEFINE u == Update(l, gen[l])
<1> USE DEF TypeOK, cacheVars, walkVars, queueVars, clientVars
<1>1. u # SyncMarker /\ u # NoItem BY DEF Update, SyncMarker, NoItem
<1>2. ASSUME send'[r] = "done" PROVE NotLost(r, l)' BY <1>2 DEF NotLost, Served
<1>3. CASE NextSync(r) \/ NextItem(r)
  <2>1. queue[r] # <<>> /\ queue'[r] = Tail(queue[r])
    <3>1. queue[r] # <<>> /\ queue' = [queue EXCEPT ![r] = Tail(@)]
      BY <1>3 DEF NextSync, NextItem
    <3>2. QED BY <3>1
  <2>2. Contains(queue[r], u) => Head(queue[r]) = u \/ Contains(queue'[r], u)
    BY <2>1, TailKeeps
  <2>3. item[r] # u BY <1>1, <1>3 DEF NextSync, NextItem, ItemIsSent
  <2>4. Head(queue[r]) = u => item'[r] = u /\ fresh'[r]
    BY <1>1, <1>3 DEF NextSync, NextItem, Goto
  <2>5. UNCHANGED <<present, gen, out, buffer, walk, left, view, main, closed, req>>
    BY <1>3 DEF NextSync, NextItem
  <2>6. send[r] # "done" BY <1>3 DEF NextSync, NextItem
  <2>7. u' = u BY <2>5
  <2>8. QED BY <2>2, <2>3, <2>4, <2>5, <2>6, <2>7
            DEF NotLost, Served, OnItsWay, InBuffer, Registered
<1>4. CASE NextNotForwardable(r) \/ NextFails(r) \/ SendFails(r)
  BY <1>2, <1>4 DEF NextNotForwardable, NextFails, SendFails, Goto
<1>5. CASE SentSync(r)
  <2>1. item[r] # u BY <1>1, <1>5 DEF SentSync, ItemIsSent
  <2>2. send[r] # "done" BY <1>5 DEF SentSync
  <2>3. UNCHANGED <<present, gen, out, buffer, queue, walk, left, view, main, closed, req>>
    BY <1>5 DEF SentSync
  <2>4. QED BY <2>1, <2>2, <2>3
            DEF NotLost, Served, OnItsWay, InBuffer, Registered, Update
<1>6. QED BY <1>3, <1>4, <1>5 DEF Sender

\* The client has what was sent: the newest value if it was read since the last
\* update, else a newer one is on its way; an item of another generation cannot be,
\* as there has been none.
LEMMA LostSent ==
  ASSUME TypeOK, StaleIsOutdated, NothingIsEarly, NEW r \in Rpc, NEW l \in Leaf,
         NotLost(r, l), Sent(r)
  PROVE  NotLost(r, l)'
<1> DEFINE u == Update(l, gen[l])
<1> USE DEF TypeOK
<1>1. UNCHANGED <<present, gen, out, buffer, queue, walk, left, main, closed, req>>
      /\ send[r] # "done"
  BY DEF Sent, cacheVars, walkVars, queueVars
<1>2. u' = u BY <1>1
<1>3. view' = [view EXCEPT ![r][item[r][2]] =
                  IF item[r][1] = "delete" THEN "none"
                  ELSE IF fresh[r] /\ item[r] = Update(item[r][2], gen[item[r][2]])
                  THEN "current" ELSE "old"]
  BY DEF Sent
<1>4. item[r] \in Item \cup {NoItem} /\ item[r] \in NotEarly BY DEF NothingIsEarly
<1>5. SUFFICES ASSUME Served(r, l)' PROVE view'[r][l] = "current" \/ OnItsWay(r, l)'
  BY DEF NotLost
<1>6. Served(r, l) BY <1>1, <1>5 DEF Served, Registered
<1>7. CASE item[r] = u /\ fresh[r]
  <2>1. item[r][2] = l /\ item[r][1] # "delete" BY <1>7 DEF Update
  <2>2. view'[r][l] = "current" BY <1>3, <1>7, <2>1
  <2>3. QED BY <2>2
<1>8. CASE item[r] = u /\ ~fresh[r]
  <2>1. view[r][l] # "current" BY <1>8 DEF StaleIsOutdated
  <2>2. QED BY <1>1, <1>2, <1>6, <1>8, <2>1 DEF NotLost, OnItsWay, InBuffer
<1>9. CASE item[r] # u
  <2>1. ASSUME item[r] \in Item PROVE item[r][2] # l
    <3>1. item[r] \in {"update", "delete"} \X Leaf \X (0 .. MaxResets) BY <2>1 DEF Item
    <3>2. item[r][1] = "delete" => item[r][3] < gen[item[r][2]] BY <1>4 DEF NotEarly
    <3>3. item[r][1] = "update" => \/ item[r][3] < gen[item[r][2]]
                                     \/ item[r][3] = gen[item[r][2]]
      BY <1>4 DEF NotEarly
    <3>4. item[r] = <<item[r][1], item[r][2], item[r][3]>> /\ item[r][3] \in Nat
          /\ item[r][1] \in {"update", "delete"}
      BY <3>1
    <3>5. gen[l] = 0 BY <1>6 DEF Served
    <3>6. QED BY <1>9, <3>2, <3>3, <3>4, <3>5 DEF Update
  <2>2. item[r] = NoItem => item[r][2] # l BY DEF NoItem
  <2>3. view'[r][l] = view[r][l] BY <1>3, <1>4, <2>1, <2>2
  <2>4. QED BY <1>1, <1>2, <1>6, <1>9, <2>3 DEF NotLost, OnItsWay, InBuffer
<1>10. QED BY <1>7, <1>8, <1>9

LEMMA NoLostStep ==
  ASSUME TypeOK, NoLostUpdate, StaleIsOutdated, ItemIsSent, NothingIsEarly, [Next]_vars
  PROVE  NoLostUpdate'
<1>1. SUFFICES ASSUME NEW k \in Rpc, NEW l \in Leaf PROVE NotLost(k, l)'
  BY DEF NoLostUpdate, NotLost, Served
<1>2. NotLost(k, l) BY DEF NoLostUpdate, NotLost, Served
<1>3. CASE UNCHANGED vars
  <2>1. SameFor(k, l)
    BY <1>3 DEF vars, cacheVars, walkVars, sendVars, queueVars, clientVars, SameFor
  <2>2. QED BY <1>2, <2>1, LostSame
<1>4. ASSUME NEW m \in Leaf, CacheUpdate(m) \/ CacheReset(m) \/ Send(m)
      PROVE  NotLost(k, l)'
  BY <1>2, <1>4, LostCache
<1>5. CASE ServerUpdate BY <1>2, <1>5, LostUpdate
<1>6. ASSUME NEW r \in Rpc,
             \/ Subscribe(r) \/ SubscribeRejected(r) \/ SubscribeReturns(r)
             \/ AcquireSlot(r) \/ Walker(r) \/ PollAgain(r)
             \/ Sender(r) \/ Sent(r) \/ SentSync(r) \/ Timer(r)
             \/ HalfClose(r) \/ Cancel(r)
      PROVE  NotLost(k, l)'
  <2>1. CASE r = k BY <1>2, <1>6, <2>1, LostWalk, LostMain, LostSender, LostSent
  <2>2. CASE r # k BY <1>2, <1>6, <2>2, LostOther
  <2>3. QED BY <2>1, <2>2
<1>7. QED BY <1>3, <1>4, <1>5, <1>6 DEF Next

-----------------------------------------------------------------------------
(* The sync response comes after the leaves. *)

\* Of u: it is in the sender's hands, or ahead of every marker of the queue.
Behind(q, i, u) ==
  \A k \in 1 .. Len(q) : q[k] = SyncMarker => i = u \/ \E j \in 1 .. k - 1 : q[j] = u

Single(q) == \A j, k \in 1 .. Len(q) : q[j] = SyncMarker /\ q[k] = SyncMarker => j = k

Marked(q) == Contains(q, SyncMarker)

Walking(r) == walk[r] \in {"slot", "walk"}

\* The leaf that r must be sent has yet to be visited, or is on its way.
ToVisit(r, l) ==
  /\ l \in present \cap req[r].leaves /\ ~req[r].only
  /\ \/ walk[r] = "slot" \/ l \in left[r]
     \/ item[r] = Update(l, gen[l]) \/ Contains(queue[r], Update(l, gen[l]))

LeavesFirst(r) ==
  \A l \in owed[r] :
      /\ send[r] # "sync"
      /\ Behind(queue[r], item[r], Update(l, gen[l]))
      /\ Walking(r) => ToVisit(r, l)

\* A client that waits for one answer has one walk, marker or response under way.
OneAnswer(r) ==
  /\ main[r] = "idle" => asks[r] = "waits"
  /\ asks[r] = "hasty" => owed[r] = {}
  /\ Single(queue[r])
  /\ asks[r] = "answered" => ~Marked(queue[r]) /\ send[r] # "sync" /\ ~Walking(r)
  /\ asks[r] = "waits" =>
        /\ Marked(queue[r]) => send[r] # "sync" /\ ~Walking(r)
        /\ send[r] = "sync" => ~Walking(r)

SyncOf(r) == OneAnswer(r) /\ (send[r] # "done" => LeavesFirst(r))

SyncInv == \A r \in Rpc : SyncOf(r)

LEMMA AppendOrder ==
  ASSUME NEW q \in Seq(QueueItem), NEW i \in QueueItem
  PROVE  /\ Append(q, i) \in Seq(QueueItem)
         /\ i # SyncMarker =>
               /\ Marked(Append(q, i)) <=> Marked(q)
               /\ Single(q) => Single(Append(q, i))
               /\ \A h, u : Behind(q, h, u) => Behind(Append(q, i), h, u)
         /\ i = SyncMarker =>
               /\ ~Marked(q) => Single(Append(q, i))
               /\ \A h, u : Behind(q, h, u) /\ (h = u \/ Contains(q, u))
                               => Behind(Append(q, i), h, u)
<1>1. /\ Append(q, i) \in Seq(QueueItem) /\ Len(q) \in Nat
      /\ Len(Append(q, i)) = Len(q) + 1
      /\ Append(q, i)[Len(q) + 1] = i
      /\ \A k \in 1 .. Len(q) : Append(q, i)[k] = q[k]
  OBVIOUS
<1>2. Contains(q, SyncMarker) => Contains(Append(q, i), SyncMarker) BY <1>1 DEF Contains
<1>3. ASSUME i # SyncMarker
      PROVE  /\ Marked(Append(q, i)) <=> Marked(q)
             /\ Single(q) => Single(Append(q, i))
  BY <1>1, <1>2, <1>3 DEF Marked, Contains, Single
<1>4. ASSUME NEW h, NEW u, Behind(q, h, u), i = SyncMarker => h = u \/ Contains(q, u)
      PROVE  Behind(Append(q, i), h, u)
  <2> SUFFICES ASSUME NEW k \in 1 .. Len(q) + 1, Append(q, i)[k] = SyncMarker, h # u
               PROVE  \E j \in 1 .. k - 1 : Append(q, i)[j] = u
    BY <1>1 DEF Behind
  <2>1. CASE k \in 1 .. Len(q)
    <3>1. PICK j \in 1 .. k - 1 : q[j] = u BY <1>1, <1>4, <2>1 DEF Behind
    <3>2. j \in 1 .. Len(q) BY <1>1, <2>1, <3>1
    <3>3. QED BY <1>1, <3>1, <3>2
  <2>2. CASE k = Len(q) + 1
    <3>1. PICK j \in 1 .. Len(q) : q[j] = u BY <1>1, <1>4, <2>2 DEF Contains
    <3>2. j \in 1 .. k - 1 BY <1>1, <2>2, <3>1
    <3>3. QED BY <1>1, <3>1, <3>2
  <2>3. QED BY <1>1, <2>1, <2>2
<1>5. ASSUME i = SyncMarker, ~Marked(q) PROVE Single(Append(q, i))
  BY <1>1, <1>5 DEF Marked, Contains, Single
<1>6. QED BY <1>1, <1>3, <1>4, <1>5

\* Insert, of an item or of a marker.
LEMMA InsertOrder ==
  ASSUME NEW q \in Seq(QueueItem), NEW i \in QueueItem, Single(q)
  PROVE  /\ Single(Insert(q, i))
         /\ i # SyncMarker =>
               /\ Marked(Insert(q, i)) <=> Marked(q)
               /\ \A h, u : Behind(q, h, u) => Behind(Insert(q, i), h, u)
         /\ i = SyncMarker =>
               \A h, u : Behind(q, h, u) /\ (h = u \/ Contains(q, u))
                            => Behind(Insert(q, i), h, u)
<1>1. CASE Contains(q, i) BY <1>1 DEF Insert
<1>2. CASE ~Contains(q, i) BY <1>2, AppendOrder DEF Insert, Marked
<1>3. QED BY <1>1, <1>2

LEMMA TailOrder ==
  ASSUME NEW q \in Seq(QueueItem), q # <<>>, Single(q)
  PROVE  /\ Single(Tail(q))
         /\ Marked(Tail(q)) => Marked(q) /\ Head(q) # SyncMarker
         /\ Head(q) = SyncMarker => Marked(q)
         /\ \A h, u : Behind(q, h, u) /\ Head(q) = SyncMarker => h = u
         /\ \A h, u : Behind(q, h, u) /\ h # u => Behind(Tail(q), Head(q), u)
<1>1. /\ Len(q) \in Nat \ {0} /\ Head(q) = q[1]
      /\ Len(Tail(q)) = Len(q) - 1
      /\ \A n \in 1 .. Len(q) - 1 : Tail(q)[n] = q[n + 1]
      /\ \A n \in 1 .. Len(q) - 1 : n + 1 \in 1 .. Len(q)
  OBVIOUS
<1>2. Single(Tail(q)) BY <1>1 DEF Single
<1>3. ASSUME Marked(Tail(q)) PROVE Marked(q) /\ Head(q) # SyncMarker
  <2>1. PICK n \in 1 .. Len(q) - 1 : Tail(q)[n] = SyncMarker
    BY <1>1, <1>3 DEF Marked, Contains
  <2>2. q[n + 1] = SyncMarker /\ n + 1 \in 1 .. Len(q) /\ n + 1 # 1 /\ 1 \in 1 .. Len(q)
    BY <1>1, <2>1
  <2>3. QED BY <1>1, <2>2 DEF Marked, Contains, Single
<1>4. Head(q) = SyncMarker => Marked(q) BY <1>1 DEF Marked, Contains
<1>5. ASSUME NEW h, NEW u, Behind(q, h, u), Head(q) = SyncMarker PROVE h = u
  <2>1. 1 \in 1 .. Len(q) /\ q[1] = SyncMarker BY <1>1, <1>5
  <2>2. h = u \/ \E j \in 1 .. 1 - 1 : q[j] = u BY <1>5, <2>1 DEF Behind
  <2>3. QED BY <2>2
<1>6. ASSUME NEW h, NEW u, Behind(q, h, u), h # u PROVE Behind(Tail(q), Head(q), u)
  <2> SUFFICES ASSUME NEW n \in 1 .. Len(q) - 1, Tail(q)[n] = SyncMarker, Head(q) # u
               PROVE  \E j \in 1 .. n - 1 : Tail(q)[j] = u
    BY <1>1 DEF Behind
  <2>1. q[n + 1] = SyncMarker /\ n + 1 \in 1 .. Len(q) BY <1>1
  <2>2. PICK j \in 1 .. (n + 1) - 1 : q[j] = u BY <1>6, <2>1 DEF Behind
  <2>3. j # 1 BY <1>1, <2>2
  <2>4. j - 1 \in 1 .. n - 1 /\ j - 1 \in 1 .. Len(q) - 1 /\ (j - 1) + 1 = j
    BY <1>1, <2>2, <2>3
  <2>5. Tail(q)[j - 1] = u BY <1>1, <2>2, <2>4
  <2>6. QED BY <2>4, <2>5
<1>7. QED BY <1>2, <1>3, <1>4, <1>5, <1>6

\* Steps that leave the RPC alone, or let it owe less.
SyncSame(k) ==
  /\ main'[k] = main[k] /\ asks'[k] = asks[k] /\ walk'[k] = walk[k]
  /\ queue'[k] = queue[k] /\ item'[k] = item[k] /\ left'[k] = left[k]
  /\ send'[k] = send[k] /\ req'[k] = req[k]
  /\ owed'[k] \subseteq owed[k]
  /\ \A l \in owed'[k] : gen'[l] = gen[l] /\ (l \in present => l \in present')

LEMMA SyncOfSame ==
  ASSUME NEW k \in Rpc, SyncOf(k), SyncSame(k)
  PROVE  SyncOf(k)'
<1>1. OneAnswer(k)' BY DEF SyncOf, OneAnswer, SyncSame, Walking
<1>2. ASSUME send'[k] # "done" PROVE LeavesFirst(k)'
  <2>1. LeavesFirst(k) BY <1>2 DEF SyncOf, SyncSame
  <2> SUFFICES ASSUME NEW l \in owed'[k]
               PROVE  /\ send'[k] # "sync"
                      /\ Behind(queue'[k], item'[k], Update(l, gen'[l]))
                      /\ Walking(k)' => ToVisit(k, l)'
    BY DEF LeavesFirst
  <2>2. l \in owed[k] /\ gen'[l] = gen[l] BY DEF SyncSame
  <2>3. QED BY <2>1, <2>2 DEF LeavesFirst, SyncSame, Walking, ToVisit
<1>3. QED BY <1>1, <1>2 DEF SyncOf

LEMMA SyncOther ==
  ASSUME TypeOK, NEW k \in Rpc, SyncOf(k), NEW r \in Rpc \ {k},
         \/ Subscribe(r) \/ SubscribeRejected(r) \/ SubscribeReturns(r)
         \/ AcquireSlot(r) \/ Walker(r) \/ PollAgain(r)
         \/ Sender(r) \/ Sent(r) \/ SentSync(r) \/ Timer(r)
         \/ HalfClose(r) \/ Cancel(r)
  PROVE  SyncOf(k)'
<1> USE DEF SyncSame, TypeOK, cacheVars, walkVars, sendVars, queueVars, clientVars
<1>1. ASSUME Subscribe(r) \/ SubscribeRejected(r) \/ SubscribeReturns(r) PROVE SyncSame(k)
  BY <1>1 DEF Subscribe, SubscribeRejected, SubscribeReturns
<1>2. ASSUME AcquireSlot(r) \/ PollAgain(r) PROVE SyncSame(k)
  BY <1>2 DEF AcquireSlot, PollAgain
<1>3. ASSUME Walker(r) PROVE SyncSame(k)
  <2>1. ASSUME NEW m \in Leaf, VisitLeaf(r, m) PROVE SyncSame(k) BY <2>1 DEF VisitLeaf
  <2>2. CASE WalkFails(r) BY <2>2 DEF WalkFails
  <2>3. CASE WalkEnds(r) BY <2>3 DEF WalkEnds
  <2>4. CASE PollEof(r) \/ PollFails(r) BY <2>4 DEF PollEof, PollFails
  <2>5. QED BY <1>3, <2>1, <2>2, <2>3, <2>4 DEF Walker
<1>4. ASSUME Sender(r) \/ SentSync(r) PROVE SyncSame(k)
  BY <1>4 DEF Sender, SentSync, NextSync, NextItem, NextNotForwardable, NextFails, SendFails,
              Goto
<1>5. ASSUME Sent(r) PROVE SyncSame(k) BY <1>5 DEF Sent, Goto
<1>6. ASSUME Timer(r) \/ HalfClose(r) \/ Cancel(r) PROVE SyncSame(k)
  BY <1>6 DEF Timer, TimerFires, TimerErr, TimerDone, HalfClose, Cancel
<1>7. QED BY <1>1, <1>2, <1>3, <1>4, <1>5, <1>6, SyncOfSame

\* A leaf that is reset is owed to nobody any more.
LEMMA SyncCache ==
  ASSUME TypeOK, NEW k \in Rpc, SyncOf(k), NEW m \in Leaf,
         CacheUpdate(m) \/ CacheReset(m) \/ Send(m)
  PROVE  SyncOf(k)'
<1> USE DEF SyncSame, TypeOK, walkVars, sendVars, queueVars, clientVars
<1>1. CASE CacheUpdate(m)
  <2>1. SyncSame(k) BY <1>1 DEF CacheUpdate
  <2>2. QED BY <2>1, SyncOfSame
<1>2. CASE CacheReset(m)
  <2>1. owed'[k] = owed[k] \ {m} /\ \A l \in Leaf \ {m} : gen'[l] = gen[l]
    BY <1>2 DEF CacheReset
  <2>2. SyncSame(k) BY <1>2, <2>1 DEF CacheReset
  <2>3. QED BY <2>2, SyncOfSame
<1>3. CASE Send(m)
  <2>1. SyncSame(k) BY <1>3 DEF Send
  <2>2. QED BY <2>1, SyncOfSame
<1>4. QED BY <1>1, <1>2, <1>3

\* An item that is inserted does not overtake the marker.
LEMMA SyncInsert ==
  ASSUME TypeOK, NEW k \in Rpc, SyncOf(k), NEW i \in Item,
         queue'[k] = Insert(queue[k], i),
         \A l \in Leaf : ToVisit(k, l) => ToVisit(k, l)',
         UNCHANGED <<main, asks, walk, item, send, owed, gen>>
  PROVE  SyncOf(k)'
<1>1. queue[k] \in Seq(QueueItem) /\ i \in QueueItem /\ i # SyncMarker
  BY Items DEF TypeOK, QueueItem
<1>2. /\ Single(queue'[k]) /\ (Marked(queue'[k]) <=> Marked(queue[k]))
      /\ \A h, u : Behind(queue[k], h, u) => Behind(queue'[k], h, u)
  BY <1>1, InsertOrder DEF SyncOf, OneAnswer
<1>3. OneAnswer(k)' BY <1>2 DEF SyncOf, OneAnswer, Walking
<1>4. ASSUME send[k] # "done" PROVE LeavesFirst(k)'
  <2>1. LeavesFirst(k) /\ owed[k] \subseteq Leaf BY <1>4 DEF SyncOf, TypeOK
  <2>2. QED BY <1>2, <2>1 DEF LeavesFirst, Walking
<1>5. QED BY <1>3, <1>4 DEF SyncOf

LEMMA SyncUpdate ==
  ASSUME TypeOK, NEW k \in Rpc, SyncOf(k), ServerUpdate
  PROVE  SyncOf(k)'
<1>1. Head(buffer) \in Item BY TailKeeps DEF ServerUpdate, TypeOK
<1>2. UNCHANGED <<main, asks, walk, left, item, send, owed, gen, present, req>>
  BY DEF ServerUpdate, walkVars, sendVars, clientVars
<1>3. CASE queue'[k] = queue[k]
  <2>1. SyncSame(k) BY <1>2, <1>3 DEF SyncSame
  <2>2. QED BY <2>1, SyncOfSame
<1>4. CASE queue'[k] = Insert(queue[k], Head(buffer))
  <2>1. queue[k] \in Seq(QueueItem) /\ Head(buffer) \in QueueItem
    BY <1>1 DEF TypeOK, QueueItem
  <2>2. \A e : Contains(queue[k], e) => Contains(queue'[k], e) BY <1>4, <2>1, InsertKeeps
  <2>3. \A l \in Leaf : ToVisit(k, l) => ToVisit(k, l)' BY <1>2, <2>2 DEF ToVisit
  <2>4. QED BY <1>1, <1>2, <1>4, <2>3, SyncInsert
<1>5. queue'[k] = queue[k] \/ queue'[k] = Insert(queue[k], Head(buffer))
  BY DEF ServerUpdate, TypeOK
<1>6. QED BY <1>3, <1>4, <1>5

\* Where the walk ends, everything that is owed has been visited.
LEMMA SyncWalk ==
  ASSUME TypeOK, IdleHasNone, NEW r \in Rpc, SyncOf(r),
         AcquireSlot(r) \/ Walker(r) \/ PollAgain(r)
  PROVE  SyncOf(r)'
<1> USE DEF TypeOK, cacheVars, sendVars, queueVars, clientVars
<1>1. CASE AcquireSlot(r)
  <2>1. /\ walk[r] = "slot" /\ walk'[r] = "walk"
        /\ left'[r] = IF req[r].only THEN {} ELSE req[r].leaves
        /\ UNCHANGED <<main, asks, queue, item, send, owed, gen, present, req>>
    BY <1>1 DEF AcquireSlot
  <2>2. OneAnswer(r)' BY <2>1 DEF SyncOf, OneAnswer, Walking
  <2>3. LeavesFirst(r) => LeavesFirst(r)' BY <2>1 DEF LeavesFirst, Walking, ToVisit
  <2>4. QED BY <2>1, <2>2, <2>3 DEF SyncOf
<1>2. ASSUME NEW m \in Leaf, VisitLeaf(r, m) PROVE SyncOf(r)'
  <2>1. /\ UNCHANGED <<main, asks, walk, item, send, owed, gen, present, req>>
        /\ left'[r] = left[r] \ {m} /\ walk[r] = "walk"
        /\ queue'[r] = IF m \in present THEN Insert(queue[r], Update(m, gen[m]))
                                        ELSE queue[r]
    BY <1>2 DEF VisitLeaf
  <2>2. Update(m, gen[m]) \in Item BY Items
  <2>3. queue[r] \in Seq(QueueItem) /\ Update(m, gen[m]) \in QueueItem
    BY <2>2 DEF QueueItem
  <2>4. CASE m \in present
    <3>1. /\ Contains(queue'[r], Update(m, gen[m]))
          /\ \A e : Contains(queue[r], e) => Contains(queue'[r], e)
      BY <2>1, <2>3, <2>4, InsertKeeps
    <3>2. \A l \in Leaf : ToVisit(r, l) => ToVisit(r, l)' BY <2>1, <3>1 DEF ToVisit
    <3>3. QED BY <2>1, <2>2, <2>4, <3>2, SyncInsert
  <2>5. CASE m \notin present
    <3>1. \A l \in Leaf : ToVisit(r, l) => ToVisit(r, l)' BY <2>1, <2>5 DEF ToVisit
    <3>2. OneAnswer(r)' BY <2>1, <2>5 DEF SyncOf, OneAnswer, Walking
    <3>3. LeavesFirst(r) => LeavesFirst(r)' BY <2>1, <2>5, <3>1 DEF LeavesFirst, Walking
    <3>4. QED BY <2>1, <3>2, <3>3 DEF SyncOf
  <2>6. QED BY <2>4, <2>5
<1>3. CASE WalkFails(r) \/ PollEof(r) \/ PollFails(r)
  <2>1. /\ walk'[r] = "done"
        /\ UNCHANGED <<main, asks, queue, item, send, owed, gen, present, req>>
    BY <1>3 DEF WalkFails, PollEof, PollFails
  <2>2. ~Walking(r)' BY <2>1 DEF Walking
  <2>3. OneAnswer(r)' BY <2>1, <2>2 DEF SyncOf, OneAnswer
  <2>4. LeavesFirst(r) => LeavesFirst(r)' BY <2>1, <2>2 DEF LeavesFirst
  <2>5. QED BY <2>1, <2>3, <2>4 DEF SyncOf
<1>4. CASE WalkEnds(r)
  <2>1. /\ walk[r] = "walk" /\ left[r] = {} /\ walk'[r] \in {"recv", "done"}
        /\ queue'[r] = Insert(queue[r], SyncMarker)
        /\ UNCHANGED <<main, asks, item, send, owed, gen, present, req>>
    BY <1>4 DEF WalkEnds
  <2>2. queue[r] \in Seq(QueueItem) /\ SyncMarker \in QueueItem BY DEF QueueItem
  <2>3. /\ Single(queue'[r])
        /\ \A h, u : Behind(queue[r], h, u) /\ (h = u \/ Contains(queue[r], u))
                        => Behind(queue'[r], h, u)
    BY <2>1, <2>2, InsertOrder DEF SyncOf, OneAnswer
  <2>4. Walking(r) /\ ~Walking(r)' BY <2>1 DEF Walking
  <2>5. OneAnswer(r)' BY <2>1, <2>3, <2>4 DEF SyncOf, OneAnswer
  <2>6. ASSUME LeavesFirst(r) PROVE LeavesFirst(r)'
    <3> SUFFICES ASSUME NEW l \in owed[r]
                 PROVE  send[r] # "sync" /\ Behind(queue'[r], item[r], Update(l, gen[l]))
      BY <2>1, <2>4 DEF LeavesFirst
    <3>1. /\ send[r] # "sync" /\ ToVisit(r, l)
          /\ Behind(queue[r], item[r], Update(l, gen[l]))
      BY <2>4, <2>6 DEF LeavesFirst
    <3>2. item[r] = Update(l, gen[l]) \/ Contains(queue[r], Update(l, gen[l]))
      BY <2>1, <3>1 DEF ToVisit
    <3>3. QED BY <2>3, <3>1, <3>2
  <2>7. QED BY <2>1, <2>5, <2>6 DEF SyncOf
<1>5. CASE PollAgain(r)
  <2>1. /\ walk[r] = "recv" /\ walk'[r] = "slot"
        /\ owed'[r] = IF asks[r] = "answered" /\ ~req[r].only
                      THEN present \cap req[r].leaves ELSE {}
        /\ asks'[r] = IF asks[r] = "answered" THEN "waits" ELSE "hasty"
        /\ UNCHANGED <<main, queue, item, send, gen, present, req>>
    BY <1>5 DEF PollAgain
  <2>2. CASE asks[r] = "answered"
    <3>1. ~Marked(queue[r]) /\ send[r] # "sync" /\ main[r] # "idle" /\ Single(queue[r])
      BY <2>2 DEF SyncOf, OneAnswer
    <3>2. OneAnswer(r)' BY <2>1, <2>2, <3>1 DEF OneAnswer
    <3>3. \A h, u : Behind(queue[r], h, u) BY <3>1 DEF Marked, Contains, Behind
    <3>4. LeavesFirst(r)' BY <2>1, <3>1, <3>3 DEF LeavesFirst, ToVisit
    <3>5. QED BY <3>2, <3>4 DEF SyncOf
  <2>3. CASE asks[r] # "answered"
    <3>1. owed'[r] = {} /\ asks'[r] = "hasty" BY <2>1, <2>3
    <3>2. Single(queue'[r]) /\ main'[r] # "idle"
      BY <2>1 DEF SyncOf, OneAnswer, IdleHasNone, GoroutinesEnded
    <3>3. QED BY <3>1, <3>2 DEF SyncOf, OneAnswer, LeavesFirst
  <2>4. QED BY <2>2, <2>3
<1>6. QED BY <1>1, <1>2, <1>3, <1>4, <1>5 DEF Walker

\* A new RPC owes what the cache has, and its walk is to come; one that returns owes
\* nothing.
LEMMA SyncMain ==
  ASSUME TypeOK, NEW r \in Rpc, SyncOf(r),
         \/ Subscribe(r) \/ SubscribeRejected(r) \/ SubscribeReturns(r)
         \/ Timer(r) \/ HalfClose(r) \/ Cancel(r)
  PROVE  SyncOf(r)'
<1> USE DEF TypeOK, cacheVars, walkVars, sendVars, queueVars, clientVars
<1>1. CASE Subscribe(r)
  <2>1. /\ main[r] = "idle" /\ main'[r] = "wait" /\ send'[r] = "next" /\ asks' = asks
        /\ owed'[r] = IF req[r].only THEN {} ELSE present \cap req[r].leaves
        /\ \/ walk'[r] = "slot" /\ queue'[r] = <<>>
           \/ req[r].only /\ walk'[r] = "done" /\ queue'[r] = <<SyncMarker>>
        /\ UNCHANGED <<present, req>>
    BY <1>1 DEF Subscribe
  <2>2. asks'[r] = "waits" BY <2>1 DEF SyncOf, OneAnswer
  <2>3. CASE walk'[r] = "slot" /\ queue'[r] = <<>>
    <3>1. ~Marked(queue'[r]) /\ Single(queue'[r])
      BY <2>3 DEF Marked, Contains, Single
    <3>2. \A h, u : Behind(queue'[r], h, u) BY <2>3 DEF Behind
    <3>3. OneAnswer(r)' BY <2>1, <2>2, <3>1 DEF OneAnswer
    <3>4. LeavesFirst(r)' BY <2>1, <2>3, <3>2 DEF LeavesFirst, ToVisit
    <3>5. QED BY <3>3, <3>4 DEF SyncOf
  <2>4. CASE req[r].only /\ walk'[r] = "done" /\ queue'[r] = <<SyncMarker>>
    <3>1. owed'[r] = {} BY <2>1, <2>4
    <3>2. Single(queue'[r]) /\ ~Walking(r)' BY <2>4 DEF Single, Walking
    <3>3. QED BY <2>1, <2>2, <3>1, <3>2 DEF SyncOf, OneAnswer, LeavesFirst
  <2>5. QED BY <2>1, <2>3, <2>4
<1>2. CASE SubscribeRejected(r)
  <2>1. main'[r] = "done" /\ UNCHANGED <<asks, walk, left, queue, item, send, owed, gen,
                                         present, req>>
    BY <1>2 DEF SubscribeRejected
  <2>2. OneAnswer(r)' BY <2>1 DEF SyncOf, OneAnswer, Walking
  <2>3. LeavesFirst(r) => LeavesFirst(r)' BY <2>1 DEF LeavesFirst, Walking, ToVisit
  <2>4. QED BY <2>1, <2>2, <2>3 DEF SyncOf
<1>3. CASE SubscribeReturns(r)
  <2>1. main'[r] = "done" /\ owed'[r] = {} /\ UNCHANGED <<asks, walk, queue, send>>
    BY <1>3 DEF SubscribeReturns
  <2>2. QED BY <2>1 DEF SyncOf, OneAnswer, Walking, LeavesFirst
<1>4. CASE Timer(r) \/ HalfClose(r) \/ Cancel(r)
  <2>1. SyncSame(r)
    BY <1>4 DEF Timer, TimerFires, TimerErr, TimerDone, HalfClose, Cancel, SyncSame
  <2>2. QED BY <2>1, SyncOfSame
<1>5. QED BY <1>1, <1>2, <1>3, <1>4

\* The sender takes the head of the queue: a marker only if nothing is owed.
LEMMA SyncSender ==
  ASSUME TypeOK, IdleHasNone, ItemIsSent, NEW r \in Rpc, SyncOf(r),
         Sender(r) \/ Sent(r) \/ SentSync(r)
  PROVE  SyncOf(r)'
<1> USE DEF TypeOK, cacheVars, walkVars, queueVars, clientVars
<1>1. queue[r] \in Seq(QueueItem) /\ Single(queue[r]) /\ owed[r] \subseteq Leaf
  BY DEF SyncOf, OneAnswer
<1>2. \A l \in Leaf : Update(l, gen[l]) # NoItem BY DEF Update, NoItem
<1>3. CASE NextSync(r) \/ NextItem(r) \/ NextNotForwardable(r)
  <2>1. /\ send[r] = "next" /\ queue[r] # <<>> /\ queue'[r] = Tail(queue[r])
        /\ send'[r] = "sync" => Head(queue[r]) = SyncMarker
        /\ send'[r] \in {"sync", "send", "done"}
        /\ send'[r] = "send" => item'[r] = Head(queue[r])
        /\ send'[r] = "send" => Head(queue[r]) # SyncMarker
        /\ UNCHANGED <<main, asks, walk, left, owed, gen, present, req>>
    BY <1>3 DEF NextSync, NextItem, NextNotForwardable, Goto
  <2>2. /\ Single(queue'[r])
        /\ Marked(queue'[r]) => Marked(queue[r]) /\ Head(queue[r]) # SyncMarker
        /\ Head(queue[r]) = SyncMarker => Marked(queue[r])
        /\ \A h, u : Behind(queue[r], h, u) /\ Head(queue[r]) = SyncMarker => h = u
        /\ \A h, u : Behind(queue[r], h, u) /\ h # u => Behind(queue'[r], Head(queue[r]), u)
    BY <1>1, <2>1, TailOrder
  <2>3. OneAnswer(r)' BY <2>1, <2>2 DEF SyncOf, OneAnswer, Walking
  <2>4. item[r] = NoItem BY <2>1 DEF ItemIsSent
  <2>5. LeavesFirst(r) BY <2>1 DEF SyncOf
  <2>6. ASSUME send'[r] = "sync" PROVE owed'[r] = {}
    <3>1. \A l \in owed[r] : Behind(queue[r], NoItem, Update(l, gen[l]))
      BY <2>4, <2>5 DEF LeavesFirst
    <3>2. \A l \in owed[r] : NoItem = Update(l, gen[l]) BY <2>1, <2>2, <2>6, <3>1
    <3>3. QED BY <1>1, <1>2, <2>1, <3>2
  <2>7. ASSUME send'[r] = "send" PROVE LeavesFirst(r)'
    <3> SUFFICES ASSUME NEW l \in owed[r]
                 PROVE  /\ Behind(queue'[r], item'[r], Update(l, gen[l]))
                        /\ Walking(r) => ToVisit(r, l)'
      BY <2>1, <2>7 DEF LeavesFirst, Walking
    <3>1. item[r] # Update(l, gen[l]) BY <1>1, <1>2, <2>4
    <3>2. Behind(queue[r], item[r], Update(l, gen[l])) BY <2>5 DEF LeavesFirst
    <3>3. Behind(queue'[r], item'[r], Update(l, gen[l])) BY <2>1, <2>2, <2>7, <3>1, <3>2
    <3>4. Contains(queue[r], Update(l, gen[l])) =>
             item'[r] = Update(l, gen[l]) \/ Contains(queue'[r], Update(l, gen[l]))
      BY <1>1, <2>1, <2>7, TailKeeps
    <3>5. Walking(r) => ToVisit(r, l) BY <2>5 DEF LeavesFirst
    <3>6. QED BY <2>1, <3>1, <3>3, <3>4, <3>5 DEF ToVisit
  <2>8. QED BY <2>1, <2>3, <2>6, <2>7 DEF SyncOf, LeavesFirst
<1>4. CASE NextFails(r) \/ SendFails(r)
  <2>1. send'[r] = "done" /\ UNCHANGED <<main, asks, walk, queue, owed>>
    BY <1>4 DEF NextFails, SendFails, Goto
  <2>2. QED BY <2>1 DEF SyncOf, OneAnswer, Walking
<1>5. CASE Sent(r)
  <2>1. /\ send[r] = "send" /\ send'[r] = "next" /\ item'[r] = NoItem
        /\ owed'[r] = owed[r] \ {item[r][2]}
        /\ UNCHANGED <<main, asks, walk, left, queue, gen, present, req>>
    BY <1>5 DEF Sent, Goto
  <2>2. OneAnswer(r)' BY <2>1 DEF SyncOf, OneAnswer, Walking
  <2>3. LeavesFirst(r)'
    <3> SUFFICES ASSUME NEW l \in owed'[r]
                 PROVE  /\ Behind(queue[r], NoItem, Update(l, gen[l]))
                        /\ Walking(r) => ToVisit(r, l)'
      BY <2>1 DEF LeavesFirst, Walking
    <3>1. l \in owed[r] /\ item[r] # Update(l, gen[l]) BY <2>1 DEF Update
    <3>2. /\ Behind(queue[r], item[r], Update(l, gen[l]))
          /\ Walking(r) => ToVisit(r, l)
      BY <2>1, <3>1 DEF SyncOf, LeavesFirst
    <3>3. Behind(queue[r], NoItem, Update(l, gen[l])) BY <3>1, <3>2 DEF Behind
    <3>4. Walking(r) => ToVisit(r, l)' BY <2>1, <3>1, <3>2 DEF ToVisit
    <3>5. QED BY <3>3, <3>4
  <2>4. QED BY <2>2, <2>3 DEF SyncOf
<1>6. CASE SentSync(r)
  <2>1. /\ send[r] = "sync" /\ send'[r] = "next" /\ UNCHANGED <<main, walk, queue, owed>>
        /\ asks'[r] = IF asks[r] = "hasty" THEN "hasty" ELSE "answered"
    BY <1>6 DEF SentSync, Goto
  <2>2. owed[r] = {} BY <2>1 DEF SyncOf, LeavesFirst
  <2>3. main[r] # "idle" BY <2>1 DEF IdleHasNone, GoroutinesEnded
  <2>4. asks[r] \in {"waits", "answered", "hasty"} OBVIOUS
  <2>5. asks'[r] = "answered" => ~Marked(queue'[r]) /\ ~Walking(r)'
    BY <2>1, <2>4 DEF SyncOf, OneAnswer, Walking
  <2>6. OneAnswer(r)' BY <1>1, <2>1, <2>2, <2>3, <2>4, <2>5 DEF OneAnswer
  <2>7. QED BY <2>1, <2>2, <2>6 DEF SyncOf, LeavesFirst
<1>7. QED BY <1>3, <1>4, <1>5, <1>6 DEF Sender

LEMMA SyncStep ==
  ASSUME TypeOK, IdleHasNone, ItemIsSent, SyncInv, [Next]_vars
  PROVE  SyncInv'
<1>1. SUFFICES ASSUME NEW k \in Rpc PROVE SyncOf(k)'
  BY DEF SyncInv
<1>2. SyncOf(k) BY DEF SyncInv
<1>3. CASE UNCHANGED vars
  <2>1. SyncSame(k)
    BY <1>3 DEF vars, cacheVars, walkVars, sendVars, queueVars, clientVars, SyncSame
  <2>2. QED BY <1>2, <2>1, SyncOfSame
<1>4. ASSUME NEW m \in Leaf, CacheUpdate(m) \/ CacheReset(m) \/ Send(m)
      PROVE  SyncOf(k)'
  BY <1>2, <1>4, SyncCache
<1>5. CASE ServerUpdate BY <1>2, <1>5, SyncUpdate
<1>6. ASSUME NEW r \in Rpc,
             \/ Subscribe(r) \/ SubscribeRejected(r) \/ SubscribeReturns(r)
             \/ AcquireSlot(r) \/ Walker(r) \/ PollAgain(r)
             \/ Sender(r) \/ Sent(r) \/ SentSync(r) \/ Timer(r)
             \/ HalfClose(r) \/ Cancel(r)
      PROVE  SyncOf(k)'
  <2>1. CASE r = k BY <1>2, <1>6, <2>1, SyncWalk, SyncMain, SyncSender
  <2>2. CASE r # k BY <1>2, <1>6, <2>2, SyncOther
  <2>3. QED BY <2>1, <2>2
<1>7. QED BY <1>3, <1>4, <1>5, <1>6 DEF Next

-----------------------------------------------------------------------------
(* An RPC is served until it has an answer. *)

\* What the walk has to visit is there only while it runs.
LEMMA LeftStep ==
  ASSUME TypeOK, IdleHasNone, LeftMeansWalking, [Next]_vars
  PROVE  LeftMeansWalking'
<1> USE DEF LeftMeansWalking, TypeOK, walkVars
<1>1. UNCHANGED <<left, walk>> => LeftMeansWalking' OBVIOUS
<1>2. CASE UNCHANGED vars BY <1>1, <1>2 DEF vars
<1>3. CASE ServerUpdate BY <1>1, <1>3 DEF ServerUpdate
<1>4. ASSUME NEW l \in Leaf, CacheUpdate(l) \/ CacheReset(l) \/ Send(l)
      PROVE  LeftMeansWalking'
  BY <1>1, <1>4 DEF CacheUpdate, CacheReset, Send
<1>5. ASSUME NEW r \in Rpc, Subscribe(r) PROVE LeftMeansWalking'
  BY <1>5 DEF Subscribe, IdleHasNone, GoroutinesEnded
<1>6. ASSUME NEW r \in Rpc, SubscribeRejected(r) \/ SubscribeReturns(r)
      PROVE  LeftMeansWalking'
  BY <1>1, <1>6 DEF SubscribeRejected, SubscribeReturns
<1>7. ASSUME NEW r \in Rpc, AcquireSlot(r) \/ PollAgain(r) PROVE LeftMeansWalking'
  <2>1. CASE AcquireSlot(r)
    <3>1. walk' = [walk EXCEPT ![r] = "walk"] BY <2>1 DEF AcquireSlot
    <3>2. \A k \in Rpc \ {r} : left'[k] = left[k] BY <2>1 DEF AcquireSlot
    <3>3. QED BY <3>1, <3>2
  <2>2. CASE PollAgain(r)
    <3>1. walk[r] = "recv" /\ walk' = [walk EXCEPT ![r] = "slot"] /\ left' = left
      BY <2>2 DEF PollAgain
    <3>2. QED BY <3>1
  <2>3. QED BY <1>7, <2>1, <2>2
<1>8. ASSUME NEW r \in Rpc, Walker(r) PROVE LeftMeansWalking'
  <2>1. ASSUME NEW l \in Leaf, VisitLeaf(r, l) PROVE LeftMeansWalking'
    BY <2>1 DEF VisitLeaf
  <2>2. CASE WalkFails(r) \/ WalkEnds(r)
    <3>1. /\ left'[r] = {}
          /\ \A k \in Rpc \ {r} : left'[k] = left[k] /\ walk'[k] = walk[k]
      BY <2>2 DEF WalkFails, WalkEnds
    <3>2. QED BY <3>1
  <2>3. CASE PollEof(r) \/ PollFails(r) BY <2>3 DEF PollEof, PollFails
  <2>4. QED BY <1>8, <2>1, <2>2, <2>3 DEF Walker
<1>9. ASSUME NEW r \in Rpc, Sender(r) \/ Sent(r) \/ SentSync(r) PROVE LeftMeansWalking'
  BY <1>1, <1>9 DEF Sender, Sent, SentSync, NextSync, NextItem, NextNotForwardable,
                    NextFails, SendFails
<1>10. ASSUME NEW r \in Rpc, Timer(r) \/ HalfClose(r) \/ Cancel(r)
       PROVE  LeftMeansWalking'
  BY <1>1, <1>10 DEF Timer, TimerFires, TimerErr, TimerDone, HalfClose, Cancel
<1>11. QED BY <1>2, <1>3, <1>4, <1>5, <1>6, <1>7, <1>8, <1>9, <1>10 DEF Next

\* A client gets something only by a send.
LEMMA ViewChanges ==
  ASSUME TypeOK, [Next]_vars
  PROVE  \/ UNCHANGED view
         \/ \E l \in Leaf : Outdated(l)
         \/ \E r \in Rpc : SubscribeReturns(r) \/ Sent(r)
<1> USE DEF clientVars
<1>1. CASE UNCHANGED vars BY <1>1 DEF vars
<1>2. ASSUME NEW l \in Leaf, CacheUpdate(l) \/ CacheReset(l) PROVE Outdated(l)
  BY <1>2 DEF CacheUpdate, CacheReset
<1>3. ASSUME NEW l \in Leaf, Send(l) PROVE UNCHANGED view BY <1>3 DEF Send
<1>4. ServerUpdate => UNCHANGED view BY DEF ServerUpdate
<1>5. ASSUME NEW r \in Rpc, Subscribe(r) \/ SubscribeRejected(r) PROVE UNCHANGED view
  BY <1>5 DEF Subscribe, SubscribeRejected
<1>6. ASSUME NEW r \in Rpc, AcquireSlot(r) \/ Walker(r) \/ PollAgain(r)
      PROVE  UNCHANGED view
  BY <1>6 DEF AcquireSlot, Walker, PollAgain, VisitLeaf, WalkFails, WalkEnds, PollEof,
              PollFails
<1>7. ASSUME NEW r \in Rpc, Sender(r) \/ SentSync(r) PROVE UNCHANGED view
  BY <1>7 DEF Sender, SentSync, NextSync, NextItem, NextNotForwardable, NextFails,
              SendFails
<1>8. ASSUME NEW r \in Rpc, Timer(r) \/ HalfClose(r) \/ Cancel(r) PROVE UNCHANGED view
  BY <1>8 DEF Timer, TimerFires, TimerErr, TimerDone, HalfClose, Cancel
<1>9. QED BY <1>1, <1>2, <1>3, <1>4, <1>5, <1>6, <1>7, <1>8 DEF Next

\* A leaf that was in the cache has been; what is sent was taken from it.
LEMMA ViewStep ==
  ASSUME TypeOK, NothingIsEarly, ViewWasCached, [Next]_vars
  PROVE  ViewWasCached'
<1> DEFINE Cached(l) == l \in present \/ gen[l] > 0
<1>1. \A l \in Leaf : Cached(l) => Cached(l)'
  <2>1. \A l \in Leaf : \/ gen'[l] = gen[l] /\ (l \in present => l \in present')
                        \/ gen'[l] = gen[l] + 1
    BY GenGrows
  <2>2. \A l \in Leaf : gen[l] \in Nat BY DEF TypeOK
  <2>3. QED BY <2>1, <2>2
<1>2. SUFFICES ASSUME NEW k \in Rpc, NEW l \in Leaf, view'[k][l] # "none"
               PROVE  view[k][l] # "none" \/ Cached(l)
  BY <1>1 DEF ViewWasCached
<1> USE <1>2 DEF TypeOK
<1>3. CASE UNCHANGED view BY <1>3
<1>4. ASSUME NEW m \in Leaf, Outdated(m) PROVE view[k][l] # "none"
  BY <1>4 DEF Outdated
<1>5. ASSUME NEW r \in Rpc, SubscribeReturns(r) PROVE view[k][l] # "none"
  BY <1>5 DEF SubscribeReturns, Nothing
<1>6. ASSUME NEW r \in Rpc, Sent(r) PROVE view[k][l] # "none" \/ Cached(l)
  <2>1. CASE k # r \/ l # item[r][2]
    <3>1. view'[k][l] = view[k][l] BY <1>6, <2>1 DEF Sent
    <3>2. QED BY <3>1
  <2>2. CASE k = r /\ l = item[r][2]
    <3>1. item[r][1] # "delete" BY <1>6, <2>2 DEF Sent
    <3>2. item[r] \in Item BY <2>2 DEF NoItem
    <3>3. item[r][1] = "update" BY <3>1, <3>2 DEF Item
    <3>4. item[r] \in NotEarly BY DEF NothingIsEarly
    <3>5. item[r][3] < gen[l] \/ l \in present BY <2>2, <3>3, <3>4 DEF NotEarly
    <3>6. item[r][3] \in Nat /\ gen[l] \in Nat BY <3>2, Items
    <3>7. QED BY <3>5, <3>6
  <2>3. QED BY <2>1, <2>2
<1>7. QED BY <1>3, <1>4, <1>5, <1>6, ViewChanges

\* Each way out of a goroutine leaves an answer, or the RPC is still served.
LEMMA AnswerStep ==
  ASSUME TypeOK, IdleHasNone, AnswerIsLeft, [Next]_vars
  PROVE  AnswerIsLeft'
<1> USE DEF AnswerIsLeft, StillServed
<1>1. UNCHANGED <<main, errs, req, send, timer, closed, walk, client>> => AnswerIsLeft'
  OBVIOUS
<1>2. CASE UNCHANGED vars BY <1>1, <1>2 DEF vars, walkVars, sendVars, queueVars
<1>3. CASE ServerUpdate BY <1>1, <1>3 DEF ServerUpdate, walkVars, sendVars
<1>4. ASSUME NEW l \in Leaf, CacheUpdate(l) \/ CacheReset(l) \/ Send(l)
      PROVE  AnswerIsLeft'
  BY <1>1, <1>4 DEF CacheUpdate, CacheReset, Send, walkVars, sendVars, queueVars
<1> USE DEF TypeOK, walkVars, sendVars, queueVars, Err
<1>5. ASSUME NEW r \in Rpc, Subscribe(r) \/ SubscribeRejected(r) \/ SubscribeReturns(r)
      PROVE  AnswerIsLeft'
  <2>1. CASE Subscribe(r)
    <3>1. ~closed[r] BY <2>1 DEF Subscribe, IdleHasNone
    <3>2. req[r].mode = "POLL" => walk'[r] = "slot" BY <2>1 DEF Subscribe
    <3>3. QED BY <2>1, <3>1, <3>2 DEF Subscribe
  <2>2. CASE SubscribeRejected(r) BY <2>2 DEF SubscribeRejected
  <2>3. CASE SubscribeReturns(r) BY <2>3 DEF SubscribeReturns
  <2>4. QED BY <1>5, <2>1, <2>2, <2>3
<1>6. ASSUME NEW r \in Rpc, AcquireSlot(r) \/ Walker(r) \/ PollAgain(r)
      PROVE  AnswerIsLeft'
  <2>1. CASE AcquireSlot(r) BY <2>1 DEF AcquireSlot
  <2>2. ASSUME NEW l \in Leaf, VisitLeaf(r, l) PROVE AnswerIsLeft'
    BY <1>1, <2>2 DEF VisitLeaf
  <2>3. CASE WalkFails(r) BY <2>3 DEF WalkFails
  <2>4. CASE WalkEnds(r) BY <2>4 DEF WalkEnds
  <2>5. CASE PollAgain(r) BY <2>5 DEF PollAgain
  <2>6. CASE PollEof(r) BY <2>6 DEF PollEof
  <2>7. CASE PollFails(r) BY <2>7 DEF PollFails
  <2>8. QED BY <1>6, <2>1, <2>2, <2>3, <2>4, <2>5, <2>6, <2>7 DEF Walker
<1>7. ASSUME NEW r \in Rpc, Sender(r) \/ Sent(r) \/ SentSync(r) PROVE AnswerIsLeft'
  <2> USE DEF Goto
  <2>1. CASE NextSync(r) BY <2>1 DEF NextSync
  <2>2. CASE NextItem(r) BY <2>2 DEF NextItem
  <2>3. CASE NextNotForwardable(r) BY <2>3 DEF NextNotForwardable, Refusable
  <2>4. CASE NextFails(r) BY <2>4 DEF NextFails
  <2>5. CASE SendFails(r) BY <2>5 DEF SendFails
  <2>6. CASE Sent(r) BY <2>6 DEF Sent
  <2>7. CASE SentSync(r) BY <2>7 DEF SentSync
  <2>8. QED BY <1>7, <2>1, <2>2, <2>3, <2>4, <2>5, <2>6, <2>7 DEF Sender
<1>8. ASSUME NEW r \in Rpc, Timer(r) \/ HalfClose(r) \/ Cancel(r) PROVE AnswerIsLeft'
  <2>1. CASE TimerFires(r) BY <2>1 DEF TimerFires
  <2>2. CASE TimerErr(r) BY <2>2 DEF TimerErr
  <2>3. CASE TimerDone(r) BY <2>3 DEF TimerDone
  <2>4. CASE HalfClose(r) BY <2>4 DEF HalfClose
  <2>5. CASE Cancel(r) BY <2>5 DEF Cancel
  <2>6. QED BY <1>8, <2>1, <2>2, <2>3, <2>4, <2>5 DEF Timer
<1>9. QED BY <1>2, <1>3, <1>4, <1>5, <1>6, <1>7, <1>8 DEF Next

-----------------------------------------------------------------------------
(* What is left to do for an RPC whose client has gone. *)

\* The leaves that a walk has left are finitely many, and one less when one of them
\* has been visited.
LEMMA LeftFinite ==
  ASSUME NEW S \in SUBSET Leaf
  PROVE  /\ IsFiniteSet(S)
         /\ Cardinality(S) \in Nat
         /\ Cardinality(Leaf) \in Nat
         /\ Cardinality(S) <= Cardinality(Leaf)
         /\ \A l \in S : Cardinality(S \ {l}) = Cardinality(S) - 1
<1>1. IsFiniteSet(S) /\ Cardinality(S) <= Cardinality(Leaf) BY FS_Subset
<1>2. QED BY <1>1, FS_CardinalityType, FS_RemoveElement

\* Each goroutine has a number of steps to do.
LEMMA StepsAreCounted ==
  ASSUME TypeOK, NEW r \in Rpc
  PROVE  /\ WalkSteps(r) \in Nat /\ SendSteps(r) \in Nat /\ TimerSteps(r) \in Nat
         /\ Steps(r) = 0 /\ main[r] # "idle" => Ended(r)
<1>1. WalkSteps(r) \in Nat /\ (WalkSteps(r) = 0 => walk[r] = "done")
  <2>1. left[r] \in SUBSET Leaf /\ walk[r] \in {"slot", "walk", "recv", "done"}
    BY DEF TypeOK
  <2>2. Cardinality(left[r]) \in Nat /\ Cardinality(Leaf) \in Nat BY <2>1, LeftFinite
  <2>3. QED BY <2>1, <2>2 DEF WalkSteps
<1>2. SendSteps(r) \in Nat /\ (SendSteps(r) = 0 => send[r] = "done")
  BY DEF TypeOK, SendSteps
<1>3. TimerSteps(r) \in Nat /\ (TimerSteps(r) = 0 => timer[r] = "ended")
  BY DEF TypeOK, TimerSteps
<1>4. Once(main[r] = "wait") \in Nat
      /\ (Once(main[r] = "wait") = 0 => main[r] \in {"idle", "done"})
  BY DEF TypeOK, Once
<1>5. QED BY <1>1, <1>2, <1>3, <1>4 DEF Steps, Ended, GoroutinesEnded

WalkSame(r)  == UNCHANGED <<walk[r], left[r]>>
SendSame(r)  == UNCHANGED <<send[r], item[r]>>
TimerSame(r) == UNCHANGED timer[r]
MainSame(r)  == UNCHANGED main[r]

\* Nothing of r has changed, or one of its parts has gone on.
Down(r) == \/ Steps(r)' < Steps(r)
           \/ WalkSame(r) /\ SendSame(r) /\ TimerSame(r) /\ MainSame(r)

\* A step of one part of r counts when the other parts do nothing.
LEMMA OnePartDown ==
  ASSUME TypeOK, NEW r \in Rpc,
         \/ WalkSteps(r)' < WalkSteps(r) /\ SendSame(r) /\ TimerSame(r) /\ MainSame(r)
         \/ /\ SendSteps(r)' + TimerSteps(r)' < SendSteps(r) + TimerSteps(r)
            /\ WalkSame(r) /\ MainSame(r)
         \/ /\ main[r] = "wait" /\ main'[r] = "done"
            /\ WalkSame(r) /\ SendSame(r) /\ TimerSame(r),
         WalkSteps(r)' \in Nat, SendSteps(r)' \in Nat, TimerSteps(r)' \in Nat
  PROVE  Down(r)
<1>1. WalkSteps(r) \in Nat /\ SendSteps(r) \in Nat /\ TimerSteps(r) \in Nat
  BY StepsAreCounted
<1>2. WalkSame(r) => WalkSteps(r)' = WalkSteps(r) BY DEF WalkSame, WalkSteps
<1>3. SendSame(r) => SendSteps(r)' = SendSteps(r) BY DEF SendSame, SendSteps
<1>4. TimerSame(r) => TimerSteps(r)' = TimerSteps(r) BY DEF TimerSame, TimerSteps
<1>5. MainSame(r) => Once(main[r] = "wait")' = Once(main[r] = "wait")
  BY DEF MainSame, Once
<1>6. Once(main[r] = "wait") \in Nat BY DEF Once
<1>7. main[r] = "wait" /\ main'[r] = "done"
      => Once(main[r] = "wait")' < Once(main[r] = "wait")
  BY DEF Once
<1>8. Once(main[r] = "wait")' \in Nat BY DEF Once
<1>9. QED BY <1>1, <1>2, <1>3, <1>4, <1>5, <1>6, <1>7, <1>8 DEF Down, Steps

\* The walk goes on to its end, and nobody asks for another one.
LEMMA WalkDown ==
  ASSUME TypeOK, TypeOK', NEW r \in Rpc, client[r] = "cancelled",
         AcquireSlot(r) \/ Walker(r) \/ PollAgain(r)
  PROVE  Down(r)
<1> USE DEF sendVars
<1>1. /\ left[r] \in SUBSET Leaf /\ left'[r] \in SUBSET Leaf
      /\ walk'[r] \in {"slot", "walk", "recv", "done"}
  BY DEF TypeOK
<1>2. /\ Cardinality(left[r]) \in Nat /\ Cardinality(left'[r]) \in Nat
      /\ Cardinality(Leaf) \in Nat /\ Cardinality(left'[r]) <= Cardinality(Leaf)
  BY <1>1, LeftFinite
<1>3. SendSame(r) /\ TimerSame(r) /\ MainSame(r)
  BY DEF AcquireSlot, Walker, PollAgain, VisitLeaf, WalkFails, WalkEnds, PollEof,
         PollFails, SendSame, TimerSame, MainSame
<1>4. WalkSteps(r)' < WalkSteps(r)
  <2>1. CASE AcquireSlot(r)
    <3>1. walk[r] = "slot" /\ walk'[r] = "walk" BY <2>1 DEF TypeOK, AcquireSlot
    <3>2. QED BY <1>2, <3>1 DEF WalkSteps
  <2>2. ASSUME NEW l \in Leaf, VisitLeaf(r, l) PROVE WalkSteps(r)' < WalkSteps(r)
    <3>1. /\ walk[r] = "walk" /\ walk'[r] = "walk"
          /\ l \in left[r] /\ left'[r] = left[r] \ {l}
      BY <2>2 DEF TypeOK, VisitLeaf
    <3>2. Cardinality(left'[r]) = Cardinality(left[r]) - 1 BY <1>1, <3>1, LeftFinite
    <3>3. QED BY <1>2, <3>1, <3>2 DEF WalkSteps
  <2>3. CASE WalkFails(r)
    <3>1. walk[r] = "walk" /\ walk'[r] = "done" BY <2>3 DEF TypeOK, WalkFails
    <3>2. QED BY <1>2, <3>1 DEF WalkSteps
  <2>4. CASE WalkEnds(r)
    <3>1. walk[r] = "walk" /\ walk'[r] \in {"recv", "done"} BY <2>4 DEF TypeOK, WalkEnds
    <3>2. QED BY <1>2, <3>1 DEF WalkSteps
  <2>5. CASE PollAgain(r) BY <2>5 DEF PollAgain
  <2>6. CASE PollEof(r) \/ PollFails(r)
    <3>1. walk[r] = "recv" /\ walk'[r] = "done" BY <2>6 DEF TypeOK, PollEof, PollFails
    <3>2. QED BY <3>1 DEF WalkSteps
  <2>7. QED BY <2>1, <2>2, <2>3, <2>4, <2>5, <2>6 DEF Walker
<1>5. WalkSteps(r)' \in Nat BY <1>1, <1>2 DEF WalkSteps
<1>6. SendSteps(r)' \in Nat /\ TimerSteps(r)' \in Nat
  BY DEF TypeOK, SendSteps, TimerSteps
<1>7. QED BY <1>3, <1>4, <1>5, <1>6, OnePartDown

\* The next send fails, so whatever is in the queue the sender does two more steps; the
\* timer that the first of them may set costs it less than it has gone on.
LEMMA SendDown ==
  ASSUME TypeOK, TypeOK', NEW r \in Rpc, client[r] = "cancelled",
         Sender(r) \/ Sent(r) \/ SentSync(r) \/ Timer(r)
  PROVE  Down(r)
<1> USE DEF Goto
<1>1. WalkSame(r) /\ MainSame(r)
  BY DEF Sender, Sent, SentSync, Timer, NextSync, NextItem, NextNotForwardable, NextFails,
         SendFails, TimerFires, TimerErr, TimerDone, walkVars, WalkSame, MainSame
<1>2. SendSteps(r)' + TimerSteps(r)' < SendSteps(r) + TimerSteps(r)
  <2>0. /\ send[r] \in {"next", "send", "sync", "done"}
        /\ timer[r] \in {"stopped", "armed", "fired", "ended"}
    BY DEF TypeOK
  <2>1. CASE NextSync(r)
    <3>1. send[r] = "next" /\ send'[r] = "sync" /\ timer'[r] = timer[r]
      BY <2>1 DEF TypeOK, NextSync
    <3>2. QED BY <2>0, <3>1 DEF SendSteps, TimerSteps
  <2>2. CASE NextItem(r)
    <3>1. /\ send[r] = "next" /\ send'[r] = "send"
          /\ timer'[r] = IF timer[r] = "stopped" THEN "armed" ELSE timer[r]
      BY <2>2 DEF TypeOK, NextItem
    <3>2. QED BY <2>0, <3>1 DEF SendSteps, TimerSteps
  <2>3. CASE NextNotForwardable(r) \/ NextFails(r)
    <3>1. send[r] = "next" /\ send'[r] = "done" /\ timer'[r] = timer[r]
      BY <2>3 DEF TypeOK, NextNotForwardable, NextFails, sendVars
    <3>2. QED BY <2>0, <3>1 DEF SendSteps, TimerSteps
  <2>4. CASE SendFails(r)
    <3>1. /\ send[r] \in {"send", "sync"} /\ send'[r] = "done"
          /\ timer'[r] = IF timer[r] = "armed" THEN "stopped" ELSE timer[r]
      BY <2>4 DEF TypeOK, SendFails
    <3>2. QED BY <2>0, <3>1 DEF SendSteps, TimerSteps
  <2>5. CASE Sent(r) \/ SentSync(r) BY <2>5 DEF Sent, SentSync, CtxDone
  <2>6. CASE Timer(r)
    <3>1. /\ send'[r] = send[r]
          /\ \/ timer[r] = "armed" /\ timer'[r] = "fired"
             \/ timer[r] # "ended" /\ timer'[r] = "ended"
      BY <2>6 DEF TypeOK, Timer, TimerFires, TimerErr, TimerDone
    <3>2. QED BY <2>0, <3>1 DEF SendSteps, TimerSteps
  <2>7. QED BY <2>1, <2>2, <2>3, <2>4, <2>5, <2>6 DEF Sender
<1>3. SendSteps(r)' \in Nat /\ TimerSteps(r)' \in Nat
  BY DEF TypeOK, SendSteps, TimerSteps
<1>4. WalkSteps(r)' \in Nat
  <2>1. left'[r] \in SUBSET Leaf /\ walk'[r] \in {"slot", "walk", "recv", "done"}
    BY DEF TypeOK
  <2>2. Cardinality(left'[r]) \in Nat /\ Cardinality(Leaf) \in Nat BY <2>1, LeftFinite
  <2>3. QED BY <2>1, <2>2 DEF WalkSteps
<1>5. QED BY <1>1, <1>2, <1>3, <1>4, OnePartDown

LEMMA WindDownStep ==
  ASSUME TypeOK, TypeOK', IdleHasNone, NEW r \in Rpc, client[r] = "cancelled", [Next]_vars
  PROVE  client'[r] = "cancelled" /\ Down(r)
<1> DEFINE Same == UNCHANGED <<walk[r], left[r], send[r], item[r], timer[r], main[r]>>
<1>1. Same => Down(r) BY DEF Down, WalkSame, SendSame, TimerSame, MainSame
<1>2. client'[r] = "cancelled"
  <2>1. CASE UNCHANGED client BY <2>1
  <2>2. ASSUME NEW k \in Rpc, HalfClose(k) \/ Cancel(k) PROVE client'[r] = "cancelled"
    BY <2>2 DEF HalfClose, Cancel, TypeOK
  <2>3. CASE UNCHANGED vars \/ ServerUpdate BY <2>1, <2>3 DEF vars, ServerUpdate
  <2>4. ASSUME NEW l \in Leaf, CacheUpdate(l) \/ CacheReset(l) \/ Send(l)
        PROVE  UNCHANGED client
    BY <2>4 DEF CacheUpdate, CacheReset, Send
  <2>5. ASSUME NEW k \in Rpc,
               \/ Subscribe(k) \/ SubscribeRejected(k) \/ SubscribeReturns(k)
               \/ AcquireSlot(k) \/ Walker(k) \/ PollAgain(k)
        PROVE  UNCHANGED client
    BY <2>5 DEF Subscribe, SubscribeRejected, SubscribeReturns, AcquireSlot, Walker,
                PollAgain, VisitLeaf, WalkFails, WalkEnds, PollEof, PollFails
  <2>6. ASSUME NEW k \in Rpc, Sender(k) \/ Sent(k) \/ SentSync(k) \/ Timer(k)
        PROVE  UNCHANGED client
    BY <2>6 DEF Sender, Sent, SentSync, NextSync, NextItem, NextNotForwardable, NextFails,
                SendFails, Timer, TimerFires, TimerErr, TimerDone
  <2>7. QED BY <2>1, <2>2, <2>3, <2>4, <2>5, <2>6 DEF Next
<1>3. Down(r)
  <2> USE DEF walkVars, sendVars
  <2>1. CASE UNCHANGED vars BY <1>1, <2>1 DEF vars
  <2>2. CASE ServerUpdate BY <1>1, <2>2 DEF ServerUpdate
  <2>3. ASSUME NEW l \in Leaf, CacheUpdate(l) \/ CacheReset(l) \/ Send(l) PROVE Down(r)
    BY <1>1, <2>3 DEF CacheUpdate, CacheReset, Send
  <2>4. ASSUME NEW k \in Rpc, Subscribe(k) \/ SubscribeRejected(k) PROVE Down(r)
    <3>1. k # r BY <2>4 DEF Subscribe, SubscribeRejected, IdleHasNone
    <3>2. Same BY <2>4, <3>1 DEF TypeOK, Subscribe, SubscribeRejected
    <3>3. QED BY <1>1, <3>2
  <2>5. ASSUME NEW k \in Rpc, SubscribeReturns(k) PROVE Down(r)
    <3>1. CASE k # r
      <4>1. Same BY <2>5, <3>1 DEF TypeOK, SubscribeReturns
      <4>2. QED BY <1>1, <4>1
    <3>2. CASE k = r
      <4>1. /\ main[r] = "wait" /\ main'[r] = "done"
            /\ WalkSame(r) /\ SendSame(r) /\ TimerSame(r)
        BY <2>5, <3>2 DEF TypeOK, SubscribeReturns, WalkSame, SendSame, TimerSame
      <4>2. /\ WalkSteps(r)' = WalkSteps(r) /\ SendSteps(r)' = SendSteps(r)
            /\ TimerSteps(r)' = TimerSteps(r)
        BY <4>1 DEF WalkSame, SendSame, TimerSame, WalkSteps, SendSteps, TimerSteps
      <4>3. WalkSteps(r) \in Nat /\ SendSteps(r) \in Nat /\ TimerSteps(r) \in Nat
        BY StepsAreCounted
      <4>4. WalkSteps(r)' \in Nat /\ SendSteps(r)' \in Nat /\ TimerSteps(r)' \in Nat
        BY <4>2, <4>3
      <4>5. QED BY <4>1, <4>4, OnePartDown
    <3>3. QED BY <3>1, <3>2
  <2>6. ASSUME NEW k \in Rpc, AcquireSlot(k) \/ Walker(k) \/ PollAgain(k) PROVE Down(r)
    <3>1. CASE k # r
      <4>1. walk'[r] = walk[r] /\ left'[r] = left[r]
        <5>1. CASE AcquireSlot(k)
          <6>1. left'[r] = left[r] BY <3>1, <5>1 DEF TypeOK, AcquireSlot
          <6>2. walk'[r] = walk[r] BY <3>1, <5>1 DEF TypeOK, AcquireSlot
          <6>3. QED BY <6>1, <6>2
        <5>2. ASSUME NEW l \in Leaf, VisitLeaf(k, l)
              PROVE  walk'[r] = walk[r] /\ left'[r] = left[r]
          BY <3>1, <5>2 DEF TypeOK, VisitLeaf
        <5>3. CASE WalkFails(k) BY <3>1, <5>3 DEF TypeOK, WalkFails
        <5>4. CASE WalkEnds(k) BY <3>1, <5>4 DEF TypeOK, WalkEnds
        <5>5. CASE PollAgain(k) BY <3>1, <5>5 DEF TypeOK, PollAgain
        <5>6. CASE PollEof(k) \/ PollFails(k) BY <3>1, <5>6 DEF TypeOK, PollEof, PollFails
        <5>7. QED BY <2>6, <5>1, <5>2, <5>3, <5>4, <5>5, <5>6 DEF TypeOK, Walker
      <4>2. UNCHANGED <<send, item, timer, main>>
        BY <2>6 DEF AcquireSlot, Walker, PollAgain, VisitLeaf, WalkFails, WalkEnds,
                    PollEof, PollFails
      <4>3. QED BY <1>1, <4>1, <4>2
    <3>2. CASE k = r BY <2>6, <3>2, WalkDown
    <3>3. QED BY <3>1, <3>2
  <2>7. ASSUME NEW k \in Rpc, Sender(k) \/ Sent(k) \/ SentSync(k) \/ Timer(k)
        PROVE  Down(r)
    <3>1. CASE k # r
      <4>1. send'[r] = send[r] /\ item'[r] = item[r] /\ timer'[r] = timer[r]
        <5> USE DEF Goto
        <5>1. CASE Sender(k)
          <6>1. CASE NextSync(k) BY <3>1, <6>1 DEF TypeOK, NextSync
          <6>2. CASE NextItem(k) BY <3>1, <6>2 DEF TypeOK, NextItem
          <6>3. CASE NextNotForwardable(k) BY <3>1, <6>3 DEF TypeOK, NextNotForwardable
          <6>4. CASE NextFails(k) BY <3>1, <6>4 DEF TypeOK, NextFails
          <6>5. CASE SendFails(k) BY <3>1, <6>5 DEF TypeOK, SendFails
          <6>6. QED BY <5>1, <6>1, <6>2, <6>3, <6>4, <6>5 DEF TypeOK, Sender
        <5>2. CASE Sent(k) \/ SentSync(k) BY <3>1, <5>2 DEF TypeOK, Sent, SentSync
        <5>3. CASE Timer(k) BY <3>1, <5>3 DEF TypeOK, Timer, TimerFires, TimerErr, TimerDone
        <5>4. QED BY <2>7, <5>1, <5>2, <5>3
      <4>2. UNCHANGED <<walk, left, main>>
        BY <2>7 DEF Sender, Sent, SentSync, Timer, NextSync, NextItem, NextNotForwardable,
                    NextFails, SendFails, TimerFires, TimerErr, TimerDone
      <4>3. QED BY <1>1, <4>1, <4>2
    <3>2. CASE k = r BY <2>7, <3>2, SendDown
    <3>3. QED BY <3>1, <3>2
  <2>8. ASSUME NEW k \in Rpc, HalfClose(k) \/ Cancel(k) PROVE Down(r)
    BY <1>1, <2>8 DEF HalfClose, Cancel
  <2>9. QED BY <2>1, <2>2, <2>3, <2>4, <2>5, <2>6, <2>7, <2>8 DEF Next
<1>4. QED BY <1>2, <1>3

-----------------------------------------------------------------------------
(* The theorems. *)

LEMMA IInvInit == Init => IInv
<1> SUFFICES ASSUME Init PROVE IInv OBVIOUS
<1> USE DEF Init
<1>1. TypeOK
  <2>1. buffer \in Seq(Item) /\ Len(buffer) <= BufferSize OBVIOUS
  <2>2. queue \in [Rpc -> Seq(QueueItem)] OBVIOUS
  <2>3. view \in [Rpc -> [Leaf -> {"none", "old", "current"}]] BY DEF Nothing
  <2>4. QED BY <2>1, <2>2, <2>3 DEF TypeOK
<1>2. SlotsMatchWalks
  <2>1. {r \in Rpc : walk[r] = "walk"} = {} OBVIOUS
  <2>2. QED BY <2>1, FS_EmptySet DEF SlotsMatchWalks
<1>3. IdleHasNone /\ ErrsAccounted BY DEF IdleHasNone, ErrsAccounted, GoroutinesEnded, Once
<1>4. NoLostUpdate BY DEF NoLostUpdate
<1>5. StaleIsOutdated /\ ItemIsSent BY DEF StaleIsOutdated, ItemIsSent, Update, NoItem
<1>6. NothingIsEarly
  <2>1. NoItem \in NotEarly BY DEF NotEarly, NoItem
  <2>2. <<>> \in Seq(NotEarly) OBVIOUS
  <2>3. QED BY <2>1, <2>2 DEF NothingIsEarly
<1>7. LeftMeansWalking /\ ViewWasCached /\ AnswerIsLeft
  BY DEF LeftMeansWalking, ViewWasCached, AnswerIsLeft, Nothing
<1>8. QED BY <1>1, <1>2, <1>3, <1>4, <1>5, <1>6, <1>7 DEF IInv

LEMMA IInvStep == IInv /\ [Next]_vars => IInv'
<1> SUFFICES ASSUME IInv, [Next]_vars PROVE IInv' OBVIOUS
<1> USE DEF IInv
<1>1. TypeOK' BY TypeStep
<1>2. SlotsMatchWalks' BY SlotsStep DEF SlotsOK
<1>3. IdleHasNone' /\ ErrsAccounted' BY ErrsStep DEF ErrsOK
<1>4. NoLostUpdate' BY NoLostStep
<1>5. StaleIsOutdated' BY StaleStep
<1>6. ItemIsSent' BY ItemIsSentStep
<1>7. NothingIsEarly' BY EarlyStep
<1>8. LeftMeansWalking' BY LeftStep
<1>9. ViewWasCached' BY ViewStep
<1>10. AnswerIsLeft' BY AnswerStep
<1>11. QED BY <1>1, <1>2, <1>3, <1>4, <1>5, <1>6, <1>7, <1>8, <1>9, <1>10

\* The invariant of all the goroutines of every RPC.
THEOREM Invariant == Spec => []IInv
<1>1. QED BY IInvInit, IInvStep, PTL DEF Spec

\* Every variable keeps its type, and the buffer and the slots their bounds.
THEOREM TypeCorrect == Spec => []TypeOK
<1>1. IInv => TypeOK BY DEF IInv
<1>2. QED BY <1>1, Invariant, PTL

\* While its target is not reset, no update is lost to a stream that is served,
\* whatever the order of walk, updates and sends (server.go:281-285, 405-418).
THEOREM NothingIsLost == Spec => []NoLostUpdate
<1>1. IInv => NoLostUpdate BY DEF IInv
<1>2. QED BY <1>1, Invariant, PTL

\* As many slots are taken as walks run, on every path out of a walk
\* (server.go:380-396).
THEOREM SlotsReturned == Spec => []SlotsMatchWalks
<1>1. IInv => SlotsMatchWalks BY DEF IInv
<1>2. QED BY <1>1, Invariant, PTL

\* No goroutine of an RPC ever blocks on errC: the three that have one answer on it
\* once (server.go:258-261).
THEOREM ErrCNeverBlocks == Spec => []ErrCHoldsAll
<1>1. IInv => ErrCHoldsAll
  <2> SUFFICES ASSUME IInv, NEW r \in Rpc PROVE errs[r] <= 3 BY DEF ErrCHoldsAll
  <2>1. errs[r] \in Nat BY DEF IInv, TypeOK
  <2>2. QED BY <2>1 DEF IInv, ErrsAccounted, Once
<1>2. QED BY <1>1, Invariant, PTL

\* Whichever goroutine of an RPC ends, and in whatever order, there is an answer for
\* return <-errC or the others still serve the client (server.go:294, 463-522).
THEOREM AnswersLeft == Spec => []AnswerIsLeft
<1>1. IInv => AnswerIsLeft BY DEF IInv
<1>2. QED BY <1>1, Invariant, PTL

\* Once its client has gone, each goroutine of an RPC goes towards its end and never
\* back, and where none has a step left the RPC has ended: the measure that
\* AbandonedEnds rests on (server.go:294, 387-425, 437-522).
THEOREM AbandonedEndsSoon == Spec => AbandonedWindsDown
<1>1. IInv /\ IInv' /\ [Next]_vars =>
         [\A r \in Rpc : client[r] = "cancelled" =>
             /\ client'[r] = "cancelled"
             /\ Steps(r) = 0 => Ended(r)
             /\ \/ Steps(r)' < Steps(r)
                \/ UNCHANGED <<main[r], walk[r], left[r], send[r], item[r], timer[r]>>]_vars
  <2> SUFFICES ASSUME IInv, IInv', [Next]_vars, NEW r \in Rpc, client[r] = "cancelled"
               PROVE  /\ client'[r] = "cancelled"
                      /\ Steps(r) = 0 => Ended(r)
                      /\ \/ Steps(r)' < Steps(r)
                         \/ UNCHANGED <<main[r], walk[r], left[r], send[r], item[r],
                                        timer[r]>>
    OBVIOUS
  <2>1. TypeOK /\ TypeOK' /\ IdleHasNone BY DEF IInv
  <2>2. client'[r] = "cancelled" /\ Down(r) BY <2>1, WindDownStep
  <2>3. main[r] # "idle" BY <2>1 DEF IdleHasNone
  <2>4. Steps(r) = 0 => Ended(r) BY <2>1, <2>3, StepsAreCounted
  <2>5. QED BY <2>2, <2>4 DEF Down, WalkSame, SendSame, TimerSame, MainSame
<1>2. QED BY <1>1, Invariant, PTL DEF Spec, AbandonedWindsDown

\* A stream whose target has not been reset has what the cache has once nothing is
\* on its way any more: nothing is lost between the walk, the buffer and the queue,
\* and nothing old overtakes (server.go:281-285, 405-418, 475-522).
THEOREM QuietConverges == Spec => []ConvergesWithoutReset
<1>1. IInv => ConvergesWithoutReset
  <2> SUFFICES ASSUME IInv, NEW r \in Rpc, NEW l \in Leaf,
                      Registered(r), ~req[r].only, ~closed[r], l \in req[r].leaves,
                      walk[r] = "done", send[r] = "next", queue[r] = <<>>,
                      buffer = <<>>, out[l] = NoItem, gen[l] = 0
               PROVE  view[r][l] = (IF l \in present THEN "current" ELSE "none")
    BY DEF ConvergesWithoutReset
  <2>1. CASE l \in present
    <3>1. Update(l, gen[l]) # NoItem BY DEF Update, NoItem
    <3>2. item[r] = NoItem /\ l \notin left[r] BY DEF IInv, ItemIsSent, LeftMeansWalking
    <3>3. ~OnItsWay(r, l) BY <3>1, <3>2 DEF OnItsWay, InBuffer, Contains
    <3>4. view[r][l] = "current" BY <2>1, <3>3 DEF IInv, NoLostUpdate
    <3>5. QED BY <2>1, <3>4
  <2>2. CASE l \notin present BY <2>2 DEF IInv, ViewWasCached
  <2>3. QED BY <2>1, <2>2
<1>2. QED BY <1>1, Invariant, PTL

\* When a sync response is sent, every leaf that the cache had when the client asked
\* has been sent, for every number of leaves (server.go:332-334, 380-425).
THEOREM SyncIsLast == Spec => []SyncAfterLeaves
<1>1. Init => SyncInv
  BY DEF Init, SyncInv, SyncOf, OneAnswer, Single, Marked, Contains, Walking
<1>2. IInv /\ SyncInv /\ [Next]_vars => SyncInv' BY SyncStep DEF IInv
<1>3. SyncInv => SyncAfterLeaves
  <2> SUFFICES ASSUME SyncInv, NEW r \in Rpc, send[r] = "sync" PROVE owed[r] = {}
    BY DEF SyncAfterLeaves
  <2>1. QED BY DEF SyncInv, SyncOf, LeavesFirst
<1>4. QED BY Invariant, <1>1, <1>2, <1>3, PTL DEF Spec
=============================================================================
