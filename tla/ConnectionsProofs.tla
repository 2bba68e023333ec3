------------------------- MODULE ConnectionsProofs -------------------------
(***************************************************************************)
(* The safety properties of Connections, for every number of gateways,     *)
(* targets, slots, messages and faults.                                    *)
(***************************************************************************)
EXTENDS Connections, FiniteSetTheorems, TLAPS

\* A ConnectionState that has not been made has nothing.
NewHasNothing ==
    \A o \in Obj :
        /\ pc[o] = "new" <=> owner[o] = None
        /\ pc[o] = "new" <=> name[o] = None
        /\ pc[o] = "new" => ~slot[o] /\ ~stopped[o] /\ ~connLock[o] /\ lock[o] = "none"

\* The map, and what the manager is about to close, know the ConnectionStates by
\* their gateway and name; what is to be removed is there.
MapKnows ==
    \A g \in Gateway :
        /\ \A n \in Name : connections[g][n] # None =>
              owner[connections[g][n]] = g /\ name[connections[g][n]] = n
        /\ closing[g] # None =>
              /\ owner[closing[g]] = g
              /\ connections[g][name[closing[g]]] = closing[g]
        /\ \A n \in removing[g] : connections[g][n] # None

\* Where a goroutine has set ConnectionLockAcquired, and where it has a query.
Working == {"prep", "context", "client", "subscribed", "after"}

FlagAt ==
    \A o \in Obj :
        /\ pc[o] \in {"try", "after", "clear"} => UseLock(o)
        /\ connLock[o] => UseLock(o) /\ pc[o] \in Working \cup {"clear"}
        /\ pc[o] \in Working /\ UseLock(o) => connLock[o]
        /\ pc[o] \in {"context", "client", "subscribed"} => query[o]
        /\ pc[o] = "ended" => ~slot[o]

EventsCounted == \A g \in Gateway : events[g] <= faults

\* Without faults a lock is held exactly by the goroutine that works under it.
LockWhileWorking ==
    faults = 0 =>
        /\ \A g \in Gateway : zk[g]
        /\ \A o \in Obj : lock[o] = "held" => pc[o] \in Working /\ UseLock(o)
        /\ \A o \in Obj : pc[o] # "new" /\ Runs(owner[o]) /\ UseLock(o) =>
              lock[o] = (IF pc[o] \in Working THEN "held" ELSE "none")
        /\ \A o1, o2 \in Obj :
              lock[o1] = "held" /\ lock[o2] = "held" /\ name[o1] = name[o2] => o1 = o2

IInv ==
    /\ TypeOK
    /\ SlotsAccounted
    /\ WorkNeedsSlot
    /\ MapOwnsRunning
    /\ NewHasNothing
    /\ MapKnows
    /\ FlagAt
    /\ EventsCounted
    /\ LockWhileWorking

\* The goroutines of a gateway that have a slot.
Held(g) == {o \in Obj : owner[o] = g /\ slot[o]}

LEMMA HeldIsFinite ==
  ASSUME NEW g \in Gateway
  PROVE  IsFiniteSet(Held(g)) /\ Cardinality(Held(g)) \in Nat
<1>1. Held(g) \subseteq Obj BY DEF Held
<1>2. IsFiniteSet(Held(g)) BY <1>1, FiniteAssumption, FS_Subset
<1>3. QED BY <1>2, FS_CardinalityType

\* A gateway with a goroutine that has a slot does not have them all left.
LEMMA SlotInUse ==
  ASSUME IInv, NEW o \in Obj, slot[o], owner[o] \in Gateway
  PROVE  slotsFree[owner[o]] < TargetLimit
<1> DEFINE g == owner[o]
<1>1. o \in Held(g) BY DEF Held
<1>2. Cardinality(Held(g)) # 0
  BY <1>1, HeldIsFinite, FS_EmptySet DEF IInv
<1>3. slotsFree[g] + Cardinality(Held(g)) = TargetLimit
  BY DEF IInv, SlotsAccounted, Held
<1>4. slotsFree[g] \in Nat BY LimitAssumption DEF IInv, TypeOK
<1>5. QED BY <1>2, <1>3, <1>4, HeldIsFinite, LimitAssumption

\* What InsertNew does, with a name for the ConnectionState that it makes.
LEMMA InsertNewMakes ==
  ASSUME NEW g \in Gateway, NEW n \in Name, InsertNew(g, n)
  PROVE  \E o \in Obj :
            /\ pc[o] = "new"
            /\ connections' = [connections EXCEPT ![g][n] = o]
            /\ owner' = [owner EXCEPT ![o] = g]
            /\ name' = [name EXCEPT ![o] = n]
            /\ target' = [target EXCEPT ![o] = inserting[g][n]]
            /\ pc' = [pc EXCEPT ![o] = "loop"]
<1> DEFINE o == CHOOSE o \in Unused : TRUE
<1>1. o \in Unused BY DEF InsertNew
<1>2. QED BY <1>1 DEF InsertNew, Unused

\* Only InsertNew makes a ConnectionState, and what has not been made is in no map.
LEMMA NewHasNothingStep == IInv /\ [Next]_vars => NewHasNothing'
<1> SUFFICES ASSUME IInv, [Next]_vars PROVE NewHasNothing'
  OBVIOUS
<1>1. ASSUME NEW g \in Gateway, HandleTargetControlMsg(g) PROVE NewHasNothing'
 BY <1>1 DEF HandleTargetControlMsg, IInv, TypeOK, NewHasNothing, MapKnows,
    WorkNeedsSlot, FlagAt, UseLock, Runs, mgrVars, envVars, idVars, connVars, lockVars
<1>2. ASSUME NEW g \in Gateway, NEW n \in Name, Disconnect(g, n) PROVE NewHasNothing'
 BY <1>2, NoneAssumption DEF Disconnect, IInv, TypeOK, NewHasNothing, MapKnows,
    WorkNeedsSlot, FlagAt, UseLock, Runs, mgrVars, envVars, idVars, connVars, lockVars
<1>3. ASSUME NEW g \in Gateway, DisconnectClose(g) PROVE NewHasNothing'
 BY <1>3 DEF DisconnectClose, Close, IInv, TypeOK, NewHasNothing, MapKnows,
    WorkNeedsSlot, FlagAt, UseLock, Runs, mgrVars, envVars, idVars, connVars, lockVars
<1>4. ASSUME NEW g \in Gateway, NEW n \in Name, InsertNew(g, n) PROVE NewHasNothing'
  <2>1. PICK o \in Obj :
           /\ pc[o] = "new"
           /\ connections' = [connections EXCEPT ![g][n] = o]
           /\ owner' = [owner EXCEPT ![o] = g]
           /\ name' = [name EXCEPT ![o] = n]
           /\ target' = [target EXCEPT ![o] = inserting[g][n]]
           /\ pc' = [pc EXCEPT ![o] = "loop"]
    BY <1>4, InsertNewMakes
  <2>2. /\ removing[g] = {} /\ closing[g] = None /\ connections[g][n] = None /\ Runs(g)
        /\ inserting' = [inserting EXCEPT ![g][n] = None]
        /\ inserting[g][n] # None
        /\ UNCHANGED <<removing, closing, resetting, msgs, envVars, stopped, cancel,
                       client, lockVars, slotsFree, slot, crashed, query>>
    BY <1>4 DEF InsertNew, Inserts, Inserted
  <2>3. QED
   BY <2>1, <2>2, NoneAssumption DEF IInv, TypeOK, NewHasNothing, MapKnows,
        WorkNeedsSlot, FlagAt, UseLock, Runs, mgrVars, envVars, idVars, connVars,
        lockVars
<1>5. ASSUME NEW g \in Gateway, NEW n \in Name, InsertSame(g, n) PROVE NewHasNothing'
 BY <1>5 DEF InsertSame, Inserts, Inserted, IInv, TypeOK, NewHasNothing, MapKnows,
    WorkNeedsSlot, FlagAt, UseLock, Runs, mgrVars, envVars, idVars, connVars, lockVars
<1>6. ASSUME NEW g \in Gateway, NEW n \in Name, InsertChanged(g, n) PROVE NewHasNothing'
 BY <1>6 DEF InsertChanged, Inserts, Inserted, IInv, TypeOK, NewHasNothing, MapKnows,
    WorkNeedsSlot, FlagAt, UseLock, Runs, mgrVars, envVars, idVars, connVars, lockVars
<1>7. ASSUME NEW g \in Gateway, Reconnect(g) PROVE NewHasNothing'
 BY <1>7 DEF Reconnect, Close, IInv, TypeOK, NewHasNothing, MapKnows, WorkNeedsSlot,
    FlagAt, UseLock, Runs, mgrVars, envVars, idVars, connVars, lockVars
<1>8. ASSUME NEW g \in Gateway, EventDisconnected(g) PROVE NewHasNothing'
 BY <1>8 DEF EventDisconnected, IInv, TypeOK, NewHasNothing, MapKnows, WorkNeedsSlot,
    FlagAt, UseLock, Runs, mgrVars, envVars, idVars, connVars, lockVars
<1>9. ASSUME NEW g \in Gateway, NEW o \in Obj, Unlock(g, o) PROVE NewHasNothing'
 BY <1>9 DEF Unlock, IInv, TypeOK, NewHasNothing, MapKnows, WorkNeedsSlot, FlagAt,
    UseLock, Runs, mgrVars, envVars, idVars, connVars, lockVars
<1>10. ASSUME NEW g \in Gateway, ZkDown(g) PROVE NewHasNothing'
 BY <1>10 DEF ZkDown, IInv, TypeOK, NewHasNothing, MapKnows, WorkNeedsSlot, FlagAt,
    UseLock, Runs, mgrVars, envVars, idVars, connVars, lockVars
<1>11. ASSUME NEW g \in Gateway, ZkUp(g) PROVE NewHasNothing'
 BY <1>11 DEF ZkUp, IInv, TypeOK, NewHasNothing, MapKnows, WorkNeedsSlot, FlagAt,
    UseLock, Runs, mgrVars, envVars, idVars, connVars, lockVars
<1>12. ASSUME NEW o \in Obj, LoopRound(o) PROVE NewHasNothing'
 BY <1>12 DEF LoopRound, At, Goto, IInv, TypeOK, NewHasNothing, MapKnows, WorkNeedsSlot,
    FlagAt, UseLock, Runs, mgrVars, envVars, idVars, connVars, lockVars
<1>13. ASSUME NEW o \in Obj, LoopEnds(o) PROVE NewHasNothing'
 BY <1>13 DEF LoopEnds, At, Goto, IInv, TypeOK, NewHasNothing, MapKnows, WorkNeedsSlot,
    FlagAt, UseLock, Runs, mgrVars, envVars, idVars, connVars, lockVars
<1>14. ASSUME NEW o \in Obj, TryTrue(o) PROVE NewHasNothing'
 BY <1>14 DEF TryTrue, LockFree, At, Goto, IInv, TypeOK, NewHasNothing, MapKnows,
    WorkNeedsSlot, FlagAt, UseLock, Runs, mgrVars, envVars, idVars, connVars, lockVars
<1>15. ASSUME NEW o \in Obj, TryFalse(o) PROVE NewHasNothing'
 BY <1>15 DEF TryFalse, LockFree, At, Goto, IInv, TypeOK, NewHasNothing, MapKnows,
    WorkNeedsSlot, FlagAt, UseLock, Runs, mgrVars, envVars, idVars, connVars, lockVars
<1>16. ASSUME NEW o \in Obj, PrepareQuery(o) PROVE NewHasNothing'
  <2>1. CASE target[o] \in BadConfig
   BY <1>16, <2>1 DEF PrepareQuery, DoConnectReturns, At, Goto, IInv, TypeOK,
        NewHasNothing, MapKnows, WorkNeedsSlot, FlagAt, UseLock, Runs, mgrVars, envVars,
        idVars, connVars, lockVars
  <2>2. CASE target[o] \notin BadConfig
    <3>1. /\ pc[o] = "prep" /\ pc' = [pc EXCEPT ![o] = "context"]
          /\ query' = [query EXCEPT ![o] = TRUE]
          /\ UNCHANGED <<mgrVars, envVars, idVars, connVars, lockVars, slotsFree, slot,
                         crashed>>
      BY <1>16, <2>2 DEF PrepareQuery, At, Goto
    <3>2. QED
     BY <3>1 DEF IInv, TypeOK, NewHasNothing, MapKnows, WorkNeedsSlot, FlagAt, UseLock,
          Runs, mgrVars, envVars, idVars, connVars, lockVars
  <2>3. QED BY <2>1, <2>2
<1>17. ASSUME NEW o \in Obj, MakeContext(o) PROVE NewHasNothing'
 BY <1>17 DEF MakeContext, At, Goto, IInv, TypeOK, NewHasNothing, MapKnows,
    WorkNeedsSlot, FlagAt, UseLock, Runs, mgrVars, envVars, idVars, connVars, lockVars
<1>18. ASSUME NEW o \in Obj, Subscribe(o) PROVE NewHasNothing'
 BY <1>18 DEF Subscribe, At, Goto, IInv, TypeOK, NewHasNothing, MapKnows, WorkNeedsSlot,
    FlagAt, UseLock, Runs, mgrVars, envVars, idVars, connVars, lockVars
<1>19. ASSUME NEW o \in Obj, SubscribeReturns(o) PROVE NewHasNothing'
 BY <1>19 DEF SubscribeReturns, DoConnectReturns, At, Goto, IInv, TypeOK, NewHasNothing,
    MapKnows, WorkNeedsSlot, FlagAt, UseLock, Runs, mgrVars, envVars, idVars, connVars,
    lockVars
<1>20. ASSUME NEW o \in Obj, AfterUnlock(o) PROVE NewHasNothing'
 BY <1>20 DEF AfterUnlock, At, Goto, IInv, TypeOK, NewHasNothing, MapKnows,
    WorkNeedsSlot, FlagAt, UseLock, Runs, mgrVars, envVars, idVars, connVars, lockVars
<1>21. ASSUME NEW o \in Obj, AfterClear(o) PROVE NewHasNothing'
 BY <1>21 DEF AfterClear, At, Goto, IInv, TypeOK, NewHasNothing, MapKnows,
    WorkNeedsSlot, FlagAt, UseLock, Runs, mgrVars, envVars, idVars, connVars, lockVars
<1>22. ASSUME NEW o \in Obj, LoseLock(o) PROVE NewHasNothing'
 BY <1>22 DEF LoseLock, IInv, TypeOK, NewHasNothing, MapKnows, WorkNeedsSlot, FlagAt,
    UseLock, Runs, mgrVars, envVars, idVars, connVars, lockVars
<1>23. ASSUME NEW o \in Obj, CrashedSession(o) PROVE NewHasNothing'
 BY <1>23 DEF CrashedSession, IInv, TypeOK, NewHasNothing, MapKnows, WorkNeedsSlot,
    FlagAt, UseLock, Runs, mgrVars, envVars, idVars, connVars, lockVars
<1>24. CASE UNCHANGED vars
 BY <1>24 DEF vars, mgrVars, envVars, idVars, connVars, lockVars, IInv, TypeOK,
    NewHasNothing, MapKnows, WorkNeedsSlot, FlagAt, UseLock, Runs
<1>25. QED
 BY <1>1, <1>2, <1>3, <1>4, <1>5, <1>6, <1>7, <1>8, <1>9, <1>10, <1>11, <1>12, <1>13,
    <1>14, <1>15, <1>16, <1>17, <1>18, <1>19, <1>20, <1>21, <1>22, <1>23, <1>24 DEF
    Next, Manager, Listener, Goroutine

\* The goroutine alone moves, and sets ConnectionLockAcquired and queryTarget.
LEMMA FlagAtStep == IInv /\ [Next]_vars => FlagAt'
<1> SUFFICES ASSUME IInv, [Next]_vars PROVE FlagAt'
  OBVIOUS
<1>1. ASSUME NEW g \in Gateway, HandleTargetControlMsg(g) PROVE FlagAt'
 BY <1>1 DEF HandleTargetControlMsg, IInv, TypeOK, FlagAt, Working, NewHasNothing,
    UseLock, mgrVars, envVars, idVars, connVars, lockVars
<1>2. ASSUME NEW g \in Gateway, NEW n \in Name, Disconnect(g, n) PROVE FlagAt'
 BY <1>2 DEF Disconnect, IInv, TypeOK, FlagAt, Working, NewHasNothing, UseLock, mgrVars,
    envVars, idVars, connVars, lockVars
<1>3. ASSUME NEW g \in Gateway, DisconnectClose(g) PROVE FlagAt'
 BY <1>3 DEF DisconnectClose, Close, IInv, TypeOK, FlagAt, Working, NewHasNothing,
    UseLock, mgrVars, envVars, idVars, connVars, lockVars
<1>4. ASSUME NEW g \in Gateway, NEW n \in Name, InsertNew(g, n) PROVE FlagAt'
  <2>1. PICK o \in Obj :
           /\ pc[o] = "new"
           /\ connections' = [connections EXCEPT ![g][n] = o]
           /\ owner' = [owner EXCEPT ![o] = g]
           /\ name' = [name EXCEPT ![o] = n]
           /\ target' = [target EXCEPT ![o] = inserting[g][n]]
           /\ pc' = [pc EXCEPT ![o] = "loop"]
    BY <1>4, InsertNewMakes
  <2>2. /\ removing[g] = {} /\ closing[g] = None /\ connections[g][n] = None /\ Runs(g)
        /\ inserting' = [inserting EXCEPT ![g][n] = None]
        /\ inserting[g][n] # None
        /\ UNCHANGED <<removing, closing, resetting, msgs, envVars, stopped, cancel,
                       client, lockVars, slotsFree, slot, crashed, query>>
    BY <1>4 DEF InsertNew, Inserts, Inserted
  <2>3. QED
   BY <2>1, <2>2, NoneAssumption DEF IInv, TypeOK, FlagAt, Working, NewHasNothing,
        UseLock, mgrVars, envVars, idVars, connVars, lockVars
<1>5. ASSUME NEW g \in Gateway, NEW n \in Name, InsertSame(g, n) PROVE FlagAt'
 BY <1>5 DEF InsertSame, Inserts, Inserted, IInv, TypeOK, FlagAt, Working,
    NewHasNothing, UseLock, mgrVars, envVars, idVars, connVars, lockVars
<1>6. ASSUME NEW g \in Gateway, NEW n \in Name, InsertChanged(g, n) PROVE FlagAt'
 BY <1>6 DEF InsertChanged, Inserts, Inserted, IInv, TypeOK, FlagAt, Working,
    NewHasNothing, UseLock, mgrVars, envVars, idVars, connVars, lockVars
<1>7. ASSUME NEW g \in Gateway, Reconnect(g) PROVE FlagAt'
 BY <1>7 DEF Reconnect, Close, IInv, TypeOK, FlagAt, Working, NewHasNothing, UseLock,
    mgrVars, envVars, idVars, connVars, lockVars
<1>8. ASSUME NEW g \in Gateway, EventDisconnected(g) PROVE FlagAt'
 BY <1>8 DEF EventDisconnected, IInv, TypeOK, FlagAt, Working, NewHasNothing, UseLock,
    mgrVars, envVars, idVars, connVars, lockVars
<1>9. ASSUME NEW g \in Gateway, NEW o \in Obj, Unlock(g, o) PROVE FlagAt'
 BY <1>9 DEF Unlock, IInv, TypeOK, FlagAt, Working, NewHasNothing, UseLock, mgrVars,
    envVars, idVars, connVars, lockVars
<1>10. ASSUME NEW g \in Gateway, ZkDown(g) PROVE FlagAt'
 BY <1>10 DEF ZkDown, IInv, TypeOK, FlagAt, Working, NewHasNothing, UseLock, mgrVars,
    envVars, idVars, connVars, lockVars
<1>11. ASSUME NEW g \in Gateway, ZkUp(g) PROVE FlagAt'
 BY <1>11 DEF ZkUp, IInv, TypeOK, FlagAt, Working, NewHasNothing, UseLock, mgrVars,
    envVars, idVars, connVars, lockVars
<1>12. ASSUME NEW o \in Obj, LoopRound(o) PROVE FlagAt'
 BY <1>12 DEF LoopRound, At, Goto, IInv, TypeOK, FlagAt, Working, NewHasNothing,
    UseLock, mgrVars, envVars, idVars, connVars, lockVars
<1>13. ASSUME NEW o \in Obj, LoopEnds(o) PROVE FlagAt'
 BY <1>13 DEF LoopEnds, At, Goto, IInv, TypeOK, FlagAt, Working, NewHasNothing, UseLock,
    mgrVars, envVars, idVars, connVars, lockVars
<1>14. ASSUME NEW o \in Obj, TryTrue(o) PROVE FlagAt'
 BY <1>14 DEF TryTrue, LockFree, At, Goto, IInv, TypeOK, FlagAt, Working, NewHasNothing,
    UseLock, mgrVars, envVars, idVars, connVars, lockVars
<1>15. ASSUME NEW o \in Obj, TryFalse(o) PROVE FlagAt'
 BY <1>15 DEF TryFalse, LockFree, At, Goto, IInv, TypeOK, FlagAt, Working,
    NewHasNothing, UseLock, mgrVars, envVars, idVars, connVars, lockVars
<1>16. ASSUME NEW o \in Obj, PrepareQuery(o) PROVE FlagAt'
  <2>1. CASE target[o] \in BadConfig
   BY <1>16, <2>1 DEF PrepareQuery, DoConnectReturns, At, Goto, IInv, TypeOK, FlagAt,
        Working, NewHasNothing, UseLock, mgrVars, envVars, idVars, connVars, lockVars
  <2>2. CASE target[o] \notin BadConfig
    <3>1. /\ pc[o] = "prep" /\ pc' = [pc EXCEPT ![o] = "context"]
          /\ query' = [query EXCEPT ![o] = TRUE]
          /\ UNCHANGED <<mgrVars, envVars, idVars, connVars, lockVars, slotsFree, slot,
                         crashed>>
      BY <1>16, <2>2 DEF PrepareQuery, At, Goto
    <3>2. QED
     BY <3>1 DEF IInv, TypeOK, FlagAt, Working, NewHasNothing, UseLock, mgrVars,
          envVars, idVars, connVars, lockVars
  <2>3. QED BY <2>1, <2>2
<1>17. ASSUME NEW o \in Obj, MakeContext(o) PROVE FlagAt'
 BY <1>17 DEF MakeContext, At, Goto, IInv, TypeOK, FlagAt, Working, NewHasNothing,
    UseLock, mgrVars, envVars, idVars, connVars, lockVars
<1>18. ASSUME NEW o \in Obj, Subscribe(o) PROVE FlagAt'
 BY <1>18 DEF Subscribe, At, Goto, IInv, TypeOK, FlagAt, Working, NewHasNothing,
    UseLock, mgrVars, envVars, idVars, connVars, lockVars
<1>19. ASSUME NEW o \in Obj, SubscribeReturns(o) PROVE FlagAt'
 BY <1>19 DEF SubscribeReturns, DoConnectReturns, At, Goto, IInv, TypeOK, FlagAt,
    Working, NewHasNothing, UseLock, mgrVars, envVars, idVars, connVars, lockVars
<1>20. ASSUME NEW o \in Obj, AfterUnlock(o) PROVE FlagAt'
 BY <1>20 DEF AfterUnlock, At, Goto, IInv, TypeOK, FlagAt, Working, NewHasNothing,
    UseLock, mgrVars, envVars, idVars, connVars, lockVars
<1>21. ASSUME NEW o \in Obj, AfterClear(o) PROVE FlagAt'
 BY <1>21 DEF AfterClear, At, Goto, IInv, TypeOK, FlagAt, Working, NewHasNothing,
    UseLock, mgrVars, envVars, idVars, connVars, lockVars
<1>22. ASSUME NEW o \in Obj, LoseLock(o) PROVE FlagAt'
 BY <1>22 DEF LoseLock, IInv, TypeOK, FlagAt, Working, NewHasNothing, UseLock, mgrVars,
    envVars, idVars, connVars, lockVars
<1>23. ASSUME NEW o \in Obj, CrashedSession(o) PROVE FlagAt'
 BY <1>23 DEF CrashedSession, IInv, TypeOK, FlagAt, Working, NewHasNothing, UseLock,
    mgrVars, envVars, idVars, connVars, lockVars
<1>24. CASE UNCHANGED vars
 BY <1>24 DEF vars, mgrVars, envVars, idVars, connVars, lockVars, IInv, TypeOK, FlagAt,
    Working, NewHasNothing, UseLock
<1>25. QED
 BY <1>1, <1>2, <1>3, <1>4, <1>5, <1>6, <1>7, <1>8, <1>9, <1>10, <1>11, <1>12, <1>13,
    <1>14, <1>15, <1>16, <1>17, <1>18, <1>19, <1>20, <1>21, <1>22, <1>23, <1>24 DEF
    Next, Manager, Listener, Goroutine

\* The manager removes under its mutex what it has closed, and inserts what is new.
LEMMA MapKnowsStep == IInv /\ [Next]_vars => MapKnows'
<1> SUFFICES ASSUME IInv, [Next]_vars PROVE MapKnows'
  OBVIOUS
<1>1. ASSUME NEW g \in Gateway, HandleTargetControlMsg(g) PROVE MapKnows'
 BY <1>1 DEF HandleTargetControlMsg, IInv, TypeOK, MapKnows, NewHasNothing,
    MapOwnsRunning, mgrVars, envVars, idVars, connVars, lockVars
<1>2. ASSUME NEW g \in Gateway, NEW n \in Name, Disconnect(g, n) PROVE MapKnows'
 BY <1>2 DEF Disconnect, IInv, TypeOK, MapKnows, NewHasNothing, MapOwnsRunning, mgrVars,
    envVars, idVars, connVars, lockVars
<1>3. ASSUME NEW g \in Gateway, DisconnectClose(g) PROVE MapKnows'
 BY <1>3 DEF DisconnectClose, Close, IInv, TypeOK, MapKnows, NewHasNothing,
    MapOwnsRunning, mgrVars, envVars, idVars, connVars, lockVars
<1>4. ASSUME NEW g \in Gateway, NEW n \in Name, InsertNew(g, n) PROVE MapKnows'
  <2>1. PICK o \in Obj :
           /\ pc[o] = "new"
           /\ connections' = [connections EXCEPT ![g][n] = o]
           /\ owner' = [owner EXCEPT ![o] = g]
           /\ name' = [name EXCEPT ![o] = n]
           /\ target' = [target EXCEPT ![o] = inserting[g][n]]
           /\ pc' = [pc EXCEPT ![o] = "loop"]
    BY <1>4, InsertNewMakes
  <2>2. /\ removing[g] = {} /\ closing[g] = None /\ connections[g][n] = None /\ Runs(g)
        /\ inserting' = [inserting EXCEPT ![g][n] = None]
        /\ inserting[g][n] # None
        /\ UNCHANGED <<removing, closing, resetting, msgs, envVars, stopped, cancel,
                       client, lockVars, slotsFree, slot, crashed, query>>
    BY <1>4 DEF InsertNew, Inserts, Inserted
  <2>3. QED
   BY <2>1, <2>2, NoneAssumption DEF IInv, TypeOK, MapKnows, NewHasNothing,
        MapOwnsRunning, mgrVars, envVars, idVars, connVars, lockVars
<1>5. ASSUME NEW g \in Gateway, NEW n \in Name, InsertSame(g, n) PROVE MapKnows'
 BY <1>5 DEF InsertSame, Inserts, Inserted, IInv, TypeOK, MapKnows, NewHasNothing,
    MapOwnsRunning, mgrVars, envVars, idVars, connVars, lockVars
<1>6. ASSUME NEW g \in Gateway, NEW n \in Name, InsertChanged(g, n) PROVE MapKnows'
 BY <1>6 DEF InsertChanged, Inserts, Inserted, IInv, TypeOK, MapKnows, NewHasNothing,
    MapOwnsRunning, mgrVars, envVars, idVars, connVars, lockVars
<1>7. ASSUME NEW g \in Gateway, Reconnect(g) PROVE MapKnows'
 BY <1>7 DEF Reconnect, Close, IInv, TypeOK, MapKnows, NewHasNothing, MapOwnsRunning,
    mgrVars, envVars, idVars, connVars, lockVars
<1>8. ASSUME NEW g \in Gateway, EventDisconnected(g) PROVE MapKnows'
 BY <1>8 DEF EventDisconnected, IInv, TypeOK, MapKnows, NewHasNothing, MapOwnsRunning,
    mgrVars, envVars, idVars, connVars, lockVars
<1>9. ASSUME NEW g \in Gateway, NEW o \in Obj, Unlock(g, o) PROVE MapKnows'
 BY <1>9 DEF Unlock, IInv, TypeOK, MapKnows, NewHasNothing, MapOwnsRunning, mgrVars,
    envVars, idVars, connVars, lockVars
<1>10. ASSUME NEW g \in Gateway, ZkDown(g) PROVE MapKnows'
 BY <1>10 DEF ZkDown, IInv, TypeOK, MapKnows, NewHasNothing, MapOwnsRunning, mgrVars,
    envVars, idVars, connVars, lockVars
<1>11. ASSUME NEW g \in Gateway, ZkUp(g) PROVE MapKnows'
 BY <1>11 DEF ZkUp, IInv, TypeOK, MapKnows, NewHasNothing, MapOwnsRunning, mgrVars,
    envVars, idVars, connVars, lockVars
<1>12. ASSUME NEW o \in Obj, LoopRound(o) PROVE MapKnows'
 BY <1>12 DEF LoopRound, At, Goto, IInv, TypeOK, MapKnows, NewHasNothing,
    MapOwnsRunning, mgrVars, envVars, idVars, connVars, lockVars
<1>13. ASSUME NEW o \in Obj, LoopEnds(o) PROVE MapKnows'
 BY <1>13 DEF LoopEnds, At, Goto, IInv, TypeOK, MapKnows, NewHasNothing, MapOwnsRunning,
    mgrVars, envVars, idVars, connVars, lockVars
<1>14. ASSUME NEW o \in Obj, TryTrue(o) PROVE MapKnows'
 BY <1>14 DEF TryTrue, LockFree, At, Goto, IInv, TypeOK, MapKnows, NewHasNothing,
    MapOwnsRunning, mgrVars, envVars, idVars, connVars, lockVars
<1>15. ASSUME NEW o \in Obj, TryFalse(o) PROVE MapKnows'
 BY <1>15 DEF TryFalse, LockFree, At, Goto, IInv, TypeOK, MapKnows, NewHasNothing,
    MapOwnsRunning, mgrVars, envVars, idVars, connVars, lockVars
<1>16. ASSUME NEW o \in Obj, PrepareQuery(o) PROVE MapKnows'
  <2>1. CASE target[o] \in BadConfig
   BY <1>16, <2>1 DEF PrepareQuery, DoConnectReturns, At, Goto, IInv, TypeOK, MapKnows,
        NewHasNothing, MapOwnsRunning, mgrVars, envVars, idVars, connVars, lockVars
  <2>2. CASE target[o] \notin BadConfig
    <3>1. /\ pc[o] = "prep" /\ pc' = [pc EXCEPT ![o] = "context"]
          /\ query' = [query EXCEPT ![o] = TRUE]
          /\ UNCHANGED <<mgrVars, envVars, idVars, connVars, lockVars, slotsFree, slot,
                         crashed>>
      BY <1>16, <2>2 DEF PrepareQuery, At, Goto
    <3>2. QED
     BY <3>1 DEF IInv, TypeOK, MapKnows, NewHasNothing, MapOwnsRunning, mgrVars,
          envVars, idVars, connVars, lockVars
  <2>3. QED BY <2>1, <2>2
<1>17. ASSUME NEW o \in Obj, MakeContext(o) PROVE MapKnows'
 BY <1>17 DEF MakeContext, At, Goto, IInv, TypeOK, MapKnows, NewHasNothing,
    MapOwnsRunning, mgrVars, envVars, idVars, connVars, lockVars
<1>18. ASSUME NEW o \in Obj, Subscribe(o) PROVE MapKnows'
 BY <1>18 DEF Subscribe, At, Goto, IInv, TypeOK, MapKnows, NewHasNothing,
    MapOwnsRunning, mgrVars, envVars, idVars, connVars, lockVars
<1>19. ASSUME NEW o \in Obj, SubscribeReturns(o) PROVE MapKnows'
 BY <1>19 DEF SubscribeReturns, DoConnectReturns, At, Goto, IInv, TypeOK, MapKnows,
    NewHasNothing, MapOwnsRunning, mgrVars, envVars, idVars, connVars, lockVars
<1>20. ASSUME NEW o \in Obj, AfterUnlock(o) PROVE MapKnows'
 BY <1>20 DEF AfterUnlock, At, Goto, IInv, TypeOK, MapKnows, NewHasNothing,
    MapOwnsRunning, mgrVars, envVars, idVars, connVars, lockVars
<1>21. ASSUME NEW o \in Obj, AfterClear(o) PROVE MapKnows'
 BY <1>21 DEF AfterClear, At, Goto, IInv, TypeOK, MapKnows, NewHasNothing,
    MapOwnsRunning, mgrVars, envVars, idVars, connVars, lockVars
<1>22. ASSUME NEW o \in Obj, LoseLock(o) PROVE MapKnows'
 BY <1>22 DEF LoseLock, IInv, TypeOK, MapKnows, NewHasNothing, MapOwnsRunning, mgrVars,
    envVars, idVars, connVars, lockVars
<1>23. ASSUME NEW o \in Obj, CrashedSession(o) PROVE MapKnows'
 BY <1>23 DEF CrashedSession, IInv, TypeOK, MapKnows, NewHasNothing, MapOwnsRunning,
    mgrVars, envVars, idVars, connVars, lockVars
<1>24. CASE UNCHANGED vars
 BY <1>24 DEF vars, mgrVars, envVars, idVars, connVars, lockVars, IInv, TypeOK,
    MapKnows, NewHasNothing, MapOwnsRunning
<1>25. QED
 BY <1>1, <1>2, <1>3, <1>4, <1>5, <1>6, <1>7, <1>8, <1>9, <1>10, <1>11, <1>12, <1>13,
    <1>14, <1>15, <1>16, <1>17, <1>18, <1>19, <1>20, <1>21, <1>22, <1>23, <1>24 DEF
    Next, Manager, Listener, Goroutine

\* disconnect stops a ConnectionState, and the same pass takes it out of the map.
LEMMA MapOwnsStep == IInv /\ [Next]_vars => MapOwnsRunning'
<1> SUFFICES ASSUME IInv, [Next]_vars PROVE MapOwnsRunning'
  OBVIOUS
<1>1. ASSUME NEW g \in Gateway, HandleTargetControlMsg(g) PROVE MapOwnsRunning'
 BY <1>1 DEF HandleTargetControlMsg, IInv, TypeOK, MapKnows, NewHasNothing,
    MapOwnsRunning, Runs, mgrVars, envVars, idVars, connVars, lockVars
<1>2. ASSUME NEW g \in Gateway, NEW n \in Name, Disconnect(g, n) PROVE MapOwnsRunning'
 BY <1>2, NoneAssumption DEF Disconnect, IInv, TypeOK, MapKnows, NewHasNothing,
    MapOwnsRunning, Runs, mgrVars, envVars, idVars, connVars, lockVars
<1>3. ASSUME NEW g \in Gateway, DisconnectClose(g) PROVE MapOwnsRunning'
 BY <1>3 DEF DisconnectClose, Close, IInv, TypeOK, MapKnows, NewHasNothing,
    MapOwnsRunning, Runs, mgrVars, envVars, idVars, connVars, lockVars
<1>4. ASSUME NEW g \in Gateway, NEW n \in Name, InsertNew(g, n) PROVE MapOwnsRunning'
  <2>1. PICK o \in Obj :
           /\ pc[o] = "new"
           /\ connections' = [connections EXCEPT ![g][n] = o]
           /\ owner' = [owner EXCEPT ![o] = g]
           /\ name' = [name EXCEPT ![o] = n]
           /\ target' = [target EXCEPT ![o] = inserting[g][n]]
           /\ pc' = [pc EXCEPT ![o] = "loop"]
    BY <1>4, InsertNewMakes
  <2>2. /\ removing[g] = {} /\ closing[g] = None /\ connections[g][n] = None /\ Runs(g)
        /\ inserting' = [inserting EXCEPT ![g][n] = None]
        /\ inserting[g][n] # None
        /\ UNCHANGED <<removing, closing, resetting, msgs, envVars, stopped, cancel,
                       client, lockVars, slotsFree, slot, crashed, query>>
    BY <1>4 DEF InsertNew, Inserts, Inserted
  <2>3. QED
   BY <2>1, <2>2, NoneAssumption DEF IInv, TypeOK, MapKnows, NewHasNothing,
        MapOwnsRunning, Runs, mgrVars, envVars, idVars, connVars, lockVars
<1>5. ASSUME NEW g \in Gateway, NEW n \in Name, InsertSame(g, n) PROVE MapOwnsRunning'
 BY <1>5 DEF InsertSame, Inserts, Inserted, IInv, TypeOK, MapKnows, NewHasNothing,
    MapOwnsRunning, Runs, mgrVars, envVars, idVars, connVars, lockVars
<1>6. ASSUME NEW g \in Gateway, NEW n \in Name, InsertChanged(g, n) PROVE MapOwnsRunning'
 BY <1>6, NoneAssumption DEF InsertChanged, Inserts, Inserted, IInv, TypeOK, MapKnows,
    NewHasNothing, MapOwnsRunning, Runs, mgrVars, envVars, idVars, connVars, lockVars
<1>7. ASSUME NEW g \in Gateway, Reconnect(g) PROVE MapOwnsRunning'
 BY <1>7 DEF Reconnect, Close, IInv, TypeOK, MapKnows, NewHasNothing, MapOwnsRunning,
    Runs, mgrVars, envVars, idVars, connVars, lockVars
<1>8. ASSUME NEW g \in Gateway, EventDisconnected(g) PROVE MapOwnsRunning'
 BY <1>8 DEF EventDisconnected, IInv, TypeOK, MapKnows, NewHasNothing, MapOwnsRunning,
    Runs, mgrVars, envVars, idVars, connVars, lockVars
<1>9. ASSUME NEW g \in Gateway, NEW o \in Obj, Unlock(g, o) PROVE MapOwnsRunning'
 BY <1>9 DEF Unlock, IInv, TypeOK, MapKnows, NewHasNothing, MapOwnsRunning, Runs,
    mgrVars, envVars, idVars, connVars, lockVars
<1>10. ASSUME NEW g \in Gateway, ZkDown(g) PROVE MapOwnsRunning'
 BY <1>10 DEF ZkDown, IInv, TypeOK, MapKnows, NewHasNothing, MapOwnsRunning, Runs,
    mgrVars, envVars, idVars, connVars, lockVars
<1>11. ASSUME NEW g \in Gateway, ZkUp(g) PROVE MapOwnsRunning'
 BY <1>11 DEF ZkUp, IInv, TypeOK, MapKnows, NewHasNothing, MapOwnsRunning, Runs,
    mgrVars, envVars, idVars, connVars, lockVars
<1>12. ASSUME NEW o \in Obj, LoopRound(o) PROVE MapOwnsRunning'
 BY <1>12 DEF LoopRound, At, Goto, IInv, TypeOK, MapKnows, NewHasNothing,
    MapOwnsRunning, Runs, mgrVars, envVars, idVars, connVars, lockVars
<1>13. ASSUME NEW o \in Obj, LoopEnds(o) PROVE MapOwnsRunning'
 BY <1>13 DEF LoopEnds, At, Goto, IInv, TypeOK, MapKnows, NewHasNothing, MapOwnsRunning,
    Runs, mgrVars, envVars, idVars, connVars, lockVars
<1>14. ASSUME NEW o \in Obj, TryTrue(o) PROVE MapOwnsRunning'
 BY <1>14 DEF TryTrue, LockFree, At, Goto, IInv, TypeOK, MapKnows, NewHasNothing,
    MapOwnsRunning, Runs, mgrVars, envVars, idVars, connVars, lockVars
<1>15. ASSUME NEW o \in Obj, TryFalse(o) PROVE MapOwnsRunning'
 BY <1>15 DEF TryFalse, LockFree, At, Goto, IInv, TypeOK, MapKnows, NewHasNothing,
    MapOwnsRunning, Runs, mgrVars, envVars, idVars, connVars, lockVars
<1>16. ASSUME NEW o \in Obj, PrepareQuery(o) PROVE MapOwnsRunning'
  <2>1. CASE target[o] \in BadConfig
   BY <1>16, <2>1 DEF PrepareQuery, DoConnectReturns, At, Goto, IInv, TypeOK, MapKnows,
        NewHasNothing, MapOwnsRunning, Runs, mgrVars, envVars, idVars, connVars,
        lockVars
  <2>2. CASE target[o] \notin BadConfig
    <3>1. /\ pc[o] = "prep" /\ pc' = [pc EXCEPT ![o] = "context"]
          /\ query' = [query EXCEPT ![o] = TRUE]
          /\ UNCHANGED <<mgrVars, envVars, idVars, connVars, lockVars, slotsFree, slot,
                         crashed>>
      BY <1>16, <2>2 DEF PrepareQuery, At, Goto
    <3>2. QED
     BY <3>1 DEF IInv, TypeOK, MapKnows, NewHasNothing, MapOwnsRunning, Runs, mgrVars,
          envVars, idVars, connVars, lockVars
  <2>3. QED BY <2>1, <2>2
<1>17. ASSUME NEW o \in Obj, MakeContext(o) PROVE MapOwnsRunning'
 BY <1>17 DEF MakeContext, At, Goto, IInv, TypeOK, MapKnows, NewHasNothing,
    MapOwnsRunning, Runs, mgrVars, envVars, idVars, connVars, lockVars
<1>18. ASSUME NEW o \in Obj, Subscribe(o) PROVE MapOwnsRunning'
 BY <1>18 DEF Subscribe, At, Goto, IInv, TypeOK, MapKnows, NewHasNothing,
    MapOwnsRunning, Runs, mgrVars, envVars, idVars, connVars, lockVars
<1>19. ASSUME NEW o \in Obj, SubscribeReturns(o) PROVE MapOwnsRunning'
 BY <1>19 DEF SubscribeReturns, DoConnectReturns, At, Goto, IInv, TypeOK, MapKnows,
    NewHasNothing, MapOwnsRunning, Runs, mgrVars, envVars, idVars, connVars, lockVars
<1>20. ASSUME NEW o \in Obj, AfterUnlock(o) PROVE MapOwnsRunning'
 BY <1>20 DEF AfterUnlock, At, Goto, IInv, TypeOK, MapKnows, NewHasNothing,
    MapOwnsRunning, Runs, mgrVars, envVars, idVars, connVars, lockVars
<1>21. ASSUME NEW o \in Obj, AfterClear(o) PROVE MapOwnsRunning'
 BY <1>21 DEF AfterClear, At, Goto, IInv, TypeOK, MapKnows, NewHasNothing,
    MapOwnsRunning, Runs, mgrVars, envVars, idVars, connVars, lockVars
<1>22. ASSUME NEW o \in Obj, LoseLock(o) PROVE MapOwnsRunning'
 BY <1>22 DEF LoseLock, IInv, TypeOK, MapKnows, NewHasNothing, MapOwnsRunning, Runs,
    mgrVars, envVars, idVars, connVars, lockVars
<1>23. ASSUME NEW o \in Obj, CrashedSession(o) PROVE MapOwnsRunning'
 BY <1>23 DEF CrashedSession, IInv, TypeOK, MapKnows, NewHasNothing, MapOwnsRunning,
    Runs, mgrVars, envVars, idVars, connVars, lockVars
<1>24. CASE UNCHANGED vars
 BY <1>24 DEF vars, mgrVars, envVars, idVars, connVars, lockVars, IInv, TypeOK,
    MapKnows, NewHasNothing, MapOwnsRunning, Runs
<1>25. QED
 BY <1>1, <1>2, <1>3, <1>4, <1>5, <1>6, <1>7, <1>8, <1>9, <1>10, <1>11, <1>12, <1>13,
    <1>14, <1>15, <1>16, <1>17, <1>18, <1>19, <1>20, <1>21, <1>22, <1>23, <1>24 DEF
    Next, Manager, Listener, Goroutine

\* Without faults the lock is taken by Try and given back after doConnect.
LEMMA LockStep == IInv /\ [Next]_vars => LockWhileWorking'
<1> SUFFICES ASSUME IInv, [Next]_vars PROVE LockWhileWorking'
  OBVIOUS
<1>1. ASSUME NEW g \in Gateway, HandleTargetControlMsg(g) PROVE LockWhileWorking'
 BY <1>1 DEF HandleTargetControlMsg, IInv, TypeOK, LockWhileWorking, Working, FlagAt,
    NewHasNothing, UseLock, Runs, mgrVars, envVars, idVars, connVars, lockVars
<1>2. ASSUME NEW g \in Gateway, NEW n \in Name, Disconnect(g, n) PROVE LockWhileWorking'
 BY <1>2 DEF Disconnect, IInv, TypeOK, LockWhileWorking, Working, FlagAt, NewHasNothing,
    UseLock, Runs, mgrVars, envVars, idVars, connVars, lockVars
<1>3. ASSUME NEW g \in Gateway, DisconnectClose(g) PROVE LockWhileWorking'
 BY <1>3 DEF DisconnectClose, Close, IInv, TypeOK, LockWhileWorking, Working, FlagAt,
    NewHasNothing, UseLock, Runs, mgrVars, envVars, idVars, connVars, lockVars
<1>4. ASSUME NEW g \in Gateway, NEW n \in Name, InsertNew(g, n) PROVE LockWhileWorking'
  <2>1. PICK o \in Obj :
           /\ pc[o] = "new"
           /\ connections' = [connections EXCEPT ![g][n] = o]
           /\ owner' = [owner EXCEPT ![o] = g]
           /\ name' = [name EXCEPT ![o] = n]
           /\ target' = [target EXCEPT ![o] = inserting[g][n]]
           /\ pc' = [pc EXCEPT ![o] = "loop"]
    BY <1>4, InsertNewMakes
  <2>2. /\ removing[g] = {} /\ closing[g] = None /\ connections[g][n] = None /\ Runs(g)
        /\ inserting' = [inserting EXCEPT ![g][n] = None]
        /\ inserting[g][n] # None
        /\ UNCHANGED <<removing, closing, resetting, msgs, envVars, stopped, cancel,
                       client, lockVars, slotsFree, slot, crashed, query>>
    BY <1>4 DEF InsertNew, Inserts, Inserted
  <2>3. QED
   BY <2>1, <2>2, NoneAssumption DEF IInv, TypeOK, LockWhileWorking, Working, FlagAt,
        NewHasNothing, UseLock, Runs, mgrVars, envVars, idVars, connVars, lockVars
<1>5. ASSUME NEW g \in Gateway, NEW n \in Name, InsertSame(g, n) PROVE LockWhileWorking'
 BY <1>5 DEF InsertSame, Inserts, Inserted, IInv, TypeOK, LockWhileWorking, Working,
    FlagAt, NewHasNothing, UseLock, Runs, mgrVars, envVars, idVars, connVars, lockVars
<1>6. ASSUME NEW g \in Gateway, NEW n \in Name, InsertChanged(g, n) PROVE LockWhileWorking'
 BY <1>6 DEF InsertChanged, Inserts, Inserted, IInv, TypeOK, LockWhileWorking, Working,
    FlagAt, NewHasNothing, UseLock, Runs, mgrVars, envVars, idVars, connVars, lockVars
<1>7. ASSUME NEW g \in Gateway, Reconnect(g) PROVE LockWhileWorking'
 BY <1>7 DEF Reconnect, Close, IInv, TypeOK, LockWhileWorking, Working, FlagAt,
    NewHasNothing, UseLock, Runs, mgrVars, envVars, idVars, connVars, lockVars
<1>8. ASSUME NEW g \in Gateway, EventDisconnected(g) PROVE LockWhileWorking'
 BY <1>8 DEF EventDisconnected, IInv, TypeOK, LockWhileWorking, Working, FlagAt,
    NewHasNothing, UseLock, Runs, mgrVars, envVars, idVars, connVars, lockVars
<1>9. ASSUME NEW g \in Gateway, NEW o \in Obj, Unlock(g, o) PROVE LockWhileWorking'
 BY <1>9 DEF Unlock, IInv, TypeOK, LockWhileWorking, Working, FlagAt, NewHasNothing,
    UseLock, Runs, mgrVars, envVars, idVars, connVars, lockVars
<1>10. ASSUME NEW g \in Gateway, ZkDown(g) PROVE LockWhileWorking'
 BY <1>10 DEF ZkDown, IInv, TypeOK, LockWhileWorking, Working, FlagAt, NewHasNothing,
    UseLock, Runs, mgrVars, envVars, idVars, connVars, lockVars
<1>11. ASSUME NEW g \in Gateway, ZkUp(g) PROVE LockWhileWorking'
 BY <1>11 DEF ZkUp, IInv, TypeOK, LockWhileWorking, Working, FlagAt, NewHasNothing,
    UseLock, Runs, mgrVars, envVars, idVars, connVars, lockVars
<1>12. ASSUME NEW o \in Obj, LoopRound(o) PROVE LockWhileWorking'
 BY <1>12 DEF LoopRound, At, Goto, IInv, TypeOK, LockWhileWorking, Working, FlagAt,
    NewHasNothing, UseLock, Runs, mgrVars, envVars, idVars, connVars, lockVars
<1>13. ASSUME NEW o \in Obj, LoopEnds(o) PROVE LockWhileWorking'
 BY <1>13 DEF LoopEnds, At, Goto, IInv, TypeOK, LockWhileWorking, Working, FlagAt,
    NewHasNothing, UseLock, Runs, mgrVars, envVars, idVars, connVars, lockVars
<1>14. ASSUME NEW o \in Obj, TryTrue(o) PROVE LockWhileWorking'
 BY <1>14 DEF TryTrue, LockFree, At, Goto, IInv, TypeOK, LockWhileWorking, Working,
    FlagAt, NewHasNothing, UseLock, Runs, mgrVars, envVars, idVars, connVars, lockVars
<1>15. ASSUME NEW o \in Obj, TryFalse(o) PROVE LockWhileWorking'
 BY <1>15 DEF TryFalse, LockFree, At, Goto, IInv, TypeOK, LockWhileWorking, Working,
    FlagAt, NewHasNothing, UseLock, Runs, mgrVars, envVars, idVars, connVars, lockVars
<1>16. ASSUME NEW o \in Obj, PrepareQuery(o) PROVE LockWhileWorking'
  <2>1. CASE target[o] \in BadConfig
   BY <1>16, <2>1 DEF PrepareQuery, DoConnectReturns, At, Goto, IInv, TypeOK,
        LockWhileWorking, Working, FlagAt, NewHasNothing, UseLock, Runs, mgrVars,
        envVars, idVars, connVars, lockVars
  <2>2. CASE target[o] \notin BadConfig
    <3>1. /\ pc[o] = "prep" /\ pc' = [pc EXCEPT ![o] = "context"]
          /\ query' = [query EXCEPT ![o] = TRUE]
          /\ UNCHANGED <<mgrVars, envVars, idVars, connVars, lockVars, slotsFree, slot,
                         crashed>>
      BY <1>16, <2>2 DEF PrepareQuery, At, Goto
    <3>2. QED
     BY <3>1 DEF IInv, TypeOK, LockWhileWorking, Working, FlagAt, NewHasNothing,
          UseLock, Runs, mgrVars, envVars, idVars, connVars, lockVars
  <2>3. QED BY <2>1, <2>2
<1>17. ASSUME NEW o \in Obj, MakeContext(o) PROVE LockWhileWorking'
 BY <1>17 DEF MakeContext, At, Goto, IInv, TypeOK, LockWhileWorking, Working, FlagAt,
    NewHasNothing, UseLock, Runs, mgrVars, envVars, idVars, connVars, lockVars
<1>18. ASSUME NEW o \in Obj, Subscribe(o) PROVE LockWhileWorking'
 BY <1>18 DEF Subscribe, At, Goto, IInv, TypeOK, LockWhileWorking, Working, FlagAt,
    NewHasNothing, UseLock, Runs, mgrVars, envVars, idVars, connVars, lockVars
<1>19. ASSUME NEW o \in Obj, SubscribeReturns(o) PROVE LockWhileWorking'
 BY <1>19 DEF SubscribeReturns, DoConnectReturns, At, Goto, IInv, TypeOK,
    LockWhileWorking, Working, FlagAt, NewHasNothing, UseLock, Runs, mgrVars, envVars,
    idVars, connVars, lockVars
<1>20. ASSUME NEW o \in Obj, AfterUnlock(o) PROVE LockWhileWorking'
 BY <1>20 DEF AfterUnlock, At, Goto, IInv, TypeOK, LockWhileWorking, Working, FlagAt,
    NewHasNothing, UseLock, Runs, mgrVars, envVars, idVars, connVars, lockVars
<1>21. ASSUME NEW o \in Obj, AfterClear(o) PROVE LockWhileWorking'
 BY <1>21 DEF AfterClear, At, Goto, IInv, TypeOK, LockWhileWorking, Working, FlagAt,
    NewHasNothing, UseLock, Runs, mgrVars, envVars, idVars, connVars, lockVars
<1>22. ASSUME NEW o \in Obj, LoseLock(o) PROVE LockWhileWorking'
 BY <1>22 DEF LoseLock, IInv, TypeOK, LockWhileWorking, Working, FlagAt, NewHasNothing,
    UseLock, Runs, mgrVars, envVars, idVars, connVars, lockVars
<1>23. ASSUME NEW o \in Obj, CrashedSession(o) PROVE LockWhileWorking'
 BY <1>23 DEF CrashedSession, IInv, TypeOK, LockWhileWorking, Working, FlagAt,
    NewHasNothing, UseLock, Runs, mgrVars, envVars, idVars, connVars, lockVars
<1>24. CASE UNCHANGED vars
 BY <1>24 DEF vars, mgrVars, envVars, idVars, connVars, lockVars, IInv, TypeOK,
    LockWhileWorking, Working, FlagAt, NewHasNothing, UseLock, Runs
<1>25. QED
 BY <1>1, <1>2, <1>3, <1>4, <1>5, <1>6, <1>7, <1>8, <1>9, <1>10, <1>11, <1>12, <1>13,
    <1>14, <1>15, <1>16, <1>17, <1>18, <1>19, <1>20, <1>21, <1>22, <1>23, <1>24 DEF
    Next, Manager, Listener, Goroutine

\* The slot is taken before Try and kept until the goroutine ends.
LEMMA WorkNeedsSlotStep == IInv /\ [Next]_vars => WorkNeedsSlot'
<1> SUFFICES ASSUME IInv, [Next]_vars PROVE WorkNeedsSlot'
  OBVIOUS
<1>1. ASSUME NEW g \in Gateway, HandleTargetControlMsg(g) PROVE WorkNeedsSlot'
 BY <1>1 DEF HandleTargetControlMsg, IInv, TypeOK, WorkNeedsSlot, FlagAt, Working,
    NewHasNothing, mgrVars, envVars, idVars, connVars, lockVars
<1>2. ASSUME NEW g \in Gateway, NEW n \in Name, Disconnect(g, n) PROVE WorkNeedsSlot'
 BY <1>2 DEF Disconnect, IInv, TypeOK, WorkNeedsSlot, FlagAt, Working, NewHasNothing,
    mgrVars, envVars, idVars, connVars, lockVars
<1>3. ASSUME NEW g \in Gateway, DisconnectClose(g) PROVE WorkNeedsSlot'
 BY <1>3 DEF DisconnectClose, Close, IInv, TypeOK, WorkNeedsSlot, FlagAt, Working,
    NewHasNothing, mgrVars, envVars, idVars, connVars, lockVars
<1>4. ASSUME NEW g \in Gateway, NEW n \in Name, InsertNew(g, n) PROVE WorkNeedsSlot'
 BY <1>4 DEF InsertNew, Inserts, Inserted, Unused, IInv, TypeOK, WorkNeedsSlot, FlagAt,
    Working, NewHasNothing, mgrVars, envVars, idVars, connVars, lockVars
<1>5. ASSUME NEW g \in Gateway, NEW n \in Name, InsertSame(g, n) PROVE WorkNeedsSlot'
 BY <1>5 DEF InsertSame, Inserts, Inserted, IInv, TypeOK, WorkNeedsSlot, FlagAt,
    Working, NewHasNothing, mgrVars, envVars, idVars, connVars, lockVars
<1>6. ASSUME NEW g \in Gateway, NEW n \in Name, InsertChanged(g, n) PROVE WorkNeedsSlot'
 BY <1>6 DEF InsertChanged, Inserts, Inserted, IInv, TypeOK, WorkNeedsSlot, FlagAt,
    Working, NewHasNothing, mgrVars, envVars, idVars, connVars, lockVars
<1>7. ASSUME NEW g \in Gateway, Reconnect(g) PROVE WorkNeedsSlot'
 BY <1>7 DEF Reconnect, Close, IInv, TypeOK, WorkNeedsSlot, FlagAt, Working,
    NewHasNothing, mgrVars, envVars, idVars, connVars, lockVars
<1>8. ASSUME NEW g \in Gateway, EventDisconnected(g) PROVE WorkNeedsSlot'
 BY <1>8 DEF EventDisconnected, IInv, TypeOK, WorkNeedsSlot, FlagAt, Working,
    NewHasNothing, mgrVars, envVars, idVars, connVars, lockVars
<1>9. ASSUME NEW g \in Gateway, NEW o \in Obj, Unlock(g, o) PROVE WorkNeedsSlot'
 BY <1>9 DEF Unlock, IInv, TypeOK, WorkNeedsSlot, FlagAt, Working, NewHasNothing,
    mgrVars, envVars, idVars, connVars, lockVars
<1>10. ASSUME NEW g \in Gateway, ZkDown(g) PROVE WorkNeedsSlot'
 BY <1>10 DEF ZkDown, IInv, TypeOK, WorkNeedsSlot, FlagAt, Working, NewHasNothing,
    mgrVars, envVars, idVars, connVars, lockVars
<1>11. ASSUME NEW g \in Gateway, ZkUp(g) PROVE WorkNeedsSlot'
 BY <1>11 DEF ZkUp, IInv, TypeOK, WorkNeedsSlot, FlagAt, Working, NewHasNothing,
    mgrVars, envVars, idVars, connVars, lockVars
<1>12. ASSUME NEW o \in Obj, LoopRound(o) PROVE WorkNeedsSlot'
 BY <1>12 DEF LoopRound, At, Goto, IInv, TypeOK, WorkNeedsSlot, FlagAt, Working,
    NewHasNothing, mgrVars, envVars, idVars, connVars, lockVars
<1>13. ASSUME NEW o \in Obj, LoopEnds(o) PROVE WorkNeedsSlot'
  <2>1. ~connLock[o] BY <1>13 DEF LoopEnds, At, IInv, FlagAt, Working
  <2>2. /\ pc' = [pc EXCEPT ![o] = "ended"]
        /\ \A k \in Obj \ {o} : slot'[k] = slot[k]
        /\ connLock' = connLock
    BY <1>13 DEF LoopEnds, Goto, IInv, TypeOK, lockVars
  <2>3. QED BY <2>1, <2>2 DEF IInv, TypeOK, WorkNeedsSlot
<1>14. ASSUME NEW o \in Obj, TryTrue(o) PROVE WorkNeedsSlot'
  <2>1. slot[o] BY <1>14 DEF TryTrue, At, IInv, WorkNeedsSlot
  <2>2. /\ pc' = [pc EXCEPT ![o] = "prep"]
        /\ connLock' = [connLock EXCEPT ![o] = TRUE]
        /\ slot' = slot
    BY <1>14 DEF TryTrue, Goto
  <2>3. QED BY <2>1, <2>2 DEF IInv, TypeOK, WorkNeedsSlot
<1>15. ASSUME NEW o \in Obj, TryFalse(o) PROVE WorkNeedsSlot'
 BY <1>15 DEF TryFalse, LockFree, At, Goto, IInv, TypeOK, WorkNeedsSlot, FlagAt,
    Working, NewHasNothing, mgrVars, envVars, idVars, connVars, lockVars
<1>16. ASSUME NEW o \in Obj, PrepareQuery(o) PROVE WorkNeedsSlot'
  <2>1. slot[o] BY <1>16 DEF PrepareQuery, At, IInv, WorkNeedsSlot
  <2>2. /\ \A k \in Obj \ {o} : pc'[k] = pc[k]
        /\ UNCHANGED <<slot, connLock>>
    BY <1>16 DEF PrepareQuery, DoConnectReturns, Goto, IInv, TypeOK, lockVars
  <2>3. QED BY <2>1, <2>2 DEF IInv, WorkNeedsSlot
<1>17. ASSUME NEW o \in Obj, MakeContext(o) PROVE WorkNeedsSlot'
 BY <1>17 DEF MakeContext, At, Goto, IInv, TypeOK, WorkNeedsSlot, FlagAt, Working,
    NewHasNothing, mgrVars, envVars, idVars, connVars, lockVars
<1>18. ASSUME NEW o \in Obj, Subscribe(o) PROVE WorkNeedsSlot'
 BY <1>18 DEF Subscribe, At, Goto, IInv, TypeOK, WorkNeedsSlot, FlagAt, Working,
    NewHasNothing, mgrVars, envVars, idVars, connVars, lockVars
<1>19. ASSUME NEW o \in Obj, SubscribeReturns(o) PROVE WorkNeedsSlot'
 BY <1>19 DEF SubscribeReturns, DoConnectReturns, At, Goto, IInv, TypeOK, WorkNeedsSlot,
    FlagAt, Working, NewHasNothing, mgrVars, envVars, idVars, connVars, lockVars
<1>20. ASSUME NEW o \in Obj, AfterUnlock(o) PROVE WorkNeedsSlot'
 BY <1>20 DEF AfterUnlock, At, Goto, IInv, TypeOK, WorkNeedsSlot, FlagAt, Working,
    NewHasNothing, mgrVars, envVars, idVars, connVars, lockVars
<1>21. ASSUME NEW o \in Obj, AfterClear(o) PROVE WorkNeedsSlot'
 BY <1>21 DEF AfterClear, At, Goto, IInv, TypeOK, WorkNeedsSlot, FlagAt, Working,
    NewHasNothing, mgrVars, envVars, idVars, connVars, lockVars
<1>22. ASSUME NEW o \in Obj, LoseLock(o) PROVE WorkNeedsSlot'
 BY <1>22 DEF LoseLock, IInv, TypeOK, WorkNeedsSlot, FlagAt, Working, NewHasNothing,
    mgrVars, envVars, idVars, connVars, lockVars
<1>23. ASSUME NEW o \in Obj, CrashedSession(o) PROVE WorkNeedsSlot'
 BY <1>23 DEF CrashedSession, IInv, TypeOK, WorkNeedsSlot, FlagAt, Working,
    NewHasNothing, mgrVars, envVars, idVars, connVars, lockVars
<1>24. CASE UNCHANGED vars
 BY <1>24 DEF vars, mgrVars, envVars, idVars, connVars, lockVars, IInv, TypeOK,
    WorkNeedsSlot, FlagAt, Working, NewHasNothing
<1>25. QED
 BY <1>1, <1>2, <1>3, <1>4, <1>5, <1>6, <1>7, <1>8, <1>9, <1>10, <1>11, <1>12, <1>13,
    <1>14, <1>15, <1>16, <1>17, <1>18, <1>19, <1>20, <1>21, <1>22, <1>23, <1>24 DEF
    Next, Manager, Listener, Goroutine

\* Every event is a fault that has been counted.
LEMMA EventsStep == IInv /\ [Next]_vars => EventsCounted'
<1> SUFFICES ASSUME IInv, [Next]_vars PROVE EventsCounted'
  OBVIOUS
<1>1. ASSUME NEW g \in Gateway, HandleTargetControlMsg(g) PROVE EventsCounted'
 BY <1>1 DEF HandleTargetControlMsg, IInv, TypeOK, EventsCounted, mgrVars, envVars,
    idVars, connVars, lockVars
<1>2. ASSUME NEW g \in Gateway, NEW n \in Name, Disconnect(g, n) PROVE EventsCounted'
 BY <1>2 DEF Disconnect, IInv, TypeOK, EventsCounted, mgrVars, envVars, idVars,
    connVars, lockVars
<1>3. ASSUME NEW g \in Gateway, DisconnectClose(g) PROVE EventsCounted'
 BY <1>3 DEF DisconnectClose, Close, IInv, TypeOK, EventsCounted, mgrVars, envVars,
    idVars, connVars, lockVars
<1>4. ASSUME NEW g \in Gateway, NEW n \in Name, InsertNew(g, n) PROVE EventsCounted'
 BY <1>4 DEF InsertNew, Inserts, Inserted, Unused, IInv, TypeOK, EventsCounted, mgrVars,
    envVars, idVars, connVars, lockVars
<1>5. ASSUME NEW g \in Gateway, NEW n \in Name, InsertSame(g, n) PROVE EventsCounted'
 BY <1>5 DEF InsertSame, Inserts, Inserted, IInv, TypeOK, EventsCounted, mgrVars,
    envVars, idVars, connVars, lockVars
<1>6. ASSUME NEW g \in Gateway, NEW n \in Name, InsertChanged(g, n) PROVE EventsCounted'
 BY <1>6 DEF InsertChanged, Inserts, Inserted, IInv, TypeOK, EventsCounted, mgrVars,
    envVars, idVars, connVars, lockVars
<1>7. ASSUME NEW g \in Gateway, Reconnect(g) PROVE EventsCounted'
 BY <1>7 DEF Reconnect, Close, IInv, TypeOK, EventsCounted, mgrVars, envVars, idVars,
    connVars, lockVars
<1>8. ASSUME NEW g \in Gateway, EventDisconnected(g) PROVE EventsCounted'
 BY <1>8 DEF EventDisconnected, IInv, TypeOK, EventsCounted, mgrVars, envVars, idVars,
    connVars, lockVars
<1>9. ASSUME NEW g \in Gateway, NEW o \in Obj, Unlock(g, o) PROVE EventsCounted'
 BY <1>9 DEF Unlock, IInv, TypeOK, EventsCounted, mgrVars, envVars, idVars, connVars,
    lockVars
<1>10. ASSUME NEW g \in Gateway, ZkDown(g) PROVE EventsCounted'
 BY <1>10, LimitAssumption DEF ZkDown, IInv, TypeOK, EventsCounted, mgrVars, envVars,
    idVars, connVars, lockVars
<1>11. ASSUME NEW g \in Gateway, ZkUp(g) PROVE EventsCounted'
 BY <1>11 DEF ZkUp, IInv, TypeOK, EventsCounted, mgrVars, envVars, idVars, connVars,
    lockVars
<1>12. ASSUME NEW o \in Obj, LoopRound(o) PROVE EventsCounted'
 BY <1>12 DEF LoopRound, At, Goto, IInv, TypeOK, EventsCounted, mgrVars, envVars,
    idVars, connVars, lockVars
<1>13. ASSUME NEW o \in Obj, LoopEnds(o) PROVE EventsCounted'
 BY <1>13 DEF LoopEnds, At, Goto, IInv, TypeOK, EventsCounted, mgrVars, envVars, idVars,
    connVars, lockVars
<1>14. ASSUME NEW o \in Obj, TryTrue(o) PROVE EventsCounted'
 BY <1>14 DEF TryTrue, LockFree, At, Goto, IInv, TypeOK, EventsCounted, mgrVars,
    envVars, idVars, connVars, lockVars
<1>15. ASSUME NEW o \in Obj, TryFalse(o) PROVE EventsCounted'
 BY <1>15 DEF TryFalse, LockFree, At, Goto, IInv, TypeOK, EventsCounted, mgrVars,
    envVars, idVars, connVars, lockVars
<1>16. ASSUME NEW o \in Obj, PrepareQuery(o) PROVE EventsCounted'
 BY <1>16 DEF PrepareQuery, DoConnectReturns, At, Goto, IInv, TypeOK, EventsCounted,
    mgrVars, envVars, idVars, connVars, lockVars
<1>17. ASSUME NEW o \in Obj, MakeContext(o) PROVE EventsCounted'
 BY <1>17 DEF MakeContext, At, Goto, IInv, TypeOK, EventsCounted, mgrVars, envVars,
    idVars, connVars, lockVars
<1>18. ASSUME NEW o \in Obj, Subscribe(o) PROVE EventsCounted'
 BY <1>18 DEF Subscribe, At, Goto, IInv, TypeOK, EventsCounted, mgrVars, envVars,
    idVars, connVars, lockVars
<1>19. ASSUME NEW o \in Obj, SubscribeReturns(o) PROVE EventsCounted'
 BY <1>19 DEF SubscribeReturns, DoConnectReturns, At, Goto, IInv, TypeOK, EventsCounted,
    mgrVars, envVars, idVars, connVars, lockVars
<1>20. ASSUME NEW o \in Obj, AfterUnlock(o) PROVE EventsCounted'
 BY <1>20 DEF AfterUnlock, At, Goto, IInv, TypeOK, EventsCounted, mgrVars, envVars,
    idVars, connVars, lockVars
<1>21. ASSUME NEW o \in Obj, AfterClear(o) PROVE EventsCounted'
 BY <1>21 DEF AfterClear, At, Goto, IInv, TypeOK, EventsCounted, mgrVars, envVars,
    idVars, connVars, lockVars
<1>22. ASSUME NEW o \in Obj, LoseLock(o) PROVE EventsCounted'
 BY <1>22 DEF LoseLock, IInv, TypeOK, EventsCounted, mgrVars, envVars, idVars, connVars,
    lockVars
<1>23. ASSUME NEW o \in Obj, CrashedSession(o) PROVE EventsCounted'
 BY <1>23 DEF CrashedSession, IInv, TypeOK, EventsCounted, mgrVars, envVars, idVars,
    connVars, lockVars
<1>24. CASE UNCHANGED vars
 BY <1>24 DEF vars, mgrVars, envVars, idVars, connVars, lockVars, IInv, TypeOK,
    EventsCounted
<1>25. QED
 BY <1>1, <1>2, <1>3, <1>4, <1>5, <1>6, <1>7, <1>8, <1>9, <1>10, <1>11, <1>12, <1>13,
    <1>14, <1>15, <1>16, <1>17, <1>18, <1>19, <1>20, <1>21, <1>22, <1>23, <1>24 DEF
    Next, Manager, Listener, Goroutine

\* A slot changes hands in LoopRound and LoopEnds, by one in each.
LEMMA SlotsStep == IInv /\ [Next]_vars => SlotsAccounted'
<1> SUFFICES ASSUME IInv, [Next]_vars PROVE SlotsAccounted'
  OBVIOUS
<1>1. ASSUME NEW g \in Gateway, HandleTargetControlMsg(g) PROVE SlotsAccounted'
 BY <1>1 DEF HandleTargetControlMsg, IInv, SlotsAccounted, mgrVars, envVars, idVars,
    connVars, lockVars
<1>2. ASSUME NEW g \in Gateway, NEW n \in Name, Disconnect(g, n) PROVE SlotsAccounted'
 BY <1>2 DEF Disconnect, IInv, SlotsAccounted, mgrVars, envVars, idVars, connVars,
    lockVars
<1>3. ASSUME NEW g \in Gateway, DisconnectClose(g) PROVE SlotsAccounted'
 BY <1>3 DEF DisconnectClose, Close, IInv, SlotsAccounted, mgrVars, envVars, idVars,
    connVars, lockVars
<1>4. ASSUME NEW g \in Gateway, NEW n \in Name, InsertNew(g, n) PROVE SlotsAccounted'
  <2>1. PICK o \in Obj : pc[o] = "new" /\ owner' = [owner EXCEPT ![o] = g]
    BY <1>4, InsertNewMakes
  <2>2. UNCHANGED <<slot, slotsFree>> BY <1>4 DEF InsertNew
  <2>3. \A h \in Gateway : Held(h)' = Held(h)
    BY <2>1, <2>2 DEF Held, IInv, TypeOK, NewHasNothing
  <2>4. QED BY <2>2, <2>3 DEF IInv, SlotsAccounted, Held
<1>5. ASSUME NEW g \in Gateway, NEW n \in Name, InsertSame(g, n) PROVE SlotsAccounted'
 BY <1>5 DEF InsertSame, Inserts, Inserted, IInv, SlotsAccounted, mgrVars, envVars,
    idVars, connVars, lockVars
<1>6. ASSUME NEW g \in Gateway, NEW n \in Name, InsertChanged(g, n) PROVE SlotsAccounted'
 BY <1>6 DEF InsertChanged, Inserts, Inserted, IInv, SlotsAccounted, mgrVars, envVars,
    idVars, connVars, lockVars
<1>7. ASSUME NEW g \in Gateway, Reconnect(g) PROVE SlotsAccounted'
 BY <1>7 DEF Reconnect, Close, IInv, SlotsAccounted, mgrVars, envVars, idVars, connVars,
    lockVars
<1>8. ASSUME NEW g \in Gateway, EventDisconnected(g) PROVE SlotsAccounted'
 BY <1>8 DEF EventDisconnected, IInv, SlotsAccounted, mgrVars, envVars, idVars,
    connVars, lockVars
<1>9. ASSUME NEW g \in Gateway, NEW o \in Obj, Unlock(g, o) PROVE SlotsAccounted'
 BY <1>9 DEF Unlock, IInv, SlotsAccounted, mgrVars, envVars, idVars, connVars, lockVars
<1>10. ASSUME NEW g \in Gateway, ZkDown(g) PROVE SlotsAccounted'
 BY <1>10 DEF ZkDown, IInv, SlotsAccounted, mgrVars, envVars, idVars, connVars, lockVars
<1>11. ASSUME NEW g \in Gateway, ZkUp(g) PROVE SlotsAccounted'
 BY <1>11 DEF ZkUp, IInv, SlotsAccounted, mgrVars, envVars, idVars, connVars, lockVars
<1>12. ASSUME NEW o \in Obj, LoopRound(o) PROVE SlotsAccounted'
  <2>1. UNCHANGED owner BY <1>12 DEF LoopRound, idVars
  <2>2. CASE slot[o]
    BY <1>12, <2>1, <2>2 DEF LoopRound, IInv, SlotsAccounted
  <2>3. CASE ~slot[o]
    <3>1. /\ slot' = [slot EXCEPT ![o] = TRUE] /\ slotsFree[owner[o]] > 0
          /\ slotsFree' = [slotsFree EXCEPT ![owner[o]] = @ - 1]
      BY <1>12, <2>3 DEF LoopRound
    <3>2. owner[o] \in Gateway
      BY <1>12 DEF LoopRound, At, IInv, TypeOK, NewHasNothing
    <3>3. /\ Held(owner[o])' = Held(owner[o]) \cup {o} /\ o \notin Held(owner[o])
          /\ \A g \in Gateway \ {owner[o]} : Held(g)' = Held(g)
      BY <2>1, <2>3, <3>1 DEF Held, IInv, TypeOK
    <3>4. Cardinality(Held(owner[o])') = Cardinality(Held(owner[o])) + 1
      BY <3>2, <3>3, HeldIsFinite, FS_AddElement
    <3>5. slotsFree[owner[o]] \in Nat /\ slotsFree'[owner[o]] = slotsFree[owner[o]] - 1
      BY <3>1, <3>2, LimitAssumption DEF IInv, TypeOK
    <3>6. ASSUME NEW g \in Gateway
          PROVE  slotsFree'[g] + Cardinality(Held(g)') = TargetLimit
      <4>1. slotsFree[g] + Cardinality(Held(g)) = TargetLimit
        BY DEF IInv, SlotsAccounted, Held
      <4>2. CASE g = owner[o]
        BY <2>1, <3>2, <3>4, <3>5, <4>1, <4>2, HeldIsFinite
      <4>3. CASE g # owner[o]
        BY <3>1, <3>3, <4>1, <4>3 DEF IInv, TypeOK
      <4>4. QED BY <4>2, <4>3
    <3>7. QED BY <3>6 DEF SlotsAccounted, Held
  <2>4. QED BY <2>2, <2>3
<1>13. ASSUME NEW o \in Obj, LoopEnds(o) PROVE SlotsAccounted'
  <2>1. UNCHANGED owner BY <1>13 DEF LoopEnds, idVars
  <2>2. owner[o] \in Gateway
    BY <1>13 DEF LoopEnds, At, IInv, TypeOK, NewHasNothing
  <2>3. slot' = [slot EXCEPT ![o] = FALSE] BY <1>13 DEF LoopEnds
  <2>4. CASE ~slot[o]
    <3>1. slot' = slot /\ slotsFree' = slotsFree
      BY <1>13, <2>3, <2>4 DEF LoopEnds, IInv, TypeOK
    <3>2. QED BY <2>1, <3>1 DEF IInv, SlotsAccounted
  <2>5. CASE slot[o]
    <3>1. slotsFree' = [slotsFree EXCEPT ![owner[o]] = @ + 1]
      BY <1>13, <2>5 DEF LoopEnds
    <3>2. /\ Held(owner[o])' = Held(owner[o]) \ {o} /\ o \in Held(owner[o])
          /\ \A g \in Gateway \ {owner[o]} : Held(g)' = Held(g)
      BY <2>1, <2>3, <2>5 DEF Held, IInv, TypeOK
    <3>3. Cardinality(Held(owner[o])') = Cardinality(Held(owner[o])) - 1
      BY <2>2, <3>2, HeldIsFinite, FS_RemoveElement
    <3>4. slotsFree[owner[o]] \in Nat /\ slotsFree'[owner[o]] = slotsFree[owner[o]] + 1
      BY <2>2, <3>1, LimitAssumption DEF IInv, TypeOK
    <3>5. ASSUME NEW g \in Gateway
          PROVE  slotsFree'[g] + Cardinality(Held(g)') = TargetLimit
      <4>1. slotsFree[g] + Cardinality(Held(g)) = TargetLimit
        BY DEF IInv, SlotsAccounted, Held
      <4>2. CASE g = owner[o]
        BY <2>1, <2>2, <3>3, <3>4, <4>1, <4>2, HeldIsFinite
      <4>3. CASE g # owner[o]
        BY <3>1, <3>2, <4>1, <4>3 DEF IInv, TypeOK
      <4>4. QED BY <4>2, <4>3
    <3>6. QED BY <3>5 DEF SlotsAccounted, Held
  <2>6. QED BY <2>4, <2>5
<1>14. ASSUME NEW o \in Obj, TryTrue(o) PROVE SlotsAccounted'
 BY <1>14 DEF TryTrue, LockFree, At, Goto, IInv, SlotsAccounted, mgrVars, envVars,
    idVars, connVars, lockVars
<1>15. ASSUME NEW o \in Obj, TryFalse(o) PROVE SlotsAccounted'
 BY <1>15 DEF TryFalse, LockFree, At, Goto, IInv, SlotsAccounted, mgrVars, envVars,
    idVars, connVars, lockVars
<1>16. ASSUME NEW o \in Obj, PrepareQuery(o) PROVE SlotsAccounted'
 BY <1>16 DEF PrepareQuery, DoConnectReturns, At, Goto, IInv, SlotsAccounted, mgrVars,
    envVars, idVars, connVars, lockVars
<1>17. ASSUME NEW o \in Obj, MakeContext(o) PROVE SlotsAccounted'
 BY <1>17 DEF MakeContext, At, Goto, IInv, SlotsAccounted, mgrVars, envVars, idVars,
    connVars, lockVars
<1>18. ASSUME NEW o \in Obj, Subscribe(o) PROVE SlotsAccounted'
 BY <1>18 DEF Subscribe, At, Goto, IInv, SlotsAccounted, mgrVars, envVars, idVars,
    connVars, lockVars
<1>19. ASSUME NEW o \in Obj, SubscribeReturns(o) PROVE SlotsAccounted'
 BY <1>19 DEF SubscribeReturns, DoConnectReturns, At, Goto, IInv, SlotsAccounted,
    mgrVars, envVars, idVars, connVars, lockVars
<1>20. ASSUME NEW o \in Obj, AfterUnlock(o) PROVE SlotsAccounted'
 BY <1>20 DEF AfterUnlock, At, Goto, IInv, SlotsAccounted, mgrVars, envVars, idVars,
    connVars, lockVars
<1>21. ASSUME NEW o \in Obj, AfterClear(o) PROVE SlotsAccounted'
 BY <1>21 DEF AfterClear, At, Goto, IInv, SlotsAccounted, mgrVars, envVars, idVars,
    connVars, lockVars
<1>22. ASSUME NEW o \in Obj, LoseLock(o) PROVE SlotsAccounted'
 BY <1>22 DEF LoseLock, IInv, SlotsAccounted, mgrVars, envVars, idVars, connVars,
    lockVars
<1>23. ASSUME NEW o \in Obj, CrashedSession(o) PROVE SlotsAccounted'
 BY <1>23 DEF CrashedSession, IInv, SlotsAccounted, mgrVars, envVars, idVars, connVars,
    lockVars
<1>24. CASE UNCHANGED vars
 BY <1>24 DEF vars, mgrVars, envVars, idVars, connVars, lockVars, IInv, SlotsAccounted
<1>25. QED
 BY <1>1, <1>2, <1>3, <1>4, <1>5, <1>6, <1>7, <1>8, <1>9, <1>10, <1>11, <1>12, <1>13,
    <1>14, <1>15, <1>16, <1>17, <1>18, <1>19, <1>20, <1>21, <1>22, <1>23, <1>24 DEF
    Next, Manager, Listener, Goroutine

\* The types, with the bounds of the counters.
LEMMA TypeStep == IInv /\ [Next]_vars => TypeOK'
<1> SUFFICES ASSUME IInv, [Next]_vars PROVE TypeOK'
  OBVIOUS
<1>1. ASSUME NEW g \in Gateway, HandleTargetControlMsg(g) PROVE TypeOK'
 BY <1>1, LimitAssumption DEF HandleTargetControlMsg, PC, IInv, TypeOK, mgrVars,
    envVars, idVars, connVars, lockVars
<1>2. ASSUME NEW g \in Gateway, NEW n \in Name, Disconnect(g, n) PROVE TypeOK'
  <2>1. connections[g][n] \in Obj \cup {None} BY DEF IInv, TypeOK
  <2>2. stopped' \in [Obj -> BOOLEAN] /\ closing' \in [Gateway -> Obj \cup {None}]
    BY <1>2, <2>1 DEF Disconnect, IInv, TypeOK
  <2>3. QED
   BY <1>2, <2>2 DEF Disconnect, PC, IInv, TypeOK, envVars, idVars, lockVars
<1>3. ASSUME NEW g \in Gateway, DisconnectClose(g) PROVE TypeOK'
  <2>1. client' \in [Obj -> {"nil", "open", "closed"}]
    BY <1>3 DEF DisconnectClose, Close, IInv, TypeOK
  <2>2. crashed' \in [Gateway -> {"no", "remove", "update", "zookeeper"}]
    BY <1>3 DEF DisconnectClose, Close, IInv, TypeOK
  <2>3. removing' \in [Gateway -> SUBSET Name]
    BY <1>3 DEF DisconnectClose, IInv, TypeOK
  <2>4. /\ connections' \in [Gateway -> [Name -> Obj \cup {None}]]
        /\ closing' \in [Gateway -> Obj \cup {None}]
    BY <1>3 DEF DisconnectClose, IInv, TypeOK
  <2>5. QED
   BY <1>3, <2>1, <2>2, <2>3, <2>4 DEF DisconnectClose, IInv, TypeOK, envVars, idVars,
      lockVars
<1>4. ASSUME NEW g \in Gateway, NEW n \in Name, InsertNew(g, n) PROVE TypeOK'
  <2>1. PICK o \in Obj :
           /\ pc[o] = "new"
           /\ connections' = [connections EXCEPT ![g][n] = o]
           /\ owner' = [owner EXCEPT ![o] = g]
           /\ name' = [name EXCEPT ![o] = n]
           /\ target' = [target EXCEPT ![o] = inserting[g][n]]
           /\ pc' = [pc EXCEPT ![o] = "loop"]
    BY <1>4, InsertNewMakes
  <2>2. /\ removing[g] = {} /\ closing[g] = None /\ connections[g][n] = None /\ Runs(g)
        /\ inserting' = [inserting EXCEPT ![g][n] = None]
        /\ inserting[g][n] # None
        /\ UNCHANGED <<removing, closing, resetting, msgs, envVars, stopped, cancel,
                       client, lockVars, slotsFree, slot, crashed, query>>
    BY <1>4 DEF InsertNew, Inserts, Inserted
  <2>3. QED
   BY <2>1, <2>2, NoneAssumption DEF IInv, TypeOK, PC, mgrVars, envVars, idVars,
        connVars, lockVars
<1>5. ASSUME NEW g \in Gateway, NEW n \in Name, InsertSame(g, n) PROVE TypeOK'
 BY <1>5 DEF InsertSame, Inserts, Inserted, PC, IInv, TypeOK, mgrVars, envVars, idVars,
    connVars, lockVars
<1>6. ASSUME NEW g \in Gateway, NEW n \in Name, InsertChanged(g, n) PROVE TypeOK'
  <2>1. connections[g][n] \in Obj \cup {None} /\ inserting[g][n] \in Config \cup {None}
    BY DEF IInv, TypeOK
  <2>2. target' \in [Obj -> Config \cup {None}]
    BY <1>6, <2>1 DEF InsertChanged, IInv, TypeOK
  <2>3. closing' \in [Gateway -> Obj \cup {None}]
    BY <1>6, <2>1 DEF InsertChanged, IInv, TypeOK
  <2>4. inserting' \in [Gateway -> [Name -> Config \cup {None}]]
    BY <1>6 DEF InsertChanged, Inserted, IInv, TypeOK
  <2>5. QED
   BY <1>6, <2>2, <2>3, <2>4 DEF InsertChanged, IInv, TypeOK, envVars, idVars, lockVars
<1>7. ASSUME NEW g \in Gateway, Reconnect(g) PROVE TypeOK'
  <2>1. client' \in [Obj -> {"nil", "open", "closed"}]
    BY <1>7 DEF Reconnect, Close, IInv, TypeOK
  <2>2. crashed' \in [Gateway -> {"no", "remove", "update", "zookeeper"}]
    BY <1>7 DEF Reconnect, Close, IInv, TypeOK
  <2>3. closing' \in [Gateway -> Obj \cup {None}] BY <1>7 DEF Reconnect, IInv, TypeOK
  <2>4. QED
   BY <1>7, <2>1, <2>2, <2>3 DEF Reconnect, IInv, TypeOK, envVars, idVars, lockVars
<1>8. ASSUME NEW g \in Gateway, EventDisconnected(g) PROVE TypeOK'
  <2>1. {connections[g][n] : n \in Locked} \ {None} \subseteq Obj
    BY NamesAssumption DEF IInv, TypeOK
  <2>2. resetting' \in [Gateway -> SUBSET Obj]
    BY <1>8, <2>1 DEF EventDisconnected, IInv, TypeOK
  <2>3. events' \in [Gateway -> 0 .. MaxFaults]
    BY <1>8, LimitAssumption DEF EventDisconnected, IInv, TypeOK
  <2>4. QED
   BY <1>8, <2>2, <2>3 DEF EventDisconnected, PC, IInv, TypeOK, idVars, connVars,
      lockVars
<1>9. ASSUME NEW g \in Gateway, NEW o \in Obj, Unlock(g, o) PROVE TypeOK'
  <2>1. resetting' \in [Gateway -> SUBSET Obj] BY <1>9 DEF Unlock, IInv, TypeOK
  <2>2. crashed' \in [Gateway -> {"no", "remove", "update", "zookeeper"}]
    BY <1>9 DEF Unlock, IInv, TypeOK
  <2>3. cancel' \in [Obj -> {"nil", "live", "cancelled"}] BY <1>9 DEF Unlock, IInv, TypeOK
  <2>4. QED
   BY <1>9, <2>1, <2>2, <2>3 DEF Unlock, IInv, TypeOK, envVars, idVars, lockVars
<1>10. ASSUME NEW g \in Gateway, ZkDown(g) PROVE TypeOK'
  <2>1. events[g] + 1 <= MaxFaults /\ faults + 1 <= MaxFaults
    BY <1>10, LimitAssumption DEF ZkDown, IInv, TypeOK, EventsCounted
  <2>2. QED
   BY <1>10, <2>1, LimitAssumption DEF ZkDown, PC, IInv, TypeOK, mgrVars, envVars,
        idVars, connVars, lockVars
<1>11. ASSUME NEW g \in Gateway, ZkUp(g) PROVE TypeOK'
 BY <1>11 DEF ZkUp, PC, IInv, TypeOK, mgrVars, envVars, idVars, connVars, lockVars
<1>12. ASSUME NEW o \in Obj, LoopRound(o) PROVE TypeOK'
  <2>1. owner[o] \in Gateway
    BY <1>12 DEF LoopRound, At, IInv, TypeOK, NewHasNothing
  <2>2. slotsFree' \in [Gateway -> 0 .. TargetLimit]
    <3>1. slotsFree[owner[o]] \in 0 .. TargetLimit BY <2>1 DEF IInv, TypeOK
    <3>2. \/ slotsFree' = slotsFree
          \/ /\ slotsFree[owner[o]] > 0
             /\ slotsFree' = [slotsFree EXCEPT ![owner[o]] = @ - 1]
      BY <1>12 DEF LoopRound
    <3>3. slotsFree[owner[o]] > 0 => slotsFree[owner[o]] - 1 \in 0 .. TargetLimit
      BY <3>1, LimitAssumption
    <3>4. slotsFree \in [Gateway -> 0 .. TargetLimit] BY DEF IInv, TypeOK
    <3>5. QED BY <2>1, <3>2, <3>3, <3>4
  <2>3. pc' \in [Obj -> PC]
    <3>1. pc' = [pc EXCEPT ![o] = "try"] \/ pc' = [pc EXCEPT ![o] = "prep"]
      BY <1>12 DEF LoopRound, Goto
    <3>2. QED BY <3>1 DEF PC, IInv, TypeOK
  <2>4. slot' \in [Obj -> BOOLEAN] BY <1>12 DEF LoopRound, IInv, TypeOK
  <2>5. QED
   BY <1>12, <2>2, <2>3, <2>4 DEF LoopRound, PC, IInv, TypeOK, mgrVars, envVars, idVars,
      connVars, lockVars
<1>13. ASSUME NEW o \in Obj, LoopEnds(o) PROVE TypeOK'
  <2>1. owner[o] \in Gateway
    BY <1>13 DEF LoopEnds, At, IInv, TypeOK, NewHasNothing
  <2>2. slotsFree' \in [Gateway -> 0 .. TargetLimit]
    BY <1>13, <2>1, SlotInUse, LimitAssumption DEF LoopEnds, IInv, TypeOK
  <2>3. QED
   BY <1>13, <2>2 DEF LoopEnds, At, Goto, PC, PC, IInv, TypeOK, mgrVars, envVars,
        idVars, connVars, lockVars
<1>14. ASSUME NEW o \in Obj, TryTrue(o) PROVE TypeOK'
 BY <1>14 DEF TryTrue, LockFree, At, Goto, PC, IInv, TypeOK, mgrVars, envVars, idVars,
    connVars, lockVars
<1>15. ASSUME NEW o \in Obj, TryFalse(o) PROVE TypeOK'
 BY <1>15 DEF TryFalse, LockFree, At, Goto, PC, IInv, TypeOK, mgrVars, envVars, idVars,
    connVars, lockVars
<1>16. ASSUME NEW o \in Obj, PrepareQuery(o) PROVE TypeOK'
  <2>1. pc' \in [Obj -> PC]
    BY <1>16 DEF PrepareQuery, DoConnectReturns, Goto, PC, IInv, TypeOK
  <2>2. query' \in [Obj -> BOOLEAN]
    BY <1>16 DEF PrepareQuery, IInv, TypeOK
  <2>3. QED
   BY <1>16, <2>1, <2>2 DEF PrepareQuery, IInv, TypeOK, mgrVars, envVars, idVars,
      connVars, lockVars, PC
<1>17. ASSUME NEW o \in Obj, MakeContext(o) PROVE TypeOK'
 BY <1>17 DEF MakeContext, At, Goto, PC, IInv, TypeOK, mgrVars, envVars, idVars,
    connVars, lockVars
<1>18. ASSUME NEW o \in Obj, Subscribe(o) PROVE TypeOK'
 BY <1>18 DEF Subscribe, At, Goto, PC, IInv, TypeOK, mgrVars, envVars, idVars, connVars,
    lockVars
<1>19. ASSUME NEW o \in Obj, SubscribeReturns(o) PROVE TypeOK'
 BY <1>19 DEF SubscribeReturns, DoConnectReturns, At, Goto, PC, IInv, TypeOK, mgrVars,
    envVars, idVars, connVars, lockVars
<1>20. ASSUME NEW o \in Obj, AfterUnlock(o) PROVE TypeOK'
 BY <1>20 DEF AfterUnlock, At, Goto, PC, IInv, TypeOK, mgrVars, envVars, idVars,
    connVars, lockVars
<1>21. ASSUME NEW o \in Obj, AfterClear(o) PROVE TypeOK'
 BY <1>21 DEF AfterClear, At, Goto, PC, IInv, TypeOK, mgrVars, envVars, idVars,
    connVars, lockVars
<1>22. ASSUME NEW o \in Obj, LoseLock(o) PROVE TypeOK'
 BY <1>22, LimitAssumption DEF LoseLock, PC, IInv, TypeOK, mgrVars, envVars, idVars,
    connVars, lockVars
<1>23. ASSUME NEW o \in Obj, CrashedSession(o) PROVE TypeOK'
 BY <1>23 DEF CrashedSession, PC, IInv, TypeOK, mgrVars, envVars, idVars, connVars,
    lockVars
<1>24. CASE UNCHANGED vars
 BY <1>24 DEF vars, mgrVars, envVars, idVars, connVars, lockVars, PC, IInv, TypeOK
<1>25. QED
 BY <1>1, <1>2, <1>3, <1>4, <1>5, <1>6, <1>7, <1>8, <1>9, <1>10, <1>11, <1>12, <1>13,
    <1>14, <1>15, <1>16, <1>17, <1>18, <1>19, <1>20, <1>21, <1>22, <1>23, <1>24 DEF
    Next, Manager, Listener, Goroutine

-----------------------------------------------------------------------------
\* Initially no ConnectionState has been made.
LEMMA InitIInv == Init => IInv
<1> SUFFICES ASSUME Init PROVE IInv
  OBVIOUS
<1>1. TypeOK BY LimitAssumption, NamesAssumption DEF Init, TypeOK, Nothing, PC
<1>2. SlotsAccounted
  <2>1. \A g \in Gateway : Held(g) = {} BY DEF Init, Held
  <2>2. \A g \in Gateway : Cardinality(Held(g)) = 0 BY <2>1, FS_EmptySet
  <2>3. \A g \in Gateway : slotsFree[g] + Cardinality(Held(g)) = TargetLimit
    BY <2>2, LimitAssumption DEF Init
  <2>4. QED BY <2>3 DEF SlotsAccounted, Held
<1>3. MapKnows BY DEF Init, MapKnows, Nothing
<1>4. WorkNeedsSlot /\ MapOwnsRunning /\ NewHasNothing
  BY DEF Init, WorkNeedsSlot, MapOwnsRunning, NewHasNothing
<1>5. FlagAt /\ EventsCounted BY DEF Init, FlagAt, EventsCounted, Working
<1>6. LockWhileWorking BY DEF Init, LockWhileWorking
<1>7. QED BY <1>1, <1>2, <1>3, <1>4, <1>5, <1>6 DEF IInv

\* The strengthening is inductive: it holds in every reachable state.
THEOREM Invariant == Spec => []IInv
<1>1. IInv /\ [Next]_vars => IInv'
  BY NewHasNothingStep, FlagAtStep, MapKnowsStep, MapOwnsStep, LockStep,
     WorkNeedsSlotStep, EventsStep, SlotsStep, TypeStep DEF IInv
<1>2. QED BY InitIInv, <1>1, PTL DEF Spec

\* The variables keep their types, and the counters their bounds.
THEOREM TypeCorrect == Spec => []TypeOK
<1>1. IInv => TypeOK BY DEF IInv
<1>2. QED BY Invariant, <1>1, PTL

\* Every slot is free or held by exactly one goroutine (state.go:218-273).
THEOREM SlotsSafe == Spec => []SlotsAccounted
<1>1. IInv => SlotsAccounted BY DEF IInv
<1>2. QED BY Invariant, <1>1, PTL

\* What is in the map runs, and what runs is in the map (zookeeper.go:129-181).
THEOREM MapSafe == Spec => []MapOwnsRunning
<1>1. IInv => MapOwnsRunning BY DEF IInv
<1>2. QED BY Invariant, <1>1, PTL

\* No goroutine without a slot works, lets its gateway forward or, without faults,
\* keeps a lock (state.go:235-272).
THEOREM LockSafe == Spec => []LockNeedsSlot
<1>1. IInv => LockNeedsSlot
  BY DEF IInv, LockNeedsSlot, LockWhileWorking, WorkNeedsSlot, Working
<1>2. QED BY Invariant, <1>1, PTL

\* Without faults, a locked target has one subscription (state.go:252-265).
THEOREM SubscriptionSafe == Spec => []SingleSubscription
<1>1. IInv => SingleSubscription
  <2> SUFFICES ASSUME IInv, faults = 0, NEW o1 \in Obj, NEW o2 \in Obj,
                      At(o1, "subscribed"), At(o2, "subscribed"),
                      name[o1] = name[o2], UseLock(o1)
               PROVE  o1 = o2
    BY DEF SingleSubscription
  <2>1. UseLock(o2) BY DEF UseLock
  <2>2. lock[o1] = "held" /\ lock[o2] = "held"
    BY <2>1 DEF IInv, LockWhileWorking, Working, At
  <2>3. QED BY <2>2 DEF IInv, LockWhileWorking
<1>2. QED BY Invariant, <1>1, PTL

\* What a subscription receives is forwarded by its gateway, and without faults by
\* no other that still works on the target (zookeeper.go:83-105, state.go:247-262).
THEOREM ForwardSafe == Spec => []SubscriberForwards
<1>1. IInv => SubscriberForwards
  <2> SUFFICES ASSUME IInv, NEW o \in Obj, At(o, "subscribed")
               PROVE  /\ connections[owner[o]][name[o]] = o /\ MutexFree(owner[o]) =>
                           Forwardable(owner[o], name[o])
                      /\ faults = 0 /\ UseLock(o) =>
                           \A g \in Gateway \ {owner[o]} : Forwardable(g, name[o]) =>
                              pc[connections[g][name[o]]] = "clear"
    BY DEF SubscriberForwards
  <2>1. /\ owner[o] \in Gateway /\ name[o] \in Name /\ Runs(owner[o]) /\ o # None
        /\ pc[o] = "subscribed" /\ query[o] /\ (UseLock(o) => connLock[o])
    BY NoneAssumption DEF IInv, TypeOK, NewHasNothing, FlagAt, At, Working
  <2>2. ASSUME connections[owner[o]][name[o]] = o, MutexFree(owner[o])
        PROVE  Forwardable(owner[o], name[o])
    BY <2>1, <2>2 DEF Forwardable
  <2>3. ASSUME faults = 0, UseLock(o), NEW g \in Gateway \ {owner[o]},
               Forwardable(g, name[o])
        PROVE  pc[connections[g][name[o]]] = "clear"
    <3> DEFINE p == connections[g][name[o]]
    <3>1. /\ p \in Obj /\ owner[p] = g /\ name[p] = name[o] /\ Runs(g)
          /\ UseLock(p) /\ connLock[p] /\ p # o
      BY <2>1, <2>3, NoneAssumption
      DEF Forwardable, IInv, TypeOK, MapKnows, UseLock
    <3>2. pc[p] \in Working \cup {"clear"} BY <3>1 DEF IInv, FlagAt
    <3>3. lock[o] = "held"
      BY <2>1, <2>3 DEF IInv, LockWhileWorking, Working
    <3>4. pc[p] \in Working => lock[p] = "held"
      BY <2>3, <3>1 DEF IInv, LockWhileWorking, Working
    <3>5. QED BY <2>3, <3>1, <3>2, <3>3, <3>4 DEF IInv, LockWhileWorking
  <2>4. QED BY <2>2, <2>3
<1>2. QED BY Invariant, <1>1, PTL
-----------------------------------------------------------------------------
(* What Connections promises of the locks, with faults too. *)

\* At most one ConnectionState of a name holds its lock.
OneHolder ==
    \A o1, o2 \in Obj :
        lock[o1] = "held" /\ lock[o2] = "held" /\ name[o1] = name[o2] => o1 = o2

\* Only TryTrue takes a lock, and only from nobody; a ConnectionState gets its
\* name while it has no lock.
LEMMA LockTaken ==
  ASSUME IInv, [Next]_vars, NEW o \in Obj, lock'[o] = "held"
  PROVE  /\ name'[o] = name[o] /\ name[o] # None
         /\ lock[o] = "held" \/ TryTrue(o)
<1>1. ASSUME NEW g \in Gateway, NEW n \in Name, InsertNew(g, n)
      PROVE  name'[o] = name[o] /\ name[o] # None /\ lock[o] = "held"
  <2>1. PICK p \in Obj : pc[p] = "new" /\ name' = [name EXCEPT ![p] = n]
    BY <1>1, InsertNewMakes
  <2>2. lock[o] = "held" BY <1>1 DEF InsertNew, lockVars
  <2>3. pc[o] # "new" /\ name[o] # None BY <2>2 DEF IInv, NewHasNothing
  <2>4. QED BY <2>1, <2>2, <2>3 DEF IInv, TypeOK
<1>2. CASE ~\E g \in Gateway, n \in Name : InsertNew(g, n)
  <2>1. name' = name
    BY <1>2 DEF Next, vars, idVars, HandleTargetControlMsg, Manager, Disconnect,
       InsertSame, InsertChanged, DisconnectClose, Reconnect, Listener,
       EventDisconnected, Unlock, ZkDown, ZkUp, Goroutine, LoopRound, LoopEnds,
       TryTrue, TryFalse, PrepareQuery, MakeContext, Subscribe, SubscribeReturns,
       AfterUnlock, AfterClear, LoseLock, CrashedSession
  <2>2. lock[o] = "held" \/ TryTrue(o)
    <3>1. ASSUME NEW q \in Obj, TryTrue(q) PROVE lock[o] = "held" \/ TryTrue(o)
      BY <3>1 DEF TryTrue, IInv, TypeOK
    <3>2. ASSUME NEW q \in Obj, AfterUnlock(q) \/ LoseLock(q) \/ CrashedSession(q)
          PROVE  lock[o] = "held"
      BY <3>2 DEF AfterUnlock, LoseLock, CrashedSession, IInv, TypeOK
    <3>3. CASE lock' = lock BY <3>3
    <3>4. QED
      BY <1>2, <3>1, <3>2, <3>3 DEF Next, vars, lockVars, HandleTargetControlMsg,
         Manager, Disconnect, InsertSame, InsertChanged, DisconnectClose, Reconnect,
         Listener, EventDisconnected, Unlock, ZkDown, ZkUp, Goroutine, LoopRound,
         LoopEnds, TryFalse, PrepareQuery, MakeContext, Subscribe, SubscribeReturns,
         AfterClear
  <2>3. name[o] # None
    <3>1. pc[o] # "new" BY <2>2 DEF TryTrue, At, IInv, NewHasNothing
    <3>2. QED BY <3>1 DEF IInv, NewHasNothing
  <2>4. QED BY <2>1, <2>2, <2>3
<1>3. QED BY <1>1, <1>2

LEMMA OneHolderStep == IInv /\ OneHolder /\ [Next]_vars => OneHolder'
<1> SUFFICES ASSUME IInv, OneHolder, [Next]_vars, NEW o1 \in Obj, NEW o2 \in Obj,
                    lock'[o1] = "held", lock'[o2] = "held", name'[o1] = name'[o2],
                    o1 # o2
             PROVE  FALSE
  BY DEF OneHolder
<1>1. name[o1] = name[o2] BY LockTaken
<1>2. ASSUME NEW p \in Obj, NEW q \in Obj, p # q, name[p] = name[q],
             lock[p] = "held", lock'[p] = "held", TryTrue(q), lock'[q] = "held"
      PROVE  lock[q] = "held"
  BY <1>2 DEF TryTrue, LockFree, IInv, TypeOK
<1>3. ~(TryTrue(o1) /\ TryTrue(o2) /\ lock[o1] # "held" /\ lock[o2] # "held")
  BY DEF TryTrue, IInv, TypeOK
<1>4. QED BY <1>1, <1>2, <1>3, LockTaken DEF OneHolder

\* A lock that is held is held by one connection, with or without faults
\* (state.go:247-254).
THEOREM NoTwoHolders == Spec => []OneHolder
<1>1. Init => OneHolder BY DEF Init, OneHolder
<1>2. QED BY <1>1, OneHolderStep, Invariant, PTL DEF Spec

LEMMA LockOfStep ==
  ASSUME IInv, OneHolder, OneHolder', [Next]_vars, NEW n \in Locked
  PROVE  [LockOf(n)!Next]_{o \in Obj : name[o] = n /\ lock[o] = "held"}
<1> DEFINE h == {o \in Obj : name[o] = n /\ lock[o] = "held"}
<1>1. n # None BY NamesAssumption, NoneAssumption
<1>2. \A o \in h' : o \in h \/ (TryTrue(o) /\ name[o] = n) BY LockTaken
<1>3. CASE h' \subseteq h
  <2>1. CASE h' # h
    <3>1. PICK o \in h : o \notin h' BY <1>3, <2>1
    <3>2. h = {o} BY <3>1 DEF OneHolder
    <3>3. h' = h \ {o} BY <1>3, <3>1, <3>2
    <3>4. QED BY <3>1, <3>3 DEF LockOf!Next, LockOf!Release
  <2>2. QED BY <2>1
<1>4. CASE ~(h' \subseteq h)
  <2>1. PICK o \in h' : o \notin h /\ TryTrue(o) /\ name[o] = n BY <1>2, <1>4
  <2>2. lock[o] # "held" /\ lock'[o] = "held" /\ lock[o] = "none"
    BY <2>1 DEF TryTrue, IInv, TypeOK
  <2>3. h = {} BY <2>1, <2>2 DEF TryTrue, LockFree
  <2>4. h' = {o}
    BY <2>1 DEF OneHolder
  <2>5. QED BY <2>1, <2>3, <2>4 DEF LockOf!Next, LockOf!Acquire
<1>5. QED BY <1>3, <1>4

\* The locks that Connections uses keep what ExclusiveLock promises, which is
\* what ZkLock implements: the two models fit together at this interface.
THEOREM LockInterface == Spec => LocksAreExclusive
<1> SUFFICES ASSUME NEW n \in Locked PROVE Spec => LockOf(n)!Spec
  BY DEF LocksAreExclusive
<1>1. Init => LockOf(n)!Init BY DEF Init, LockOf!Init
<1>2. IInv /\ OneHolder /\ OneHolder' /\ [Next]_vars
        => [LockOf(n)!Next]_{o \in Obj : name[o] = n /\ lock[o] = "held"}
  BY LockOfStep
<1>3. QED BY <1>1, <1>2, Invariant, NoTwoHolders, PTL DEF Spec, LockOf!Spec

\* Two subscriptions to a locked target need a fault, and one of them has lost
\* its lock (state.go:242-265).
THEOREM DoubleSafe == Spec => []DoubleNeedsLoss
<1>1. IInv /\ OneHolder => DoubleNeedsLoss
  <2> SUFFICES ASSUME IInv, OneHolder, NEW o1 \in Obj, NEW o2 \in Obj,
                      At(o1, "subscribed"), At(o2, "subscribed"), o1 # o2,
                      name[o1] = name[o2], UseLock(o1)
               PROVE  faults > 0 /\ \E o \in {o1, o2} : lock[o] # "held"
    BY DEF DoubleNeedsLoss
  <2>1. \E o \in {o1, o2} : lock[o] # "held" BY DEF OneHolder
  <2>2. faults # 0
    <3> SUFFICES ASSUME faults = 0 PROVE FALSE
      OBVIOUS
    <3>1. UseLock(o2) BY DEF UseLock
    <3>2. lock[o1] = "held" /\ lock[o2] = "held"
      BY <3>1 DEF IInv, LockWhileWorking, Working, At
    <3>3. QED BY <2>1, <3>2
  <2>3. faults \in Nat BY LimitAssumption DEF IInv, TypeOK
  <2>4. QED BY <2>1, <2>2, <2>3
<1>2. QED BY <1>1, Invariant, NoTwoHolders, PTL

\* What has ended keeps no slot, no flag and, without faults, no lock.
THEOREM EndedSafe == Spec => []EndedHasNothing
<1>1. IInv => EndedHasNothing
  BY DEF IInv, EndedHasNothing, FlagAt, LockWhileWorking, Working
<1>2. QED BY <1>1, Invariant, PTL

-----------------------------------------------------------------------------
(* How a goroutine that was stopped ends. *)

\* The steps of Distance, as numbers.
LEMMA Distances ==
  /\ Distance["ended"] = 0 /\ Distance["loop"] = 1 /\ Distance["clear"] = 2
  /\ Distance["after"] = 3 /\ Distance["subscribed"] = 4 /\ Distance["client"] = 5
  /\ Distance["context"] = 6 /\ Distance["prep"] = 7 /\ Distance["try"] = 8
  /\ Distance["new"] = 9
BY DEF Distance

\* A goroutine moves by its own steps only, and stopped is never taken back.
LEMMA OwnSteps ==
  ASSUME IInv, [Next]_vars, NEW o \in Obj, pc[o] # "new"
  PROVE  /\ pc'[o] # pc[o] => Goroutine(o)
         /\ stopped[o] => stopped'[o]
<1>1. ASSUME NEW p \in Obj, Goroutine(p)
      PROVE  stopped' = stopped /\ (pc'[o] # pc[o] => p = o)
  <2>1. stopped' = stopped
    BY <1>1 DEF Goroutine, LoopRound, LoopEnds, TryTrue, TryFalse, PrepareQuery,
       MakeContext, Subscribe, SubscribeReturns, AfterUnlock, AfterClear, connVars
  <2>2. \E x \in PC : pc' = [pc EXCEPT ![p] = x]
    BY <1>1 DEF Goroutine, LoopRound, LoopEnds, TryTrue, TryFalse, PrepareQuery,
       MakeContext, Subscribe, SubscribeReturns, AfterUnlock, AfterClear,
       DoConnectReturns, Goto, PC
  <2>3. QED BY <2>1, <2>2 DEF IInv, TypeOK
<1>2. ASSUME NEW g \in Gateway, NEW n \in Name, InsertNew(g, n)
      PROVE  stopped' = stopped /\ pc'[o] = pc[o]
  <2>1. PICK p \in Obj : pc[p] = "new" /\ pc' = [pc EXCEPT ![p] = "loop"]
    BY <1>2, InsertNewMakes
  <2>2. QED BY <1>2, <2>1 DEF InsertNew, IInv, TypeOK
<1>3. ASSUME NEW g \in Gateway, NEW n \in Name, Disconnect(g, n)
      PROVE  pc' = pc /\ (stopped[o] => stopped'[o])
  BY <1>3 DEF Disconnect, IInv, TypeOK
<1>4. ASSUME NEW g \in Gateway, NEW n \in Name, InsertSame(g, n) \/ InsertChanged(g, n)
      PROVE  pc' = pc /\ stopped' = stopped
  BY <1>4 DEF InsertSame, InsertChanged, connVars
<1>5. ASSUME NEW g \in Gateway,
             HandleTargetControlMsg(g) \/ DisconnectClose(g) \/ Reconnect(g)
      PROVE  pc' = pc /\ stopped' = stopped
  BY <1>5 DEF HandleTargetControlMsg, DisconnectClose, Reconnect, connVars
<1>6. ASSUME NEW g \in Gateway, Listener(g) \/ ZkDown(g) \/ ZkUp(g)
      PROVE  pc' = pc /\ stopped' = stopped
  BY <1>6 DEF Listener, EventDisconnected, Unlock, ZkDown, ZkUp, connVars
<1>7. ASSUME NEW p \in Obj, LoseLock(p) \/ CrashedSession(p)
      PROVE  pc' = pc /\ stopped' = stopped
  BY <1>7 DEF LoseLock, CrashedSession, connVars
<1>8. CASE UNCHANGED vars
  BY <1>8 DEF vars, connVars
<1>9. QED
  BY <1>1, <1>2, <1>3, <1>4, <1>5, <1>6, <1>7, <1>8 DEF Next, Manager

\* Each step of a goroutine that has been stopped leads nearer to its end.
LEMMA StoppedStep ==
  ASSUME IInv, NEW o \in Obj, stopped[o], Goroutine(o), pc'[o] # pc[o]
  PROVE  Distance[pc'[o]] < Distance[pc[o]]
<1> DEFINE Moves(p, q) == pc[o] = p /\ pc'[o] = q
<1>1. ~LoopRound(o) BY DEF LoopRound
<1>2. CASE LoopEnds(o)
  <2>1. Moves("loop", "ended") BY <1>2 DEF LoopEnds, At, Goto, IInv, TypeOK
  <2>2. QED BY <2>1, Distances
<1>3. CASE TryTrue(o)
  <2>1. Moves("try", "prep") BY <1>3 DEF TryTrue, At, Goto, IInv, TypeOK
  <2>2. QED BY <2>1, Distances
<1>4. CASE TryFalse(o)
  <2>1. Moves("try", "loop") BY <1>4 DEF TryFalse, At, Goto, IInv, TypeOK
  <2>2. QED BY <2>1, Distances
<1>5. CASE PrepareQuery(o)
  <2>1. Moves("prep", "after") \/ Moves("prep", "loop") \/ Moves("prep", "context")
    BY <1>5 DEF PrepareQuery, DoConnectReturns, At, Goto, IInv, TypeOK
  <2>2. QED BY <2>1, Distances
<1>6. CASE MakeContext(o)
  <2>1. Moves("context", "client") BY <1>6 DEF MakeContext, At, Goto, IInv, TypeOK
  <2>2. QED BY <2>1, Distances
<1>7. CASE Subscribe(o)
  <2>1. Moves("client", "subscribed") BY <1>7 DEF Subscribe, At, Goto, IInv, TypeOK
  <2>2. QED BY <2>1, Distances
<1>8. CASE SubscribeReturns(o)
  <2>1. Moves("subscribed", "after") \/ Moves("subscribed", "loop")
    BY <1>8 DEF SubscribeReturns, DoConnectReturns, At, Goto, IInv, TypeOK
  <2>2. QED BY <2>1, Distances
<1>9. CASE AfterUnlock(o)
  <2>1. Moves("after", "clear") BY <1>9 DEF AfterUnlock, At, Goto, IInv, TypeOK
  <2>2. QED BY <2>1, Distances
<1>10. CASE AfterClear(o)
  <2>1. Moves("clear", "loop") BY <1>10 DEF AfterClear, At, Goto, IInv, TypeOK
  <2>2. QED BY <2>1, Distances
<1>11. QED
  BY <1>1, <1>2, <1>3, <1>4, <1>5, <1>6, <1>7, <1>8, <1>9, <1>10 DEF Goroutine

\* A goroutine that has been stopped begins no new round: it ends within eight steps
\* of its own, or waits in Subscribe (state.go:217-220, 234-273).
THEOREM StoppedEndsSoon == Spec => StoppedWindsDown
<1>1. IInv /\ [Next]_vars =>
        [\A o \in Obj :
           stopped[o] => /\ stopped'[o]
                         /\ pc'[o] # pc[o] => Distance[pc'[o]] < Distance[pc[o]]]_vars
  <2> SUFFICES ASSUME IInv, [Next]_vars, NEW o \in Obj, stopped[o]
               PROVE  /\ stopped'[o]
                      /\ pc'[o] # pc[o] => Distance[pc'[o]] < Distance[pc[o]]
    OBVIOUS
  <2>1. pc[o] # "new" BY DEF IInv, NewHasNothing
  <2>2. QED BY <2>1, OwnSteps, StoppedStep
<1>2. QED BY <1>1, Invariant, PTL DEF Spec, StoppedWindsDown

-----------------------------------------------------------------------------
(* How connectionsMutex is given back. *)

\* What is left to do of the three kinds is finite.
LEMMA WorkIsFinite ==
  ASSUME TypeOK, NEW g \in Gateway
  PROVE  /\ IsFiniteSet(ToRemove(g)) /\ Cardinality(ToRemove(g)) \in Nat
         /\ IsFiniteSet(ToInsert(g)) /\ Cardinality(ToInsert(g)) \in Nat
         /\ IsFiniteSet(resetting[g]) /\ Cardinality(resetting[g]) \in Nat
<1>1. ToRemove(g) \subseteq Name /\ ToInsert(g) \subseteq Name
  BY DEF ToRemove, ToInsert, TypeOK
<1>2. resetting[g] \subseteq Obj BY DEF TypeOK
<1>3. IsFiniteSet(ToRemove(g)) /\ IsFiniteSet(ToInsert(g)) /\ IsFiniteSet(resetting[g])
  BY <1>1, <1>2, FiniteAssumption, FS_Subset
<1>4. QED BY <1>3, FS_CardinalityType

\* Nothing of what is left to do has changed.
LEMMA WorkKept ==
  ASSUME NEW g \in Gateway,
         removing'[g] = removing[g], inserting'[g] = inserting[g],
         closing'[g] = closing[g], resetting'[g] = resetting[g],
         closing[g] # None => /\ stopped'[closing[g]] = stopped[closing[g]]
                              /\ name'[closing[g]] = name[closing[g]]
  PROVE  Work(g)' = Work(g)
<1>1. ToRemove(g)' = ToRemove(g) BY DEF ToRemove
<1>2. ToInsert(g)' = ToInsert(g) BY DEF ToInsert
<1>3. QED BY <1>1, <1>2 DEF Work

\* Another gateway's manager does not touch what this one is about to close.
LEMMA OthersLeave ==
  ASSUME IInv, NEW g \in Gateway, NEW h \in Gateway, g # h, Manager(h) \/ Listener(h)
  PROVE  /\ removing'[g] = removing[g] /\ inserting'[g] = inserting[g]
         /\ closing'[g] = closing[g] /\ resetting'[g] = resetting[g]
         /\ closing[g] # None => /\ stopped'[closing[g]] = stopped[closing[g]]
                                 /\ name'[closing[g]] = name[closing[g]]
<1>1. ASSUME NEW n \in Name, Disconnect(h, n)
      PROVE  closing[g] # None => stopped'[closing[g]] = stopped[closing[g]]
  <2>1. connections[h][n] # None /\ stopped' = [stopped EXCEPT ![connections[h][n]] = TRUE]
    BY <1>1 DEF Disconnect, IInv, MapKnows
  <2>2. owner[connections[h][n]] = h BY <2>1 DEF IInv, MapKnows
  <2>3. closing[g] # None => closing[g] # connections[h][n]
    BY <2>2 DEF IInv, MapKnows
  <2>4. stopped \in [Obj -> BOOLEAN] /\ closing[g] \in Obj \cup {None}
    BY DEF IInv, TypeOK
  <2>5. QED BY <2>1, <2>3, <2>4
<1>2. ASSUME NEW n \in Name, InsertNew(h, n)
      PROVE  closing[g] # None => name'[closing[g]] = name[closing[g]]
  <2>1. PICK o \in Obj : pc[o] = "new" /\ name' = [name EXCEPT ![o] = n]
    BY <1>2, InsertNewMakes
  <2>2. closing[g] # None => closing[g] # o
    BY <2>1, NoneAssumption DEF IInv, MapKnows, NewHasNothing
  <2>3. QED BY <2>1, <2>2 DEF IInv, TypeOK
<1>3. ASSUME NEW n \in Name, Disconnect(h, n)
      PROVE  /\ removing'[g] = removing[g] /\ inserting'[g] = inserting[g]
             /\ closing'[g] = closing[g] /\ resetting'[g] = resetting[g] /\ name' = name
  BY <1>3 DEF Disconnect, idVars, IInv, TypeOK
<1>4. ASSUME NEW n \in Name, InsertNew(h, n) \/ InsertSame(h, n) \/ InsertChanged(h, n)
      PROVE  /\ removing'[g] = removing[g] /\ inserting'[g] = inserting[g]
             /\ closing'[g] = closing[g] /\ resetting'[g] = resetting[g]
             /\ stopped' = stopped /\ (InsertNew(h, n) \/ name' = name)
  BY <1>4 DEF InsertNew, InsertSame, InsertChanged, Inserts, Inserted, idVars, connVars,
     IInv, TypeOK
<1>5. ASSUME DisconnectClose(h) \/ Reconnect(h) \/ Listener(h)
      PROVE  /\ removing'[g] = removing[g] /\ inserting'[g] = inserting[g]
             /\ closing'[g] = closing[g] /\ resetting'[g] = resetting[g]
             /\ stopped' = stopped /\ name' = name
  BY <1>5 DEF DisconnectClose, Reconnect, Listener, EventDisconnected, Unlock, idVars,
     connVars, IInv, TypeOK
<1>6. QED BY <1>1, <1>2, <1>3, <1>4, <1>5 DEF Manager

\* The manager has one close, removal or insertion less to do after each step.
LEMMA ManagerWorks ==
  ASSUME IInv, NEW g \in Gateway, Manager(g)
  PROVE  Work(g)' < Work(g)
<1> DEFINE R == Cardinality(ToRemove(g))
           I == Cardinality(ToInsert(g))
           U == Cardinality(resetting[g])
<1> TypeOK BY DEF IInv
<1>0. R \in Nat /\ I \in Nat /\ U \in Nat
  BY WorkIsFinite
<1>1. ASSUME NEW n \in Name, Disconnect(g, n) PROVE Work(g)' < Work(g)
  <2>1. /\ n \in removing[g] /\ closing[g] = None /\ connections[g][n] \in Obj
        /\ name[connections[g][n]] = n
    BY <1>1 DEF Disconnect, IInv, TypeOK, MapKnows
  <2>2. /\ removing' = removing /\ inserting' = inserting /\ resetting' = resetting
        /\ closing'[g] = connections[g][n] /\ closing'[g] # None
        /\ stopped'[connections[g][n]] /\ name' = name
    BY <1>1, <2>1, NoneAssumption DEF Disconnect, idVars, IInv, TypeOK
  <2>3. n \in ToRemove(g) /\ ToRemove(g)' = ToRemove(g) \ {n} /\ ToInsert(g)' = ToInsert(g)
    BY <2>1, <2>2 DEF ToRemove, ToInsert
  <2>4. R' = R - 1 BY <2>3, WorkIsFinite, FS_RemoveElement DEF IInv
  <2>5. QED BY <1>0, <2>1, <2>2, <2>3, <2>4 DEF Work
<1>2. CASE DisconnectClose(g)
  <2>1. /\ closing[g] # None /\ stopped[closing[g]] /\ closing'[g] = None
        /\ removing'[g] = removing[g] \ {name[closing[g]]}
        /\ inserting' = inserting /\ resetting' = resetting
    BY <1>2 DEF DisconnectClose, IInv, TypeOK
  <2>2. ToRemove(g)' = ToRemove(g) /\ ToInsert(g)' = ToInsert(g)
    BY <2>1 DEF ToRemove, ToInsert
  <2>3. QED BY <1>0, <2>1, <2>2 DEF Work
<1>3. CASE Reconnect(g)
  <2>1. /\ closing[g] # None /\ ~stopped[closing[g]] /\ closing'[g] = None
        /\ removing' = removing /\ inserting' = inserting /\ resetting' = resetting
    BY <1>3 DEF Reconnect, IInv, TypeOK
  <2>2. ToRemove(g)' = ToRemove(g) /\ ToInsert(g)' = ToInsert(g)
    BY <2>1 DEF ToRemove, ToInsert
  <2>3. QED BY <1>0, <2>1, <2>2 DEF Work
<1>4. ASSUME NEW n \in Name, InsertNew(g, n) \/ InsertSame(g, n) \/ InsertChanged(g, n)
      PROVE  Work(g)' < Work(g)
  <2>1. /\ removing[g] = {} /\ closing[g] = None /\ inserting[g][n] # None
        /\ inserting' = [inserting EXCEPT ![g][n] = None]
        /\ removing' = removing /\ resetting' = resetting
    BY <1>4 DEF InsertNew, InsertSame, InsertChanged, Inserts, Inserted
  <2>2. ToRemove(g) = {} /\ ToRemove(g)' = {} BY <2>1 DEF ToRemove
  <2>3. n \in ToInsert(g) /\ ToInsert(g)' = ToInsert(g) \ {n}
    BY <2>1 DEF ToInsert, IInv, TypeOK
  <2>4. I' = I - 1 BY <2>3, WorkIsFinite, FS_RemoveElement DEF IInv
  <2>5. QED BY <1>0, <2>1, <2>2, <2>4 DEF Work
<1>5. QED BY <1>1, <1>2, <1>3, <1>4 DEF Manager

\* The listener has one ConnectionState less to unlock.
LEMMA ListenerWorks ==
  ASSUME IInv, NEW g \in Gateway, NEW o \in Obj, Unlock(g, o)
  PROVE  Work(g)' < Work(g)
<1>1. /\ removing' = removing /\ inserting' = inserting /\ closing' = closing
      /\ stopped' = stopped /\ name' = name
      /\ o \in resetting[g] /\ resetting'[g] = resetting[g] \ {o}
  BY DEF Unlock, idVars, IInv, TypeOK
<1>2. ToRemove(g)' = ToRemove(g) /\ ToInsert(g)' = ToInsert(g)
  BY <1>1 DEF ToRemove, ToInsert
<1>3. Cardinality(resetting'[g]) = Cardinality(resetting[g]) - 1
  BY <1>1, WorkIsFinite, FS_RemoveElement DEF IInv
<1>4. QED BY <1>1, <1>2, <1>3, WorkIsFinite DEF Work, IInv

\* The mutex is free exactly when nothing is left to do.
LEMMA NothingLeft ==
  ASSUME TypeOK, NEW g \in Gateway
  PROVE  Work(g) = 0 <=> MutexFree(g)
<1>1. /\ Cardinality(ToRemove(g)) = 0 <=> ToRemove(g) = {}
      /\ Cardinality(ToInsert(g)) = 0 <=> ToInsert(g) = {}
      /\ Cardinality(resetting[g]) = 0 <=> resetting[g] = {}
  BY WorkIsFinite, FS_EmptySet
<1>2. Work(g) = 0 <=> /\ ToRemove(g) = {} /\ ToInsert(g) = {}
                      /\ closing[g] = None /\ resetting[g] = {}
  <2> DEFINE R == Cardinality(ToRemove(g))
             I == Cardinality(ToInsert(g))
             U == Cardinality(resetting[g])
             c == IF closing[g] # None THEN 1 ELSE 0
  <2>1. R \in Nat /\ I \in Nat /\ U \in Nat /\ c \in {0, 1} BY WorkIsFinite
  <2>2. Work(g) = 2 * R + 2 * I + c + U BY DEF Work
  <2>3. (R = 0 <=> ToRemove(g) = {}) /\ (I = 0 <=> ToInsert(g) = {})
        /\ (U = 0 <=> resetting[g] = {}) /\ (c = 0 <=> closing[g] = None)
    BY <1>1
  <2> HIDE DEF R, I, U, c
  <2>4. QED BY <2>1, <2>2, <2>3
<1>3. closing[g] = None => ToRemove(g) = removing[g] BY DEF ToRemove, TypeOK
<1>4. ToInsert(g) = {} <=> inserting[g] = Nothing BY DEF ToInsert, Nothing, TypeOK
<1>5. QED BY <1>2, <1>3, <1>4 DEF MutexFree, ManagerBusy

\* While connectionsMutex is held, what its holder has to do becomes less with each of
\* its steps and more with nobody's (zookeeper.go:83-105, 126-181, gateway.go:435).
THEOREM MutexReturns == Spec => MutexIsGivenBack
<1>1. IInv /\ [Next]_vars =>
        [\A g \in Gateway :
           ~MutexFree(g) =>
              \/ Work(g)' < Work(g)
              \/ /\ removing'[g] = removing[g] /\ inserting'[g] = inserting[g]
                 /\ closing'[g] = closing[g] /\ resetting'[g] = resetting[g]
                 /\ Work(g)' = Work(g)]_vars
  <2> SUFFICES ASSUME IInv, [Next]_vars, NEW g \in Gateway, ~MutexFree(g),
                      ~(Work(g)' < Work(g))
               PROVE  /\ removing'[g] = removing[g] /\ inserting'[g] = inserting[g]
                      /\ closing'[g] = closing[g] /\ resetting'[g] = resetting[g]
                      /\ Work(g)' = Work(g)
    OBVIOUS
  <2>1. ASSUME NEW h \in Gateway, Manager(h) \/ Listener(h)
        PROVE  /\ removing'[g] = removing[g] /\ inserting'[g] = inserting[g]
               /\ closing'[g] = closing[g] /\ resetting'[g] = resetting[g]
               /\ Work(g)' = Work(g)
    <3>1. h # g
      BY <2>1, ManagerWorks, ListenerWorks DEF Listener, EventDisconnected
    <3>2. QED BY <2>1, <3>1, OthersLeave, WorkKept
  <2>2. ASSUME NEW h \in Gateway, HandleTargetControlMsg(h)
        PROVE  /\ removing'[g] = removing[g] /\ inserting'[g] = inserting[g]
               /\ closing'[g] = closing[g] /\ resetting'[g] = resetting[g]
               /\ Work(g)' = Work(g)
    <3>1. h # g BY <2>2 DEF HandleTargetControlMsg
    <3>2. /\ removing'[g] = removing[g] /\ inserting'[g] = inserting[g]
          /\ closing'[g] = closing[g] /\ resetting'[g] = resetting[g]
          /\ stopped' = stopped /\ name' = name
      BY <2>2, <3>1 DEF HandleTargetControlMsg, idVars, connVars, IInv, TypeOK
    <3>3. QED BY <3>2, WorkKept
  <2>3. CASE \/ \E h \in Gateway : ZkDown(h) \/ ZkUp(h)
             \/ \E o \in Obj : Goroutine(o) \/ LoseLock(o) \/ CrashedSession(o)
             \/ UNCHANGED vars
    <3>1. UNCHANGED mgrVars /\ UNCHANGED idVars /\ stopped' = stopped
      BY <2>3 DEF vars, connVars, ZkDown, ZkUp, Goroutine, LoopRound, LoopEnds, TryTrue,
         TryFalse, PrepareQuery, MakeContext, Subscribe, SubscribeReturns, AfterUnlock,
         AfterClear, LoseLock, CrashedSession
    <3>2. QED BY <3>1, WorkKept DEF mgrVars, idVars
  <2>4. QED BY <2>1, <2>2, <2>3 DEF Next
<1>2. QED BY <1>1, Invariant, PTL DEF Spec, MutexIsGivenBack
=============================================================================
