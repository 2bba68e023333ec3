----------------------------- MODULE LocalLock -----------------------------
(***************************************************************************)
(* The lock within one process (gateway/locking/local.go), the reference   *)
(* implementation of a DistributedLocker: an entry of a map that all       *)
(* instances share, and a flag of each instance without a mutex.  One      *)
(* goroutine uses an instance, as connectWithLock does; the theorem shows  *)
(* that it then implements the abstract lock as ZkLock does.               *)
(***************************************************************************)
EXTENDS TLAPS

CONSTANTS
    Lock,     \* the instances for one id
    MemberOf  \* the member of an instance; several may have the same

VARIABLES
    registry,  \* the entry of the id in the shared map: no member, or one
    acquired,  \* l.acquired
    pc         \* "idle"; "stored", "deleted": between the map and the flag

vars == <<registry, acquired, pc>>

Init ==
    /\ registry = {}
    /\ acquired = [l \in Lock |-> FALSE]
    /\ pc = [l \in Lock |-> "idle"]

\* Try without the flag; LoadOrStore is atomic, and the flag is set after it.
LoadOrStore(l) ==
    /\ pc[l] = "idle" /\ ~acquired[l]
    /\ registry = {}
    /\ registry' = {MemberOf[l]}
    /\ pc' = [pc EXCEPT ![l] = "stored"]
    /\ UNCHANGED acquired

TryReturns(l) ==
    /\ pc[l] = "stored"
    /\ acquired' = [acquired EXCEPT ![l] = TRUE]
    /\ pc' = [pc EXCEPT ![l] = "idle"]
    /\ UNCHANGED registry

\* Unlock with the flag: the entry goes, whoever's it is, and the flag after it.
Delete(l) ==
    /\ pc[l] = "idle" /\ acquired[l]
    /\ registry' = {}
    /\ pc' = [pc EXCEPT ![l] = "deleted"]
    /\ UNCHANGED acquired

UnlockReturns(l) ==
    /\ pc[l] = "deleted"
    /\ acquired' = [acquired EXCEPT ![l] = FALSE]
    /\ pc' = [pc EXCEPT ![l] = "idle"]
    /\ UNCHANGED registry

Next == \E l \in Lock :
            LoadOrStore(l) \/ TryReturns(l) \/ Delete(l) \/ UnlockReturns(l)

Spec == Init /\ [][Next]_vars

-----------------------------------------------------------------------------
\* An instance holds the lock from the store to the delete.
Holds(l) == pc[l] = "stored" \/ (pc[l] = "idle" /\ acquired[l])

Abstract == INSTANCE ExclusiveLock WITH holders <- {l \in Lock : Holds(l)}

\* Every behaviour of the local lock is one of the abstract exclusive lock
\* (local.go:59-79).
ImplementsExclusiveLock == Abstract!Spec

\* GetMember names the member of the instance that holds the lock, and nobody if
\* there is none (local.go:47-53, locker.go:30-31).
GetMemberNamesHolder ==
    /\ registry = {} <=> \A l \in Lock : ~Holds(l)
    /\ \A l \in Lock : Holds(l) => registry = {MemberOf[l]}

TypeOK ==
    /\ acquired \in [Lock -> BOOLEAN]
    /\ pc \in [Lock -> {"idle", "stored", "deleted"}]

HeldByOne == \A k, l \in Lock : Holds(k) /\ Holds(l) => k = l

IInv == TypeOK /\ GetMemberNamesHolder /\ HeldByOne

-----------------------------------------------------------------------------
\* A step of one instance leaves the others as they are.
LEMMA OthersKeep ==
  ASSUME TypeOK, NEW l \in Lock, NEW k \in Lock \ {l},
         LoadOrStore(l) \/ TryReturns(l) \/ Delete(l) \/ UnlockReturns(l)
  PROVE  Holds(k)' <=> Holds(k)
BY DEF TypeOK, LoadOrStore, TryReturns, Delete, UnlockReturns, Holds

\* What each step does to its own instance.
LEMMA StepOfOne ==
  ASSUME IInv, NEW l \in Lock
  PROVE  /\ LoadOrStore(l) => ~Holds(l) /\ Holds(l)' /\ registry' = {MemberOf[l]}
                              /\ registry = {}
         /\ TryReturns(l) => Holds(l) /\ Holds(l)' /\ registry' = registry
         /\ Delete(l) => Holds(l) /\ ~Holds(l)' /\ registry' = {}
         /\ UnlockReturns(l) => ~Holds(l) /\ ~Holds(l)' /\ registry' = registry
BY DEF IInv, TypeOK, LoadOrStore, TryReturns, Delete, UnlockReturns, Holds

\* The entry of the map and the holder go together.
LEMMA InvariantStep == IInv /\ [Next]_vars => IInv'
<1> SUFFICES ASSUME IInv, [Next]_vars PROVE IInv'
  OBVIOUS
<1>1. CASE UNCHANGED vars
  BY <1>1 DEF IInv, TypeOK, GetMemberNamesHolder, HeldByOne, Holds, vars
<1>2. ASSUME NEW l \in Lock,
             LoadOrStore(l) \/ TryReturns(l) \/ Delete(l) \/ UnlockReturns(l)
      PROVE  IInv'
  <2>1. TypeOK'
    BY <1>2 DEF IInv, TypeOK, LoadOrStore, TryReturns, Delete, UnlockReturns
  <2>2. \A k \in Lock \ {l} : Holds(k)' <=> Holds(k)
    BY <1>2, OthersKeep DEF IInv
  <2>3. GetMemberNamesHolder' /\ HeldByOne'
    <3>1. CASE LoadOrStore(l)
      BY <2>2, <3>1, StepOfOne DEF IInv, GetMemberNamesHolder, HeldByOne
    <3>2. CASE TryReturns(l)
      BY <2>2, <3>2, StepOfOne DEF IInv, GetMemberNamesHolder, HeldByOne
    <3>3. CASE Delete(l)
      BY <2>2, <3>3, StepOfOne DEF IInv, GetMemberNamesHolder, HeldByOne
    <3>4. CASE UnlockReturns(l)
      BY <2>2, <3>4, StepOfOne DEF IInv, GetMemberNamesHolder, HeldByOne
    <3>5. QED BY <1>2, <3>1, <3>2, <3>3, <3>4
  <2>4. QED BY <2>1, <2>3 DEF IInv
<1>3. QED BY <1>1, <1>2 DEF Next

\* It holds of every reachable state.
THEOREM Invariant == Spec => []IInv
<1>1. Init => IInv
  BY DEF Init, IInv, TypeOK, GetMemberNamesHolder, HeldByOne, Holds
<1>2. QED BY <1>1, InvariantStep, PTL DEF Spec

\* GetMember names the holder of the local lock, for every number of instances.
THEOREM MemberIsHolder == Spec => []GetMemberNamesHolder
<1>1. IInv => GetMemberNamesHolder BY DEF IInv
<1>2. QED BY <1>1, Invariant, PTL

\* The holders change by one that comes while there is none, or by one that goes.
LEMMA AbstractStep == IInv /\ [Next]_vars => [Abstract!Next]_{l \in Lock : Holds(l)}
<1> SUFFICES ASSUME IInv, [Next]_vars
             PROVE  [Abstract!Next]_{l \in Lock : Holds(l)}
  OBVIOUS
<1> DEFINE h == {l \in Lock : Holds(l)}
<1>1. CASE UNCHANGED vars
  BY <1>1 DEF vars, Holds
<1>2. ASSUME NEW l \in Lock,
             LoadOrStore(l) \/ TryReturns(l) \/ Delete(l) \/ UnlockReturns(l)
      PROVE  [Abstract!Next]_h
  <2>1. \A k \in Lock \ {l} : Holds(k)' <=> Holds(k)
    BY <1>2, OthersKeep DEF IInv
  <2>2. CASE LoadOrStore(l)
    <3>1. h = {} BY <2>2, StepOfOne DEF IInv, GetMemberNamesHolder
    <3>2. h' = {l} BY <2>1, <2>2, <3>1, StepOfOne
    <3>3. QED BY <3>1, <3>2 DEF Abstract!Next, Abstract!Acquire
  <2>3. CASE TryReturns(l) \/ UnlockReturns(l)
    <3>1. h' = h BY <2>1, <2>3, StepOfOne
    <3>2. QED BY <3>1
  <2>4. CASE Delete(l)
    <3>1. l \in h /\ h' = h \ {l} BY <2>1, <2>4, StepOfOne
    <3>2. QED BY <3>1 DEF Abstract!Next, Abstract!Release
  <2>5. QED BY <1>2, <2>2, <2>3, <2>4
<1>3. QED BY <1>1, <1>2 DEF Next

\* The local lock is exclusive in the sense of the abstract lock, for every number of
\* instances.
THEOREM Refinement == Spec => ImplementsExclusiveLock
<1>1. Init => Abstract!Init
  BY DEF Init, Holds, Abstract!Init
<1>2. QED
  BY <1>1, AbstractStep, Invariant, PTL
  DEF Spec, ImplementsExclusiveLock, Abstract!Spec
=============================================================================
