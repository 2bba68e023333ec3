--------------------------- MODULE ExclusiveLock ---------------------------
(***************************************************************************)
(* What a DistributedLocker promises (gateway/locking/locker.go): a lock   *)
(* instance acquires the lock only while no instance holds it, and keeps   *)
(* it until the lock is released on its behalf.                            *)
(***************************************************************************)
CONSTANT Lock          \* the lock instances that compete for one lock id

VARIABLE holders       \* the instances that hold the lock

Init == holders = {}

Acquire(l) == /\ holders = {}
              /\ holders' = {l}

Release(l) == /\ l \in holders
              /\ holders' = holders \ {l}

Next == \E l \in Lock : Acquire(l) \/ Release(l)

Spec == Init /\ [][Next]_holders
=============================================================================
