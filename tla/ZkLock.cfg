SPECIFICATION FairSpec
CONSTANTS
    l1 = l1
    l2 = l2
    c1 = c1
    c2 = c2
    Lock = {l1, l2}
    Conn = {c1, c2}
    ConnOf <- TwoGateways
    User = user
    Watcher = {w1}
    NoThread = nobody
    MaxSeq = 3
    MaxFaults = 1
INVARIANTS
    TypeOK
    HeldIsLowest
    HeldByOne
    NoOrphans
PROPERTIES
    ImplementsExclusiveLock
    DeadlockOnlyAfterFault
    Progress
CHECK_DEADLOCK FALSE
