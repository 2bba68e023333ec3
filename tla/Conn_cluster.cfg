SPECIFICATION FairSpec
CONSTANTS
    Gateway = {g1, g2}
    Name = {n1}
    Locked = {n1}
    Config = {a, b}
    BadConfig = {}
    Obj = {o1, o2, o3}
    TargetLimit = 1
    None = None
    MaxMsgs = 2
    MaxFaults = 0
INVARIANTS
    SingleSubscription
    LockNeedsSlot
    SubscriberForwards
PROPERTIES
    DisconnectReleases
    TakesOver
CHECK_DEADLOCK FALSE
